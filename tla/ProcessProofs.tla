--------------------------- MODULE ProcessProofs ---------------------------
(***************************************************************************)
(* Proofs about the parts of the process that Process puts side by side,   *)
(* for every value of the constants:                                       *)
(*   - LoadSystemLibrary stays in its buffer and loads from the system     *)
(*     directory, whatever MAX_PATH, directory and name;                   *)
(*   - TrimWhiteSpace returns the trimmed string, for every alphabet,      *)
(*     every set of spaces and every block;                                *)
(*   - a derived key is the one the definition of PBKDF2 gives, and no      *)
(*     hash object outlives the derivation, whichever call fails;          *)
(*   - start-up and end leave nothing behind, whichever step fails;        *)
(*   - exactly the handles of complete objects of the encryption exist,    *)
(*     whichever call fails, and CryptoAPI's turn starts from nothing;     *)
(*   - all of it together holds of the process.                            *)
(***************************************************************************)
EXTENDS Process, Sequences, TLAPS

-----------------------------------------------------------------------------
(* Loading a library from the system directory *)

DirLen == IF system.root THEN system.length - 1 ELSE system.length

\* What is in the buffer before each call that adds to it.
HasDirectory ==
    pc = "separator" =>
        /\ sysDirLen = system.length /\ sysDirLen < MAX_PATH
        /\ \A a \in 0 .. system.length - 1 :
             memory[a] = IF a < DirLen THEN "dir" ELSE "backslash"
HasPrefix ==
    pc = "name" =>
        /\ sysDirLen = DirLen + 1 /\ sysDirLen <= MAX_PATH
        /\ \A a \in 0 .. DirLen : memory[a] = IF a < DirLen THEN "dir" ELSE "backslash"

LoaderInv == TypeOK /\ NoOverrun /\ LoadsFromSystem /\ HasDirectory /\ HasPrefix

\* The memory behind the buffer, the path and what leads to it hold at first.
LEMMA InitLoaderInv == Init => LoaderInv
  <1> SUFFICES ASSUME Init PROVE LoaderInv
    OBVIOUS
  <1>1. TypeOK
    BY PathAssumption DEF Init, TypeOK, System, Restrictions, Garbage, Addresses, Cells
  <1>2. NoOverrun
    BY DEF Init, NoOverrun, Garbage
  <1>3. pc \notin {"load", "separator", "name"}
    BY DEF Init
  <1> QED BY <1>1, <1>2, <1>3 DEF LoaderInv, LoadsFromSystem, HasDirectory, HasPrefix

\* No call of LibraryLoader.c disturbs them.
LEMMA NextLoaderInv == LoaderInv /\ [Next]_vars => LoaderInv'
  <1> SUFFICES ASSUME LoaderInv, [Next]_vars PROVE LoaderInv'
    OBVIOUS
  <1> USE PathAssumption
  <1>t. TypeOK /\ NoOverrun
    BY DEF LoaderInv
  <1>s. /\ system.length \in 1 .. MAX_PATH + 1 /\ system.root \in BOOLEAN
        /\ DirLen \in Nat /\ DirLen <= system.length
        /\ (system.root => DirLen = system.length - 1)
        /\ (~system.root => DirLen = system.length)
    BY <1>t DEF TypeOK, System, DirLen
  <1>1. CASE RestrictLibrarySearchPaths
    <2>1. PICK f \in Restrictions, next \in Restrictions \cup {"idle"} : Restrict(f, next)
      BY <1>1 DEF RestrictLibrarySearchPaths, Restrictions
    <2>2. TypeOK'
      BY <1>t, <2>1 DEF Restrict, TypeOK, Restrictions
    <2>3. NoOverrun'
      BY <1>t, <2>1 DEF Restrict, NoOverrun
    <2>4. pc' \notin {"load", "separator", "name"}
      BY <2>1 DEF Restrict, Restrictions
    <2> QED BY <2>2, <2>3, <2>4 DEF LoaderInv, LoadsFromSystem, HasDirectory, HasPrefix
  <1>2. CASE LoadSystemLibrary
    <2>1. TypeOK'
      BY <1>t, <1>2 DEF LoadSystemLibrary, Goto, TypeOK, Garbage, Cells
    <2>2. NoOverrun'
      BY <1>2 DEF LoadSystemLibrary, NoOverrun, Garbage
    <2>3. pc' \notin {"load", "separator", "name"}
      BY <1>2 DEF LoadSystemLibrary, Goto
    <2> QED BY <2>1, <2>2, <2>3 DEF LoaderInv, LoadsFromSystem, HasDirectory, HasPrefix
  <1>3. CASE GetSystemDirectory
    <2>1. CASE Goto("idle") /\ UNCHANGED <<sysDirLen, memory, nameLen>>
      <3>1. TypeOK' /\ NoOverrun' /\ pc' = "idle"
        BY <1>t, <2>1 DEF Goto, TypeOK, NoOverrun
      <3> QED BY <3>1 DEF LoaderInv, LoadsFromSystem, HasDirectory, HasPrefix
    <2>2. CASE /\ pc = "dir" /\ Fits(MAX_PATH) /\ sysDirLen' = system.length
               /\ memory' = Filled /\ Goto("separator") /\ UNCHANGED nameLen
      <3>1. system.length < MAX_PATH /\ system' = system
        BY <2>2 DEF Fits, Goto
      <3>2. memory' \in [Addresses -> Cells]
        BY <1>t, <2>2 DEF TypeOK, Filled, Directory, Cells
      <3>3. TypeOK'
        BY <1>t, <1>s, <2>2, <3>1, <3>2 DEF TypeOK, Goto
      <3>4. NoOverrun'
        <4> SUFFICES ASSUME NEW a \in Addresses, a > MAX_PATH PROVE memory'[a] = "garbage"
          BY DEF NoOverrun
        <4>1. ~(a <= system.length)
          BY <3>1, <1>s DEF Addresses
        <4> QED BY <4>1, <1>t, <2>2 DEF Filled, NoOverrun
      <3>5. \A a \in 0 .. system.length - 1 :
              memory'[a] = IF a < DirLen THEN "dir" ELSE "backslash"
        <4> SUFFICES ASSUME NEW a \in 0 .. system.length - 1
                     PROVE memory'[a] = IF a < DirLen THEN "dir" ELSE "backslash"
          OBVIOUS
        <4>1. a \in Addresses /\ a <= system.length /\ a # system.length
          BY <1>s, <3>1 DEF Addresses
        <4>2. memory'[a] = Directory(a)
          BY <4>1, <2>2 DEF Filled
        <4> QED BY <4>1, <4>2, <1>s DEF Directory
      <3> QED BY <2>2, <3>1, <3>3, <3>4, <3>5
            DEF LoaderInv, LoadsFromSystem, HasDirectory, HasPrefix, Goto, DirLen
    <2> QED BY <1>3, <2>1, <2>2 DEF GetSystemDirectory
  <1>4. CASE AppendBackslash
    <2>1. /\ sysDirLen = system.length /\ sysDirLen < MAX_PATH
          /\ \A a \in 0 .. system.length - 1 :
               memory[a] = IF a < DirLen THEN "dir" ELSE "backslash"
      BY <1>4 DEF LoaderInv, HasDirectory, AppendBackslash
    <2>2. /\ pc' = "name" /\ system' = system /\ DirLen' = DirLen
          /\ UNCHANGED <<offered, policy, nameLen>>
      BY <1>4 DEF AppendBackslash, Goto, DirLen
    <2>3. sysDirLen - 1 \in 0 .. system.length - 1 /\ sysDirLen \in Addresses
      BY <2>1, <1>s DEF Addresses
    <2>4. CASE memory[sysDirLen - 1] = "backslash"
      <3>1. UNCHANGED <<sysDirLen, memory>>
        BY <1>4, <2>4 DEF AppendBackslash
      <3>2. ~(sysDirLen - 1 < DirLen)
        BY <2>1, <2>3, <2>4
      <3>3. system.length = DirLen + 1
        BY <3>2, <2>1, <1>s
      <3>4. TypeOK' /\ NoOverrun'
        BY <1>t, <2>2, <3>1 DEF TypeOK, NoOverrun
      <3>5. HasPrefix'
        BY <2>1, <2>2, <3>1, <3>3, <1>s DEF HasPrefix
      <3> QED BY <2>2, <3>4, <3>5 DEF LoaderInv, LoadsFromSystem, HasDirectory
    <2>5. CASE memory[sysDirLen - 1] # "backslash"
      <3>1. /\ memory' = [memory EXCEPT ![sysDirLen] = "backslash"]
            /\ sysDirLen' = sysDirLen + 1
        BY <1>4, <2>5 DEF AppendBackslash
      <3>2. sysDirLen - 1 < DirLen
        BY <2>1, <2>3, <2>5
      <3>3. system.length = DirLen
        BY <3>2, <2>1, <1>s
      <3>4. TypeOK'
        <4>1. memory' \in [Addresses -> Cells]
          BY <1>t, <3>1 DEF TypeOK, Cells
        <4>2. sysDirLen' \in 0 .. MAX_PATH + 2
          BY <1>t, <2>1, <3>1 DEF TypeOK
        <4> QED BY <1>t, <2>2, <4>1, <4>2 DEF TypeOK
      <3>5. NoOverrun'
        BY <1>t, <2>1, <3>1 DEF NoOverrun, TypeOK
      <3>6. ASSUME NEW a \in 0 .. DirLen
            PROVE  memory'[a] = IF a < DirLen THEN "dir" ELSE "backslash"
        <4>1. a \in Addresses /\ sysDirLen = DirLen
          BY <1>s, <2>1, <3>3 DEF Addresses
        <4>2. CASE a = sysDirLen
          BY <4>1, <4>2, <3>1, <1>t DEF TypeOK
        <4>3. CASE a # sysDirLen
          <5>1. a \in 0 .. system.length - 1
            BY <4>1, <4>3, <3>3, <1>s
          <5> QED BY <5>1, <4>1, <4>3, <3>1, <2>1, <1>t DEF TypeOK
        <4> QED BY <4>2, <4>3
      <3>7. HasPrefix'
        BY <2>1, <2>2, <3>1, <3>3, <3>6, <1>s DEF HasPrefix
      <3> QED BY <2>2, <3>4, <3>5, <3>7 DEF LoaderInv, LoadsFromSystem, HasDirectory
    <2> QED BY <2>4, <2>5
  <1>5. CASE AppendName
    <2>1. /\ sysDirLen = DirLen + 1
          /\ \A a \in 0 .. DirLen : memory[a] = IF a < DirLen THEN "dir" ELSE "backslash"
      BY <1>5 DEF LoaderInv, HasPrefix, AppendName
    <2>2. UNCHANGED <<offered, policy, system, nameLen, sysDirLen>> /\ DirLen' = DirLen
      BY <1>5 DEF AppendName, Goto, DirLen
    <2>3. CASE sysDirLen + nameLen > MAX_PATH
      <3>1. pc' = "idle" /\ memory' = memory
        BY <1>5, <2>3 DEF AppendName, Goto
      <3>2. TypeOK' /\ NoOverrun'
        BY <1>t, <2>2, <3>1 DEF TypeOK, NoOverrun
      <3> QED BY <3>1, <3>2 DEF LoaderInv, LoadsFromSystem, HasDirectory, HasPrefix
    <2>4. CASE ~(sysDirLen + nameLen > MAX_PATH)
      <3>1. pc' = "load" /\ memory' = Copied
        BY <1>5, <2>4 DEF AppendName, Goto
      <3>2. nameLen \in Nat /\ sysDirLen \in Nat /\ sysDirLen + nameLen <= MAX_PATH
        BY <1>t, <2>4 DEF TypeOK
      <3>3. TypeOK'
        BY <1>t, <2>2, <3>1 DEF TypeOK, Copied, Cells
      <3>4. NoOverrun'
        <4> SUFFICES ASSUME NEW a \in Addresses, a > MAX_PATH PROVE memory'[a] = "garbage"
          BY DEF NoOverrun
        <4>1. a \notin sysDirLen .. sysDirLen + nameLen - 1 /\ a # sysDirLen + nameLen
          BY <3>2 DEF Addresses
        <4> QED BY <4>1, <3>1, <1>t DEF Copied, NoOverrun
      <3>5. ASSUME NEW a \in 0 .. DirLen + 1 + nameLen
            PROVE  memory'[a] = IF a < DirLen THEN "dir" ELSE IF a = DirLen THEN "backslash"
                                ELSE IF a <= DirLen + nameLen THEN "name" ELSE "nul"
        <4>1. a \in Addresses
          BY <1>s, <2>1, <3>2 DEF Addresses
        <4>2. CASE a <= DirLen
          <5>1. a \in 0 .. DirLen /\ a \notin sysDirLen .. sysDirLen + nameLen - 1
                /\ a # sysDirLen + nameLen
            BY <4>2, <2>1, <3>2, <1>s
          <5>2. memory'[a] = memory[a]
            BY <4>1, <5>1, <3>1 DEF Copied
          <5> QED BY <5>1, <5>2, <4>2, <2>1, <1>s
        <4>3. CASE a > DirLen
          <5>1. /\ a \in sysDirLen .. sysDirLen + nameLen - 1 <=> a <= DirLen + nameLen
                /\ a > DirLen + nameLen => a = sysDirLen + nameLen
            BY <4>3, <2>1, <3>2, <1>s
          <5> QED BY <4>1, <4>3, <5>1, <3>1, <1>s, <3>2 DEF Copied
        <4> QED BY <4>2, <4>3, <1>s
      <3>6. LoadsFromSystem'
        BY <2>2, <3>5 DEF LoadsFromSystem, DirLen
      <3> QED BY <3>1, <3>3, <3>4, <3>6 DEF LoaderInv, HasDirectory, HasPrefix
    <2> QED BY <2>3, <2>4
  <1>6. CASE LoadLibraryEx
    <2>1. pc' = "idle" /\ UNCHANGED <<offered, policy, system, nameLen, sysDirLen, memory>>
      BY <1>6 DEF LoadLibraryEx, Goto
    <2>2. TypeOK' /\ NoOverrun'
      BY <1>t, <2>1 DEF TypeOK, NoOverrun
    <2> QED BY <2>1, <2>2 DEF LoaderInv, LoadsFromSystem, HasDirectory, HasPrefix
  <1>7. CASE UNCHANGED vars
    BY <1>7 DEF vars, LoaderInv, TypeOK, NoOverrun, LoadsFromSystem, HasDirectory,
         HasPrefix, DirLen
  <1> QED BY <1>1, <1>2, <1>3, <1>4, <1>5, <1>6, <1>7 DEF Next

\* They hold in every reachable state.
LEMMA SpecLoaderInv == Spec => []LoaderInv
  BY InitLoaderInv, NextLoaderInv, PTL DEF Spec

\* The types hold for every length of path and name.
THEOREM LoaderTypes == Spec => []TypeOK
  BY SpecLoaderInv, PTL DEF LoaderInv

\* LoadSystemLibrary never writes behind its buffer.
THEOREM LoaderStaysInBuffer == Spec => []NoOverrun
  BY SpecLoaderInv, PTL DEF LoaderInv

\* What LoadLibraryEx is given is the system directory, a backslash and the name.
THEOREM LoaderLoadsFromSystem == Spec => []LoadsFromSystem
  BY SpecLoaderInv, PTL DEF LoaderInv

-----------------------------------------------------------------------------
\* Before each restriction those already in force are all the system has of the
\* older ones.
Ordered ==
    /\ pc = "SetDllDirectory" => policy = {}
    /\ pc = "SetSearchPathMode" => policy = offered \cap {"SetDllDirectory"}
    /\ pc = "SetDefaultDllDirectories"
          => policy = offered \cap {"SetDllDirectory", "SetSearchPathMode"}
    /\ OldestFirst

\* The order of the three calls keeps it; the rest of the module leaves the
\* restrictions alone.
LEMMA OrderKept == TypeOK /\ Ordered /\ [Next]_vars => Ordered'
  <1> SUFFICES ASSUME TypeOK, Ordered, [Next]_vars PROVE Ordered'
    OBVIOUS
  <1>1. CASE RestrictLibrarySearchPaths
    <2>1. offered \subseteq Restrictions
      BY DEF TypeOK
    <2>2. CASE Restrict("SetDllDirectory", "SetSearchPathMode")
      BY <2>1, <2>2 DEF Restrict, Ordered, OldestFirst, Restrictions
    <2>3. CASE Restrict("SetSearchPathMode", "SetDefaultDllDirectories")
      BY <2>1, <2>3 DEF Restrict, Ordered, OldestFirst, Restrictions
    <2>4. CASE Restrict("SetDefaultDllDirectories", "idle")
      BY <2>1, <2>4 DEF Restrict, Ordered, OldestFirst, Restrictions
    <2> QED BY <1>1, <2>2, <2>3, <2>4 DEF RestrictLibrarySearchPaths
  <1>2. CASE /\ UNCHANGED <<offered, policy>>
             /\ pc' \in {"idle", "dir", "separator", "name", "load"} \/ UNCHANGED pc
    BY <1>2 DEF Ordered, OldestFirst
  <1> QED
    BY <1>1, <1>2 DEF Next, vars, LoadSystemLibrary, GetSystemDirectory, AppendBackslash,
                     AppendName, LoadLibraryEx, Goto

\* The restrictions stay ordered.
LEMMA SpecOrdered == Spec => []Ordered
  <1>1. Init => Ordered
    BY DEF Init, Ordered, OldestFirst
  <1> QED BY <1>1, OrderKept, LoaderTypes, PTL DEF Spec

\* All the loader promises, for every MAX_PATH, directory, name and system.
THEOREM LoaderIsRight == Spec => []LoaderRight
  <1>1. LoaderInv /\ Ordered => LoaderRight
    BY DEF LoaderInv, Ordered, LoaderRight
  <1> QED BY <1>1, SpecLoaderInv, SpecOrdered, PTL
-----------------------------------------------------------------------------
(* TrimWhiteSpace.  Each loop has its invariant: what lies before start,   *)
(* and what lies from end on, are spaces.                                  *)

GivenLength == Length(given)
LedBySpaces == \A j \in 0 .. start - 1 : given[j] \in Spaces
FollowedBySpaces(n) == \A j \in n .. GivenLength - 1 : given[j] \in Spaces

\* The block is as it was given until the function returns.
Unchanged == Terminated(given) /\ (phase # "done" => str = given)

\* The loop from the left, the loop from the right, and what they leave.
Forward == /\ (phase = "begin" => start = 0 /\ count = 0)
           /\ (phase = "forward" => count = 0 /\ start <= GivenLength /\ LedBySpaces)
Backward ==
    phase = "backward" =>
        /\ start < end /\ end <= GivenLength /\ given[start] \notin Spaces
        /\ LedBySpaces /\ FollowedBySpaces(end)
Found ==
    phase = "cut" =>
        /\ start <= end /\ end < GivenLength
        /\ given[start] \notin Spaces /\ given[end] \notin Spaces
        /\ LedBySpaces /\ FollowedBySpaces(end + 1)

TrimInv == TrimTypeOK /\ Unchanged /\ Forward /\ Backward /\ Found /\ ReturnsTrimmed

-----------------------------------------------------------------------------
\* The length of a string is the index of its first terminator.
LEMMA LengthEnds ==
  ASSUME NEW s, Terminated(s)
  PROVE  Length(s) \in Indices /\ EndsAt(s, Length(s))
BY DEF Terminated, Length

\* Before any step no loop has run.
LEMMA InitTrimInv == TrimInit => TrimInv
<1> SUFFICES ASSUME TrimInit PROVE TrimInv
  OBVIOUS
<1>1. TrimTypeOK
  BY TextAssumption DEF TrimInit, TrimTypeOK, Indices
<1>2. phase = "begin" /\ Unchanged /\ start = 0 /\ count = 0
  BY DEF TrimInit, Unchanged
<1> QED
  BY <1>1, <1>2 DEF TrimInv, Forward, Backward, Found, ReturnsTrimmed

\* A block whose first character is the terminator has length 0.
LEMMA EmptyLength ==
  ASSUME Terminated(given), given[0] = Nul
  PROVE  GivenLength = 0
<1>1. GivenLength \in Indices /\ EndsAt(given, GivenLength)
  BY LengthEnds DEF GivenLength
<1>2. CASE GivenLength > 0
  <2>1. 0 \in 0 .. GivenLength - 1
    BY <1>1, <1>2, TextAssumption DEF Indices
  <2> QED BY <1>1, <2>1 DEF EndsAt
<1> QED
  BY <1>1, <1>2, TextAssumption DEF Indices

\* The empty string.
LEMMA BeginKeeps ==
  ASSUME TrimInv, Begin
  PROVE  TrimInv'
<1>1. /\ TrimTypeOK /\ Terminated(given) /\ str = given /\ start = 0 /\ count = 0
      /\ UNCHANGED <<given, str, start, end, count>>
  BY DEF TrimInv, Unchanged, Forward, Begin
<1>2. TrimTypeOK' /\ Unchanged'
  BY <1>1 DEF TrimTypeOK, Unchanged, Begin, Continue
<1>3. GivenLength \in Indices /\ EndsAt(given, GivenLength) /\ GivenLength' = GivenLength
  BY <1>1, LengthEnds DEF GivenLength
<1>4. CASE str[0] = Nul
  <2>1. phase' = "done" /\ GivenLength = 0
    BY <1>1, <1>4, EmptyLength DEF Begin, Continue
  <2>2. ReturnsTrimmed'
    <3>1. IsTrim(given, 0, 0) /\ 0 \in 0 .. Length(given)
      BY <2>1 DEF IsTrim, GivenLength
    <3> QED BY <1>1, <1>4, <3>1 DEF ReturnsTrimmed
  <2> QED BY <1>2, <2>1, <2>2 DEF TrimInv, Forward, Backward, Found
<1>5. CASE str[0] # Nul
  <2>1. phase' = "forward"
    BY <1>5 DEF Begin, Continue
  <2>2. Forward'
    BY <1>1, <1>3, <2>1 DEF Forward, LedBySpaces, Indices
  <2> QED BY <1>2, <2>1, <2>2 DEF TrimInv, Backward, Found, ReturnsTrimmed
<1> QED BY <1>4, <1>5

\* One more leading space.
LEMMA SkipLeadingKeeps ==
  ASSUME TrimInv, SkipLeading
  PROVE  TrimInv'
<1>1. /\ TrimTypeOK /\ Terminated(given) /\ str = given /\ phase = "forward" /\ count = 0
      /\ start <= GivenLength /\ LedBySpaces /\ given[start] \in Spaces /\ start' = start + 1
      /\ UNCHANGED <<phase, given, str, end, count>>
  BY DEF TrimInv, Unchanged, Forward, SkipLeading
<1>2. GivenLength \in Indices /\ EndsAt(given, GivenLength) /\ GivenLength' = GivenLength
  BY <1>1, LengthEnds DEF GivenLength
<1>3. start # GivenLength
  BY <1>1, <1>2, TextAssumption DEF EndsAt
<1>4. start' <= GivenLength /\ start' \in Indices
  BY <1>1, <1>2, <1>3, TextAssumption DEF TrimTypeOK, Indices
<1>5. LedBySpaces'
  <2> SUFFICES ASSUME NEW j \in 0 .. start PROVE given[j] \in Spaces
    BY <1>1 DEF LedBySpaces, TrimTypeOK, Indices
  <2>1. j = start \/ j \in 0 .. start - 1
    BY <1>1 DEF TrimTypeOK, Indices
  <2> QED BY <1>1, <2>1 DEF LedBySpaces
<1>6. TrimTypeOK' /\ Unchanged'
  BY <1>1, <1>4 DEF TrimTypeOK, Unchanged
<1> QED
  BY <1>1, <1>2, <1>4, <1>5, <1>6 DEF TrimInv, Forward, Backward, Found, ReturnsTrimmed

\* Nothing but spaces.
LEMMA AllSpacesKeeps ==
  ASSUME TrimInv, AllSpaces
  PROVE  TrimInv'
<1>1. /\ TrimTypeOK /\ Terminated(given) /\ str = given /\ count = 0
      /\ start <= GivenLength /\ LedBySpaces /\ given[start] = Nul /\ phase' = "done"
      /\ str' = [str EXCEPT ![0] = Nul] /\ UNCHANGED <<given, start, end, count>>
  BY DEF TrimInv, Unchanged, Forward, AllSpaces, Continue
<1>2. GivenLength \in Indices /\ EndsAt(given, GivenLength) /\ GivenLength' = GivenLength
  BY <1>1, LengthEnds DEF GivenLength
<1>3. start = GivenLength
  <2>1. start \notin 0 .. GivenLength - 1
    BY <1>1, <1>2 DEF EndsAt
  <2> QED BY <1>1, <1>2, <2>1 DEF TrimTypeOK, Indices
<1>4. 0 \in Indices /\ str'[0] = Nul /\ str' \in Blocks
  BY <1>1, TextAssumption DEF TrimTypeOK, Indices, Blocks
<1>5. TrimTypeOK' /\ Unchanged'
  BY <1>1, <1>4 DEF TrimTypeOK, Unchanged
<1>6. ReturnsTrimmed'
  <2>1. IsTrim(given, GivenLength, GivenLength) /\ GivenLength \in 0 .. Length(given)
    BY <1>1, <1>2, <1>3 DEF IsTrim, LedBySpaces, GivenLength, Indices
  <2> QED BY <1>1, <1>2, <1>4, <2>1 DEF ReturnsTrimmed, Indices
<1> QED BY <1>1, <1>5, <1>6 DEF TrimInv, Forward, Backward, Found

\* The first character that stays.
LEMMA FindEndKeeps ==
  ASSUME TrimInv, FindEnd
  PROVE  TrimInv'
<1>1. /\ TrimTypeOK /\ Terminated(given) /\ str = given /\ start <= GivenLength /\ LedBySpaces
      /\ given[start] \notin Spaces /\ given[start] # Nul /\ phase' = "backward"
      /\ end' = GivenLength /\ UNCHANGED <<given, str, start, count>>
  BY DEF TrimInv, Unchanged, Forward, FindEnd, Continue, GivenLength
<1>2. GivenLength \in Indices /\ EndsAt(given, GivenLength) /\ GivenLength' = GivenLength
  BY <1>1, LengthEnds DEF GivenLength
<1>3. start < GivenLength
  BY <1>1, <1>2 DEF EndsAt, TrimTypeOK, Indices
<1>4. TrimTypeOK' /\ Unchanged'
  BY <1>1, <1>2 DEF TrimTypeOK, Unchanged, Indices
<1>5. Backward'
  BY <1>1, <1>2, <1>3 DEF Backward, LedBySpaces, FollowedBySpaces, Indices
<1> QED BY <1>1, <1>4, <1>5 DEF TrimInv, Forward, Found, ReturnsTrimmed

\* One more trailing space, or the last character that stays.
LEMMA SkipTrailingKeeps ==
  ASSUME TrimInv, SkipTrailing
  PROVE  TrimInv'
<1>1. /\ TrimTypeOK /\ Terminated(given) /\ str = given /\ start < end /\ end <= GivenLength
      /\ given[start] \notin Spaces /\ LedBySpaces /\ FollowedBySpaces(end)
      /\ end' = end - 1 /\ UNCHANGED <<given, str, start, count>>
  BY DEF TrimInv, Unchanged, Backward, SkipTrailing
<1>2. GivenLength \in Indices /\ EndsAt(given, GivenLength) /\ GivenLength' = GivenLength
  BY <1>1, LengthEnds DEF GivenLength
<1>3. start \in Nat /\ end \in Int /\ GivenLength \in Nat /\ start <= end' /\ end' < GivenLength
  BY <1>1, <1>2 DEF TrimTypeOK, Indices
<1>4. CASE end' > start /\ str[end'] \in Spaces
  <2>1. phase' = "backward"
    BY <1>4 DEF SkipTrailing, Continue
  <2>2. TrimTypeOK' /\ Unchanged'
    BY <1>1, <1>3, <2>1 DEF TrimTypeOK, Unchanged
  <2>3. FollowedBySpaces(end')
    <3> SUFFICES ASSUME NEW j \in end' .. GivenLength - 1 PROVE given[j] \in Spaces
      BY DEF FollowedBySpaces
    <3>1. j = end' \/ j \in end .. GivenLength - 1
      BY <1>1, <1>3
    <3> QED BY <1>1, <1>4, <3>1 DEF FollowedBySpaces
  <2>4. Backward'
    BY <1>1, <1>2, <1>3, <1>4, <2>3 DEF Backward, LedBySpaces, FollowedBySpaces
  <2> QED BY <2>1, <2>2, <2>4 DEF TrimInv, Forward, Found, ReturnsTrimmed
<1>5. CASE ~(end' > start /\ str[end'] \in Spaces)
  <2>1. phase' = "cut"
    BY <1>5 DEF SkipTrailing, Continue
  <2>2. TrimTypeOK' /\ Unchanged'
    BY <1>1, <1>3, <2>1 DEF TrimTypeOK, Unchanged
  <2>3. given[end'] \notin Spaces
    <3>1. CASE end' = start
      BY <1>1, <3>1
    <3>2. CASE end' # start
      BY <1>1, <1>3, <1>5, <3>2
    <3> QED BY <3>1, <3>2
  <2>4. end' + 1 = end
    BY <1>1, <1>3
  <2>5. Found'
    BY <1>1, <1>2, <1>3, <2>3, <2>4 DEF Found, LedBySpaces, FollowedBySpaces
  <2> QED BY <2>1, <2>2, <2>5 DEF TrimInv, Forward, Backward, ReturnsTrimmed
<1> QED BY <1>4, <1>5

\* The move to the front.
LEMMA CutKeeps ==
  ASSUME TrimInv, Cut
  PROVE  TrimInv'
<1>1. /\ TrimTypeOK /\ Terminated(given) /\ str = given /\ start <= end /\ end < GivenLength
      /\ given[start] \notin Spaces /\ given[end] \notin Spaces
      /\ LedBySpaces /\ FollowedBySpaces(end + 1)
      /\ phase' = "done" /\ end' = end + 1 /\ count' = end' - start
      /\ UNCHANGED <<given, start>>
  BY DEF TrimInv, Unchanged, Found, Cut, Continue
<1>2. GivenLength \in Indices /\ EndsAt(given, GivenLength)
  BY <1>1, LengthEnds DEF GivenLength
<1>3. /\ start \in Nat /\ end \in Nat /\ GivenLength \in Nat /\ GivenLength <= Capacity
      /\ count' \in Nat /\ count' = end + 1 - start /\ start + count' <= GivenLength
  BY <1>1, <1>2, TextAssumption DEF TrimTypeOK, Indices
<1>4. str' = [j \in Indices |->
                IF j < count' THEN given[start + j] ELSE IF j = count' THEN Nul ELSE given[j]]
  BY <1>1 DEF Cut
<1>5. str' \in Blocks
  <2>1. ASSUME NEW j \in Indices, j < count' PROVE start + j \in Indices
    BY <2>1, <1>3, TextAssumption DEF Indices
  <2> QED BY <1>1, <1>4, <2>1 DEF TrimTypeOK, Blocks
<1>6. TrimTypeOK' /\ Unchanged'
  BY <1>1, <1>3, <1>5 DEF TrimTypeOK, Unchanged
<1>7. IsTrim(given, start, end')
  <2>1. \A j \in end' .. Length(given) - 1 : given[j] \in Spaces
    BY <1>1 DEF FollowedBySpaces, GivenLength
  <2>2. given[end' - 1] \notin Spaces
    <3>1. end' - 1 = end
      BY <1>1, <1>3
    <3> QED BY <1>1, <3>1
  <2>3. \A j \in 0 .. start - 1 : given[j] \in Spaces
    BY <1>1 DEF LedBySpaces
  <2> QED BY <1>1, <2>1, <2>2, <2>3 DEF IsTrim
<1>8. str'[count'] = Nul
  <2>1. count' \in Indices /\ ~(count' < count')
    BY <1>3, TextAssumption DEF Indices
  <2> QED BY <1>4, <2>1
<1>9. ASSUME NEW j \in 0 .. count' - 1 PROVE str'[j] = given[start + j]
  <2>1. j \in Indices /\ j < count'
    BY <1>3, TextAssumption DEF Indices
  <2> QED BY <1>4, <2>1
<1>10. ReturnsTrimmed'
  <2>1. start \in 0 .. Length(given) /\ end' \in 0 .. Length(given) /\ start <= end'
    BY <1>1, <1>3 DEF GivenLength
  <2> QED BY <1>1, <1>3, <1>7, <1>8, <1>9, <2>1 DEF ReturnsTrimmed
<1> QED BY <1>1, <1>6, <1>10 DEF TrimInv, Forward, Backward, Found

\* The loop invariants and what they lead to hold throughout.
LEMMA NextTrimInv == TrimInv /\ [TrimNext]_trimVars => TrimInv'
<1> SUFFICES ASSUME TrimInv, [TrimNext]_trimVars PROVE TrimInv'
  OBVIOUS
<1>1. CASE UNCHANGED trimVars
  BY <1>1 DEF trimVars, TrimInv, TrimTypeOK, Unchanged, Forward, Backward, Found,
       ReturnsTrimmed,
              GivenLength, LedBySpaces, FollowedBySpaces
<1> QED
  BY <1>1, BeginKeeps, SkipLeadingKeeps, AllSpacesKeeps, FindEndKeeps,
     SkipTrailingKeeps, CutKeeps DEF TrimNext

\* The loop invariants hold in every reachable state.
LEMMA SpecTrimInv == TrimSpec => []TrimInv
BY InitTrimInv, NextTrimInv, PTL DEF TrimSpec

\* They keep both pointers within the string.
LEMMA TrimInvStays == TrimInv => StaysInString
<1> SUFFICES ASSUME TrimInv PROVE StaysInString
  OBVIOUS
<1>1. GivenLength \in Indices
  BY LengthEnds DEF TrimInv, Unchanged, GivenLength
<1>2. start \in Int /\ end \in Int /\ GivenLength \in Int
  BY <1>1 DEF TrimInv, TrimTypeOK, Indices
<1> QED
  BY <1>2 DEF TrimInv, Forward, Backward, Found, StaysInString, GivenLength

\* The variables of TrimWhiteSpace keep their types in every block.
THEOREM TrimTypes == TrimSpec => []TrimTypeOK
BY SpecTrimInv, PTL DEF TrimInv

\* Its loops look at the string given and nothing behind it.
THEOREM TrimStaysInString == TrimSpec => []StaysInString
BY SpecTrimInv, TrimInvStays, PTL

\* It returns the string without the spaces at its ends, whatever the string.
THEOREM TrimIsCorrect == TrimSpec => []ReturnsTrimmed
BY SpecTrimInv, PTL DEF TrimInv

\* All TrimWhiteSpace promises, for every alphabet and every block.
THEOREM TrimWhiteSpaceIsRight == TrimSpec => []TrimRight
<1>1. TrimInv /\ StaysInString => TrimRight
  BY DEF TrimInv, TrimRight
<1> QED BY <1>1, SpecTrimInv, TrimStaysInString, PTL
-----------------------------------------------------------------------------
(* The key derivation.  Before each call it is known what is open, what of *)
(* the key has been copied, and which HMACs of the next block are done.    *)

\* A piece copied to the caller's buffer.
PieceOf == [at : Nat, n : Nat, xor : SUBSET (Nat \X Nat)]

\* What is in the buffer and what is still missing make up the key asked for;
\* the pieces lie side by side and are the blocks of the definition.
Pieces ==
    /\ keyLength + Derive!Offset = args.keyLength
    /\ key # <<>> => key[1].at = 0
    /\ \A b \in 1 .. Len(key) :
         /\ key[b].xor = Derive!T(b)
         /\ key[b].at + key[b].n <= args.keyLength
         /\ b < Len(key) => key[b].n = HashSize /\ key[b + 1].at = key[b].at + HashSize
         /\ b = Len(key) /\ keyLength > 0 => key[b].n = HashSize

\* In the loops the block after the last one copied is computed: all its HMACs
\* up to the i-th are in okey.
InBlock ==
    /\ keyPc \in {"st", "hKey", "hHash", "first", "salt", "next", "round"} =>
         keyLength > 0 /\ args.rounds > 0
    /\ keyPc \in {"args", "st", "hKey", "hHash"} => key = <<>>
    /\ keyPc \in {"first", "salt", "next", "round"} => keyCount = Len(key) + 1
    /\ keyPc \in {"next", "round"} =>
         /\ i \in 1 .. args.rounds
         /\ obuf = <<keyCount, i>> /\ okey = {<<keyCount, j>> : j \in 1 .. i}
    /\ keyPc = "round" => i < args.rounds
    /\ result => keyLength = 0 /\ key # <<>> /\ keyPc \in {"cleanup", "done"}
    /\ keyPc \in {"args", "done"} => obuf = Derive!Cleared /\ okey = {}

\* Each variable holds at most one handle, and before the call that sets it none.
Handles ==
    /\ \A h \in Derive!Handles : keyOpen[h] <= 1
    /\ keyPc \in {"args", "st", "hKey", "done"} => keyOpen = [h \in Derive!Handles |-> 0]
    /\ keyPc = "hHash" => keyOpen["hHash"] = 0
    /\ keyPc \in {"hHash", "first", "next"} => keyOpen["h1"] = 0
    /\ keyPc \in {"salt", "round"} => keyOpen["h1"] = 1

DeriveInv == Derive!TypeOK /\ Pieces /\ InBlock /\ Handles

\* Before the arguments are looked at nothing is open and nothing computed.
LEMMA InitDeriveInv == Derive!Init => DeriveInv
  <1> SUFFICES ASSUME Derive!Init PROVE DeriveInv
    OBVIOUS
  <1> USE DeriveAssumption
  <1>1. args.keyLength \in Nat
    BY DEF Derive!Init
  <1>2. Derive!TypeOK
    <2>1. key \in Seq([at : Nat, n : Nat, xor : SUBSET (Nat \X Nat)])
      BY DEF Derive!Init
    <2>2. keyOpen \in [Derive!Handles -> Nat] /\ obuf \in Nat \X Nat /\ okey \in SUBSET (Nat \X Nat)
      BY DEF Derive!Init, Derive!Cleared
    <2> QED BY <1>1, <2>1, <2>2 DEF Derive!Init, Derive!TypeOK
  <1>3. Pieces
    BY <1>1 DEF Derive!Init, Pieces, Derive!Offset
  <1>4. InBlock
    BY DEF Derive!Init, InBlock
  <1>5. Handles
    BY DEF Derive!Init, Handles, Derive!Handles
  <1> QED BY <1>2, <1>3, <1>4, <1>5 DEF DeriveInv

\* A call that copies nothing leaves the pieces right.
LEMMA SamePieces ==
  ASSUME Pieces, UNCHANGED <<args, key, keyLength>>
  PROVE  Pieces'
BY DEF Pieces, Derive!Offset, Derive!T

\* A call that fails leads to the cleanup and changes nothing else.
LEMMA FailKeeps ==
  ASSUME DeriveInv, Derive!Fail, keyPc \in {"st", "hKey", "hHash", "first", "next", "salt", "round"}
  PROVE  DeriveInv'
  <1> USE DeriveAssumption
  <1>1. Derive!TypeOK'
    BY DEF Derive!Fail, DeriveInv, Derive!TypeOK
  <1>2. Pieces'
    BY SamePieces DEF Derive!Fail, DeriveInv
  <1>3. InBlock'
    BY DEF Derive!Fail, DeriveInv, InBlock
  <1>4. Handles'
    BY DEF Derive!Fail, DeriveInv, Handles
  <1> QED BY <1>1, <1>2, <1>3, <1>4 DEF DeriveInv

\* The calls before the first block open the state, the key and the keyed hash.
LEMMA BeforeKeeps ==
  ASSUME DeriveInv,
         Derive!CheckArguments \/ Derive!AllocState \/ Derive!CryptImportHmacSha256Key
           \/ Derive!CreateHmac
  PROVE  DeriveInv'
  <1> USE DeriveAssumption
  <1>t. Derive!TypeOK /\ args.keyLength \in Nat /\ args.rounds \in Nat
    BY DEF DeriveInv, Derive!TypeOK
  <1>1. CASE Derive!CheckArguments
    <2>1. Derive!TypeOK'
      BY <1>t, <1>1 DEF Derive!TypeOK, Derive!CheckArguments, Derive!CNG
    <2>2. Pieces'
      BY <1>1, SamePieces DEF Derive!CheckArguments, DeriveInv
    <2>3. keyLength = args.keyLength /\ key = <<>> /\ ~result
          /\ obuf = Derive!Cleared /\ okey = {} /\ keyLength \in Nat
      BY <1>1, <1>t DEF Derive!CheckArguments, DeriveInv, InBlock, Pieces, Derive!Offset,
           Derive!TypeOK
    <2>4. InBlock'
      <3>1. UNCHANGED <<args, keyLength, key, result, obuf, okey>>
            /\ keyPc' \in {"done", "st", "hKey"}
            /\ (keyPc' # "done" => args.keyLength # 0 /\ args.rounds # 0)
        BY <1>1 DEF Derive!CheckArguments
      <3> QED BY <1>t, <2>3, <3>1 DEF InBlock, Derive!Cleared
    <2>5. Handles'
      BY <1>1, <1>t DEF Derive!CheckArguments, DeriveInv, Handles, Derive!CNG
    <2> QED BY <2>1, <2>2, <2>4, <2>5 DEF DeriveInv
  <1>2. CASE ~Derive!CheckArguments /\ ~Derive!Fail
    <2>0. UNCHANGED <<args, key, keyLength, i, obuf, okey, result>>
      BY <1>2 DEF Derive!AllocState, Derive!CryptImportHmacSha256Key, Derive!CreateHmac
    <2>5. PICK h \in {"st", "hKey", "hHash"} :
             /\ keyOpen' = [keyOpen EXCEPT ![h] = @ + 1]
             /\ keyPc = h /\ keyPc' = IF h = "hHash" THEN "first" ELSE "hHash"
             /\ IF h = "hHash" THEN keyCount' = 1 ELSE keyCount' = keyCount
      BY <1>2 DEF Derive!AllocState, Derive!CryptImportHmacSha256Key, Derive!CreateHmac,
           Derive!Opened
    <2>6. h \in Derive!Handles /\ keyOpen \in [Derive!Handles -> Nat]
      BY <1>t DEF Derive!Handles, Derive!TypeOK
    <2>1. Derive!TypeOK'
      <3>1. keyOpen' \in [Derive!Handles -> Nat]
        BY <2>5, <2>6
      <3> QED BY <1>t, <2>0, <2>5, <3>1 DEF Derive!TypeOK
    <2>2. Pieces'
      BY <2>0, SamePieces DEF DeriveInv
    <2>3. InBlock'
      BY <2>0, <2>5 DEF DeriveInv, InBlock
    <2>4. Handles'
      <3>1. \A k \in Derive!Handles : keyOpen'[k] = IF k = h THEN keyOpen[k] + 1 ELSE keyOpen[k]
        BY <2>5, <2>6
      <3>2. keyOpen[h] = 0
        BY <2>5, <2>6 DEF DeriveInv, Handles
      <3>3. "h1" \in Derive!Handles /\ "hHash" \in Derive!Handles
        BY DEF Derive!Handles
      <3>4. keyPc \in {"st", "hKey"} => keyOpen["h1"] = 0 /\ keyOpen["hHash"] = 0
        BY <3>3 DEF DeriveInv, Handles
      <3>5. keyPc = "hHash" => keyOpen["h1"] = 0
        BY DEF DeriveInv, Handles
      <3> QED BY <2>5, <2>6, <3>1, <3>2, <3>3, <3>4, <3>5 DEF DeriveInv, Handles
    <2> QED BY <2>1, <2>2, <2>3, <2>4 DEF DeriveInv
  <1>3. CASE Derive!Fail /\ keyPc \in {"st", "hKey", "hHash"}
    BY <1>3, FailKeeps
  <1>4. Derive!CheckArguments \/ keyPc \in {"st", "hKey", "hHash"}
    BY DEF Derive!AllocState, Derive!CryptImportHmacSha256Key, Derive!CreateHmac
  <1> QED BY <1>1, <1>2, <1>3, <1>4

\* A clone is made only when there is none.
LEMMA CloneKeeps ==
  ASSUME DeriveInv,
         Derive!CloneHash("first", "salt") \/ Derive!AnotherRound
  PROVE  DeriveInv'
  <1> USE DeriveAssumption
  <1>t. Derive!TypeOK /\ args.keyLength \in Nat /\ args.rounds \in Nat
    BY DEF DeriveInv, Derive!TypeOK
  <1>1. CASE Derive!Fail
    <2>1. keyPc \in {"first", "next"}
      BY DEF Derive!AnotherRound, Derive!CloneHash
    <2> QED BY <1>1, <2>1, FailKeeps
  <1>2. CASE ~Derive!Fail
    <2>0. UNCHANGED <<args, key, keyLength, keyCount, i, obuf, okey, result>>
      BY <1>2 DEF Derive!AnotherRound, Derive!CloneHash
    <2>5. /\ keyOpen' = [keyOpen EXCEPT !["h1"] = @ + 1]
          /\ \/ keyPc = "first" /\ keyPc' = "salt"
             \/ keyPc = "next" /\ keyPc' = "round" /\ i < args.rounds
      BY <1>2 DEF Derive!AnotherRound, Derive!CloneHash, Derive!Opened, Derive!MoreRounds
    <2>6. "h1" \in Derive!Handles /\ keyOpen \in [Derive!Handles -> Nat]
      BY <1>t DEF Derive!Handles, Derive!TypeOK
    <2>1. Derive!TypeOK'
      <3>1. keyOpen' \in [Derive!Handles -> Nat]
        BY <2>5, <2>6
      <3> QED BY <1>t, <2>0, <2>5, <3>1 DEF Derive!TypeOK
    <2>2. Pieces'
      BY <2>0, SamePieces DEF DeriveInv
    <2>3. InBlock'
      BY <2>0, <2>5 DEF DeriveInv, InBlock
    <2>4. Handles'
      <3>1. \A k \in Derive!Handles : keyOpen'[k] = IF k = "h1" THEN keyOpen[k] + 1 ELSE keyOpen[k]
        BY <2>5, <2>6
      <3>2. keyOpen["h1"] = 0
        BY <2>5, <2>6 DEF DeriveInv, Handles
      <3> QED BY <2>5, <2>6, <3>1, <3>2 DEF DeriveInv, Handles
    <2> QED BY <2>1, <2>2, <2>3, <2>4 DEF DeriveInv
  <1> QED BY <1>1, <1>2

\* Each HMAC adds its symbol to okey, where it was not yet, and ends its clone.
LEMMA HmacKeeps ==
  ASSUME DeriveInv, Derive!FirstHmac \/ Derive!NextHmac
  PROVE  DeriveInv'
  <1> USE DeriveAssumption
  <1>t. Derive!TypeOK /\ args.keyLength \in Nat /\ args.rounds \in Nat
    BY DEF DeriveInv, Derive!TypeOK
  <1>p. keyPc \in {"salt", "round"}
    BY DEF Derive!FirstHmac, Derive!NextHmac
  <1>1. CASE Derive!Fail
    BY <1>1, <1>p, FailKeeps
  <1>2. CASE ~Derive!Fail
    <2>0. UNCHANGED <<args, key, keyLength, keyCount, result>> /\ keyPc' = "next"
          /\ keyOpen' = [keyOpen EXCEPT !["h1"] = @ - 1]
      BY <1>2 DEF Derive!FirstHmac, Derive!NextHmac, Derive!Destroyed
    <2>5. /\ i' \in 1 .. args.rounds
          /\ obuf' = <<keyCount, i'>> /\ okey' = {<<keyCount, j>> : j \in 1 .. i'}
      <3>1. CASE Derive!FirstHmac
        <4>1. i' = 1 /\ obuf' = <<keyCount, 1>> /\ okey' = {<<keyCount, 1>>}
          BY <1>2, <3>1 DEF Derive!FirstHmac
        <4>2. args.rounds > 0
          BY <1>p DEF DeriveInv, InBlock
        <4> QED BY <1>t, <4>1, <4>2
      <3>2. CASE Derive!NextHmac
        <4>1. /\ i' = i + 1 /\ obuf' = <<obuf[1], obuf[2] + 1>>
              /\ okey' = Derive!Xor(okey, <<obuf[1], obuf[2] + 1>>) /\ keyPc = "round"
          BY <1>2, <3>2 DEF Derive!NextHmac
        <4>2. i \in 1 .. args.rounds /\ i < args.rounds /\ obuf = <<keyCount, i>>
              /\ okey = {<<keyCount, j>> : j \in 1 .. i}
          BY <4>1 DEF DeriveInv, InBlock
        <4>3. obuf' = <<keyCount, i + 1>>
          BY <4>1, <4>2
        <4>4. <<keyCount, i + 1>> \notin okey
          BY <4>2, <1>t
        <4>5. okey' = okey \cup {<<keyCount, i + 1>>}
          BY <4>1, <4>2, <4>4 DEF Derive!Xor
        <4>6. okey' = {<<keyCount, j>> : j \in 1 .. i + 1}
          BY <4>2, <4>5, <1>t
        <4> QED BY <1>t, <4>1, <4>2, <4>3, <4>6
      <3> QED BY <3>1, <3>2
    <2>6. "h1" \in Derive!Handles /\ keyOpen \in [Derive!Handles -> Nat] /\ keyOpen["h1"] = 1
      BY <1>t, <1>p DEF Derive!Handles, Derive!TypeOK, DeriveInv, Handles
    <2>1. Derive!TypeOK'
      <3>1. keyOpen' \in [Derive!Handles -> Nat]
        BY <2>0, <2>6
      <3>2. keyCount \in Nat /\ i' \in Nat
        BY <1>t, <2>5 DEF Derive!TypeOK
      <3>3. obuf' \in Nat \X Nat /\ okey' \in SUBSET (Nat \X Nat)
        BY <3>2, <2>5
      <3> QED BY <1>t, <2>0, <3>1, <3>2, <3>3 DEF Derive!TypeOK
    <2>2. Pieces'
      BY <2>0, SamePieces DEF DeriveInv
    <2>3. InBlock'
      BY <1>p, <2>0, <2>5 DEF DeriveInv, InBlock
    <2>4. Handles'
      <3>1. \A k \in Derive!Handles : keyOpen'[k] = IF k = "h1" THEN 0 ELSE keyOpen[k]
        BY <2>0, <2>6
      <3> QED BY <2>0, <2>6, <3>1 DEF DeriveInv, Handles
    <2> QED BY <2>1, <2>2, <2>3, <2>4 DEF DeriveInv
  <1> QED BY <1>1, <1>2

\* A block is copied behind the others when all its HMACs are in okey.
LEMMA CopyKeeps ==
  ASSUME DeriveInv, Derive!CopyBlock
  PROVE  DeriveInv'
  <1> USE DeriveAssumption
  <1>t. Derive!TypeOK /\ args.keyLength \in Nat /\ args.rounds \in Nat /\ keyLength \in Nat
    BY DEF DeriveInv, Derive!TypeOK
  <1> DEFINE r == Derive!Smaller(keyLength, HashSize)
             piece == [at |-> Derive!Offset, n |-> r, xor |-> okey]
  <1>1. /\ keyPc = "next" /\ ~(i < args.rounds)
        /\ key' = Append(key, piece) /\ keyLength' = keyLength - r
        /\ keyPc' = IF keyLength - r = 0 THEN "cleanup" ELSE "first"
        /\ UNCHANGED <<args, keyOpen, i, obuf, okey>>
    BY DEF Derive!CopyBlock, Derive!MoreRounds
  <1>2. /\ keyLength > 0 /\ r \in Nat /\ 0 < r /\ r <= keyLength /\ r <= HashSize
        /\ keyLength - r > 0 => r = HashSize
    BY <1>t, <1>1 DEF Derive!Smaller, DeriveInv, InBlock
  <1>3. i = args.rounds /\ okey = Derive!T(Len(key) + 1) /\ keyCount = Len(key) + 1
    BY <1>t, <1>1 DEF DeriveInv, InBlock, Derive!T
  <1>4. key \in Seq(PieceOf) /\ okey \in SUBSET (Nat \X Nat)
    BY <1>t DEF Derive!TypeOK, PieceOf
  <1>5. Derive!Offset \in Nat /\ Derive!Offset + keyLength = args.keyLength
        /\ (key = <<>> => Derive!Offset = 0)
        /\ (key # <<>> => Derive!Offset = key[Len(key)].at + key[Len(key)].n)
    <2>1. key # <<>> => key[Len(key)] \in PieceOf
      BY <1>4
    <2>2. key # <<>> => key[Len(key)].at \in Nat /\ key[Len(key)].n \in Nat
      BY <2>1 DEF PieceOf
    <2>3. Derive!Offset \in Nat
      BY <2>2 DEF Derive!Offset
    <2> QED BY <2>3, <1>t DEF DeriveInv, Pieces, Derive!Offset
  <1>6. piece \in PieceOf
    BY <1>2, <1>4, <1>5 DEF PieceOf
  <1>7. /\ key' \in Seq(PieceOf) /\ Len(key') = Len(key) + 1 /\ key' # <<>>
        /\ key'[Len(key) + 1] = piece
        /\ \A b \in 1 .. Len(key) : key'[b] = key[b] /\ key[b] \in PieceOf
    BY <1>1, <1>4, <1>6
  <1>8. piece.at = Derive!Offset /\ piece.n = r /\ piece.xor = okey
    OBVIOUS
  <1> HIDE DEF piece, r
  <1>9. Derive!TypeOK'
    <2>1. keyLength' \in Nat
      BY <1>1, <1>2, <1>t
    <2>2. keyCount' \in Nat /\ result' \in BOOLEAN
      <3>1. keyCount \in Nat /\ result \in BOOLEAN
        BY <1>t DEF Derive!TypeOK
      <3>2. \/ result' = TRUE /\ keyCount' = keyCount
            \/ result' = result /\ keyCount' = keyCount + 1
        <4>1. CASE keyLength - r = 0
          BY <4>1 DEF Derive!CopyBlock, r
        <4>2. CASE keyLength - r # 0
          BY <4>2 DEF Derive!CopyBlock, r
        <4> QED BY <4>1, <4>2
      <3>3. keyCount' \in Nat
        BY <3>1, <3>2
      <3>4. result' \in BOOLEAN
        BY <3>1, <3>2, Zenon
      <3> QED BY <3>3, <3>4
    <2> QED BY <1>t, <1>1, <1>7, <2>1, <2>2 DEF Derive!TypeOK, PieceOf
  <1>10. Pieces'
    <2>1. Derive!Offset' = Derive!Offset + r
      BY <1>7, <1>8 DEF Derive!Offset
    <2>2. keyLength' + Derive!Offset' = args'.keyLength
      BY <2>1, <1>1, <1>2, <1>5, <1>t
    <2>3. key'[1].at = 0
      <3>1. CASE key = <<>>
        BY <3>1, <1>5, <1>7, <1>8
      <3>2. CASE key # <<>>
        BY <3>2, <1>4, <1>7 DEF DeriveInv, Pieces
      <3> QED BY <3>1, <3>2
    <2>4. ASSUME NEW b \in 1 .. Len(key')
          PROVE  /\ key'[b].xor = Derive!T(b)'
                 /\ key'[b].at + key'[b].n <= args'.keyLength
                 /\ b < Len(key') => key'[b].n = HashSize /\ key'[b + 1].at = key'[b].at + HashSize
                 /\ b = Len(key') /\ keyLength' > 0 => key'[b].n = HashSize
      <3>1. Derive!T(b)' = Derive!T(b)
        BY <1>1 DEF Derive!T
      <3>2. CASE b = Len(key')
        BY <3>1, <3>2, <1>1, <1>2, <1>3, <1>4, <1>5, <1>7, <1>8, <1>t
      <3>3. CASE b # Len(key')
        <4>1. b \in 1 .. Len(key) /\ key'[b] = key[b]
          BY <3>3, <1>4, <1>7
        <4>2. /\ key[b].xor = Derive!T(b) /\ key[b].at + key[b].n <= args.keyLength
              /\ b < Len(key) => key[b].n = HashSize /\ key[b + 1].at = key[b].at + HashSize
              /\ b = Len(key) => key[b].n = HashSize
          BY <4>1, <1>2 DEF DeriveInv, Pieces
        <4>3. b < Len(key) => key'[b + 1] = key[b + 1]
          BY <4>1, <1>4, <1>7
        <4>4. b = Len(key) => key'[b + 1].at = key[b].at + HashSize
          BY <4>1, <4>2, <1>4, <1>5, <1>7, <1>8
        <4> QED BY <3>1, <3>3, <4>1, <4>2, <4>3, <4>4, <1>1, <1>4, <1>7
      <3> QED BY <3>2, <3>3
    <2> QED BY <2>2, <2>3, <2>4 DEF Pieces
  <1>11. InBlock'
    <2>1. keyLength' = 0 => keyPc' = "cleanup" /\ result'
      BY <1>1 DEF Derive!CopyBlock, r
    <2>2. keyLength' # 0 => keyPc' = "first" /\ keyCount' = keyCount + 1 /\ ~result'
      BY <1>1 DEF Derive!CopyBlock, r, DeriveInv, InBlock
    <2>3. keyLength' \in Nat /\ args.rounds > 0
      BY <1>1, <1>2, <1>t DEF DeriveInv, InBlock
    <2> QED BY <2>1, <2>2, <2>3, <1>1, <1>3, <1>4, <1>7 DEF InBlock
  <1>12. Handles'
    BY <1>1 DEF DeriveInv, Handles
  <1> QED BY <1>9, <1>10, <1>11, <1>12 DEF DeriveInv

\* The cleanup destroys what is open, each handle once.
LEMMA CleanupKeeps ==
  ASSUME DeriveInv, Derive!Cleanup
  PROVE  DeriveInv'
  <1> USE DeriveAssumption
  <1>t. Derive!TypeOK
    BY DEF DeriveInv
  <1>0. /\ keyPc = "cleanup" /\ keyPc' = "done"
        /\ keyOpen' = [h \in Derive!Handles |-> IF keyOpen[h] > 0 THEN keyOpen[h] - 1 ELSE 0]
        /\ obuf' = Derive!Cleared /\ okey' = {}
        /\ UNCHANGED <<args, keyCount, i, keyLength, key, result>>
    BY DEF Derive!Cleanup
  <1>1. \A h \in Derive!Handles : keyOpen[h] \in Nat /\ keyOpen[h] <= 1
    BY <1>t DEF Derive!TypeOK, DeriveInv, Handles
  <1>2. keyOpen' = [h \in Derive!Handles |-> 0]
    BY <1>0, <1>1
  <1>3. Derive!TypeOK'
    BY <1>t, <1>0, <1>2 DEF Derive!TypeOK, Derive!Cleared
  <1>4. Pieces'
    BY <1>0, SamePieces DEF DeriveInv
  <1>5. InBlock'
    BY <1>0 DEF DeriveInv, InBlock
  <1>6. Handles'
    <2>1. \A h \in Derive!Handles : keyOpen'[h] = 0
      BY <1>2
    <2> QED BY <1>0, <1>2, <2>1 DEF Handles
  <1> QED BY <1>3, <1>4, <1>5, <1>6 DEF DeriveInv

\* No call of Pbkdf2Compute disturbs the invariant.
LEMMA NextDeriveInv == DeriveInv /\ [Derive!Next]_(Derive!vars) => DeriveInv'
  <1> SUFFICES ASSUME DeriveInv, [Derive!Next]_(Derive!vars) PROVE DeriveInv'
    OBVIOUS
  <1>1. CASE UNCHANGED Derive!vars
    BY <1>1 DEF Derive!vars, DeriveInv, Derive!TypeOK, Pieces, InBlock, Handles,
                Derive!Offset, Derive!T
  <1> QED
    BY <1>1, BeforeKeeps, CloneKeeps, HmacKeeps, CopyKeeps, CleanupKeeps DEF Derive!Next

\* The invariant is what the derivation promises, and more.
LEMMA DeriveInvRight == DeriveInv => DerivesRight
  <1> SUFFICES ASSUME DeriveInv PROVE DerivesRight
    OBVIOUS
  <1>t. Derive!TypeOK
    BY DEF DeriveInv
  <1>1. Derive!DerivesDefinition
    <2> SUFFICES ASSUME result PROVE Derive!DerivesDefinition
      BY DEF Derive!DerivesDefinition
    <2>1. keyLength = 0 /\ key # <<>>
      BY DEF DeriveInv, InBlock
    <2>2. Derive!Offset = args.keyLength
      <3>1. key \in Seq(PieceOf)
        BY <1>t DEF Derive!TypeOK, PieceOf
      <3>2. key[Len(key)] \in PieceOf
        BY <2>1, <3>1
      <3>3. Derive!Offset \in Nat
        BY <3>2, <2>1 DEF Derive!Offset, PieceOf
      <3> QED BY <2>1, <3>3 DEF DeriveInv, Pieces
    <2> QED BY <2>1, <2>2 DEF DeriveInv, Pieces, Derive!DerivesDefinition
  <1>2. Derive!NoOverrun
    BY DEF DeriveInv, Pieces, Derive!NoOverrun
  <1>3. Derive!NothingLeft
    BY DEF DeriveInv, InBlock, Handles, Derive!NothingLeft
  <1>4. Derive!OneClone
    BY DEF DeriveInv, Handles, Derive!OneClone, Derive!Handles
  <1> QED BY <1>t, <1>1, <1>2, <1>3, <1>4 DEF DerivesRight

\* Whichever call fails, TRUE comes with the key of the definition, for every
\* length, every number of rounds and every size of the hash.
THEOREM DerivationIsRight == Derive!Spec => []DerivesRight
  <1>1. Derive!Spec => []DeriveInv
    BY InitDeriveInv, NextDeriveInv, PTL DEF Derive!Spec
  <1> QED BY <1>1, DeriveInvRight, PTL
-----------------------------------------------------------------------------
(* The life of the process.  What is set up, which windows and fonts exist *)
(* and whether a quit message waits follows from the place reached in      *)
(* wWinMain and in the life of the main window.                            *)

\* What wWinMain sets up, what may be left beside it when the window is gone,
\* and the font that there is not.
Base == {"crypto", "ole", "appClass", "splitterClass"}
Left == Base \cup {"lostDrop"}
None == App!NONE

\* The places of MainWmSettingChange with the second font at hand, and those
\* where the loop has a window or waits for WM_QUIT.
Changing == {"setfont", "assign", "delete"}
InLoop == {"loop"} \cup Changing

\* The fonts that exist are the one in use, which the edit control draws with,
\* and the one that takes its place or is to go.
FontsRight ==
    /\ fonts = {font, other} \ {None}
    /\ other # None <=> appPc \in Changing
    /\ other # None => other # font
    /\ "edit" \in kids => editFont = IF appPc = "assign" THEN other ELSE font

\* Only a running window has a file, or one the loop has failed with; and then
\* its workspace is enabled.
FileRight ==
    /\ enabled <=> file # None
    /\ file # None => \/ appPc \in InLoop /\ created /\ ~quit
                      \/ appPc \in {"cleanup", "exited"} /\ "window" \in held

\* Nothing is left of the main window.
NoWindow == kids = {} /\ fonts = {} /\ font = None /\ editFont = None /\ ~created

\* The window is there, whole.
Up ==
    /\ created /\ ~quit /\ box = None /\ exitCode = -1 /\ font # None
    /\ Base \cup {"window", "info"} \subseteq held /\ "edit" \in kids
    /\ ("treeview" \in kids => treeBk = IF file # None THEN "default" ELSE scheme)

\* What is set up at each place of wWinMain and of the window's life.
SetUp ==
    appPc = "setup" =>
        /\ NoWindow /\ ~quit /\ box = None /\ exitCode = -1 /\ step <= 6 /\ held \subseteq Base
        /\ (step >= 2 => "crypto" \in held) /\ (step >= 4 => "ole" \in held)
        /\ (step >= 5 => "appClass" \in held) /\ (step >= 6 => "splitterClass" \in held)
Created ==
    appPc = "create" =>
        /\ Base \cup {"window"} \subseteq held /\ "drop" \notin held
        /\ ~created /\ ~quit /\ box = None /\ exitCode = -1
        /\ (step <= 3 <=> font = None) /\ (step > 0 => "info" \in held)
        /\ ("edit" \in kids <=> step > 10)
        /\ ("treeview" \in kids => treeBk = scheme)
Ending ==
    /\ appPc = "destroy" =>
        /\ Base \cup {"window"} \subseteq held /\ ~quit /\ box = None
        /\ ("drop" \in held => "edit" \in kids)
    /\ appPc = "ncdestroy" =>
        /\ Base \cup {"window"} \subseteq held /\ "drop" \notin held
        /\ ~quit /\ box = None /\ kids = {} /\ editFont = None
Looping ==
    appPc \in InLoop => \/ Up
                        \/ appPc = "loop" /\ NoWindow /\ quit /\ box = None /\ held \subseteq Left
Over ==
    /\ appPc = "failed" => NoWindow /\ ~quit /\ box = None /\ held \subseteq Left
    /\ appPc = "cleanup" => \/ Up
                            \/ NoWindow /\ (quit => box = None) /\ held \subseteq Left
    /\ appPc = "exited" =>
        /\ box = None /\ held \cap {"crypto", "ole"} = {}
        /\ \/ NoWindow /\ held \subseteq {"lostDrop"}
           \/ "window" \in held /\ exitCode = -1

\* Where the program is says what there is.
LifeInv ==
    App!TypeOK /\ FontsRight /\ FileRight /\ SetUp /\ Created /\ Ending /\ Looping /\ Over

\* What each step of wWinMain sets up.
LEMMA StartupSteps ==
  /\ Len(App!Startup) = 6
  /\ \A s \in 0 .. 5 :
       /\ App!Startup[s + 1].code \in {1, 2, 3}
       /\ App!Startup[s + 1].gives =
            (IF s = 1 THEN {"crypto"} ELSE IF s = 3 THEN {"ole"} ELSE IF s = 4 THEN {"appClass"}
             ELSE IF s = 5 THEN {"splitterClass"} ELSE {})
  <1> DEFINE S == App!Startup
  <1>1. /\ Len(S) = 6
        /\ S[1] = App!IsOsSupported /\ S[2] = App!CryptInit /\ S[3] = App!InitWindowsControls
        /\ S[4] = App!OleInitialize /\ S[5] = App!RegisterMainWindowClass
        /\ S[6] = App!RegisterSplitterClass
    BY DEF App!Startup
  <1> HIDE DEF S
  <1>2. ASSUME NEW s \in 0 .. 5
        PROVE  /\ S[s + 1].code \in {1, 2, 3}
               /\ S[s + 1].gives =
                    (IF s = 1 THEN {"crypto"} ELSE IF s = 3 THEN {"ole"} ELSE IF s = 4 THEN {"appClass"}
                     ELSE IF s = 5 THEN {"splitterClass"} ELSE {})
    <2>1. s \in {0, 1, 2, 3, 4, 5}
      OBVIOUS
    <2> QED BY <1>1, <2>1 DEF App!IsOsSupported, App!CryptInit, App!InitWindowsControls,
               App!OleInitialize, App!RegisterMainWindowClass, App!RegisterSplitterClass
  <1> QED BY <1>1, <1>2 DEF S

\* The first step makes the window info, the fourth the font, the eleventh the
\* edit control.
LEMMA CreationSteps ==
  /\ Len(App!Creation) = 12
  /\ \A s \in 0 .. 11 :
       /\ App!Creation[s + 1] \in {"info", "hAccel", "hAccelTreeView", "font", "use"} \cup App!Windows
       /\ App!Creation[s + 1] = "info" <=> s = 0
       /\ App!Creation[s + 1] = "font" <=> s = 3
       /\ App!Creation[s + 1] = "edit" <=> s = 10
  <1> DEFINE C == App!Creation
  <1>1. /\ Len(C) = 12
        /\ C[1] = "info" /\ C[2] = "hAccel" /\ C[3] = "hAccelTreeView" /\ C[4] = "font"
        /\ C[5] = "statusBar" /\ C[6] = "vsplitter" /\ C[7] = "treeview" /\ C[8] = "hsplitter"
        /\ C[9] = "listview" /\ C[10] = "use" /\ C[11] = "edit" /\ C[12] = "use"
    BY DEF App!Creation
  <1> HIDE DEF C
  <1>2. ASSUME NEW s \in 0 .. 11
        PROVE  /\ C[s + 1] \in {"info", "hAccel", "hAccelTreeView", "font", "use"} \cup App!Windows
               /\ C[s + 1] = "info" <=> s = 0
               /\ C[s + 1] = "font" <=> s = 3
               /\ C[s + 1] = "edit" <=> s = 10
    <2>1. s \in {0, 1, 2, 3, 4, 5, 6, 7, 8, 9, 10, 11}
      OBVIOUS
    <2> QED BY <1>1, <2>1 DEF App!Windows
  <1> QED BY <1>1, <1>2 DEF C


\* At first there is nothing.
LEMMA InitLifeInv == App!Init => LifeInv
  <1> SUFFICES ASSUME App!Init PROVE LifeInv
    OBVIOUS
  <1>1. App!TypeOK
    <2>1. step \in 0 .. Len(App!Creation)
      BY CreationSteps DEF App!Init
    <2>2. {created, enabled, quit} \subseteq BOOLEAN
      BY Zenon DEF App!Init
    <2> QED BY <2>1, <2>2 DEF App!Init, App!TypeOK, App!NONE
  <1>2. FontsRight /\ FileRight
    BY DEF App!Init, FontsRight, FileRight, Changing, None
  <1>3. SetUp /\ Created /\ Ending /\ Looping /\ Over
    BY DEF App!Init, SetUp, Created, Ending, Looping, Over, InLoop, Changing, NoWindow, None
  <1> QED BY <1>1, <1>2, <1>3 DEF LifeInv


\* A step of wWinMain adds what it sets up.
LEMMA StartupStepKeeps == LifeInv /\ App!StartupStep => LifeInv'
  <1> SUFFICES ASSUME LifeInv, App!StartupStep PROVE LifeInv'
    OBVIOUS
  <1>t. App!TypeOK /\ FontsRight /\ FileRight /\ SetUp /\ Created /\ Ending /\ Looping /\ Over
    BY DEF LifeInv
  <1>1. step \in 0 .. 5
    BY <1>t, StartupSteps DEF App!StartupStep, App!TypeOK
  <1>2. App!Startup[step + 1].gives =
            (IF step = 1 THEN {"crypto"} ELSE IF step = 3 THEN {"ole"}
             ELSE IF step = 4 THEN {"appClass"} ELSE IF step = 5 THEN {"splitterClass"} ELSE {})
    BY <1>1, StartupSteps
  <1>3. /\ appPc = "setup" /\ step' = step + 1
        /\ held' = held \cup App!Startup[step + 1].gives
        /\ UNCHANGED <<appPc, kids, created, fonts, font, editFont, other, file, enabled,
                       scheme, treeBk, quit, box, exitCode>>
    BY DEF App!StartupStep, App!text, App!look
  <1>4. App!TypeOK'
    BY <1>t, <1>1, <1>2, <1>3, CreationSteps DEF App!TypeOK
  <1>5. FontsRight' /\ FileRight'
    BY <1>t, <1>3 DEF FontsRight, FileRight, Changing, InLoop, None
  <1>6. SetUp'
    BY <1>t, <1>1, <1>2, <1>3 DEF SetUp, NoWindow, None, Base
  <1>7. Created' /\ Ending' /\ Looping' /\ Over'
    BY <1>3 DEF Created, Ending, Looping, Over, InLoop, Changing
  <1> QED BY <1>4, <1>5, <1>6, <1>7 DEF LifeInv

\* A step of MainWmCreate adds what it makes; the font comes before the edit
\* control.
LEMMA MainWmCreateKeeps == LifeInv /\ App!MainWmCreate => LifeInv'
  <1> SUFFICES ASSUME LifeInv, App!MainWmCreate PROVE LifeInv'
    OBVIOUS
  <1>t. App!TypeOK /\ FontsRight /\ FileRight /\ SetUp /\ Created /\ Ending /\ Looping /\ Over
    BY DEF LifeInv
  <1> DEFINE r == App!Creation[step + 1]
  <1>1. step \in 0 .. 11
    BY <1>t, CreationSteps DEF App!MainWmCreate, App!TypeOK
  <1>2. /\ r \in {"info", "hAccel", "hAccelTreeView", "font", "use"} \cup App!Windows
        /\ r = "info" <=> step = 0
        /\ r = "font" <=> step = 3
        /\ r = "edit" <=> step = 10
    BY <1>1, CreationSteps
  <1>3. /\ appPc = "create" /\ step' = step + 1
        /\ held' = IF r \in App!Windows \cup {"use", "font"} THEN held ELSE held \cup {r}
        /\ kids' = IF r \in App!Windows THEN kids \cup {r} ELSE kids
        /\ editFont' = IF r = "edit" THEN font ELSE editFont
        /\ treeBk' = IF r = "treeview" THEN scheme ELSE treeBk
        /\ UNCHANGED <<appPc, created, other, file, enabled, scheme, quit, box, exitCode>>
    BY DEF App!MainWmCreate
  <1>4. IF r = "font" THEN font' \in Fonts /\ fonts' = fonts \cup {font'}
        ELSE UNCHANGED <<fonts, font>>
    BY DEF App!MainWmCreate, App!CreateIconTitleFont
  <1> HIDE DEF r
  <1>5. App!TypeOK'
    BY <1>t, <1>1, <1>2, <1>3, <1>4, CreationSteps DEF App!TypeOK, App!Windows
  <1>6. FontsRight' /\ FileRight'
    BY <1>t, <1>1, <1>2, <1>3, <1>4, FontsAssumption
       DEF FontsRight, FileRight, Changing, InLoop, Created, None, App!NONE, App!Windows
  <1>7. Created'
    BY <1>t, <1>1, <1>2, <1>3, <1>4, FontsAssumption DEF Created, App!Windows, None, App!NONE
  <1>8. SetUp' /\ Ending' /\ Looping' /\ Over'
    BY <1>3 DEF SetUp, Ending, Looping, Over, InLoop, Changing
  <1> QED BY <1>5, <1>6, <1>7, <1>8 DEF LifeInv

\* What the main window holds goes with it: the rest is what wWinMain set up, and
\* perhaps the drop target.
LEMMA WindowGone ==
  ASSUME NEW h, "drop" \notin h,
         h \subseteq {"crypto", "ole", "appClass", "splitterClass", "window", "info",
                     "hAccel", "hAccelTreeView", "drop", "lostDrop"}
  PROVE  h \ {"info", "hAccel", "hAccelTreeView", "window"} \subseteq Left
  BY DEF Base, Left

\* The other steps, those that fail among them.
LEMMA NextLifeInv == LifeInv /\ [App!Next]_(App!vars) => LifeInv'
  <1> SUFFICES ASSUME LifeInv, [App!Next]_(App!vars) PROVE LifeInv'
    OBVIOUS
  <1> USE StartupSteps, CreationSteps, FontsAssumption
      DEF App!text, App!look, App!EnableWorkspace, App!AppCloseFile, App!TypeOK, App!Running,
          App!NONE, None, FontsRight, FileRight, SetUp, Created, Ending, Looping, Over, NoWindow,
          Base, Left, Up, Changing, InLoop
  <1>t. App!TypeOK /\ FontsRight /\ FileRight /\ SetUp /\ Created /\ Ending /\ Looping /\ Over
    BY DEF LifeInv
  <1>1. CASE App!StartupFails
    BY <1>t, <1>1 DEF App!StartupFails, LifeInv
  <1>2. CASE App!CreateMainWindow
    BY <1>t, <1>2 DEF App!CreateMainWindow, LifeInv
  <1>3. CASE App!CreateMainWindowFails
    <2>0. step = 6 /\ appPc = "setup"
      BY <1>t, <1>3 DEF App!CreateMainWindowFails
    <2>1. /\ held \subseteq Base /\ NoWindow /\ ~quit /\ box = None
          /\ "crypto" \in held /\ "ole" \in held
          /\ "appClass" \in held /\ "splitterClass" \in held
      BY <1>t, <2>0
    <2>2. held = Base
      <3>1. \A x : x \in held <=> x \in Base
        BY <2>1
      <3> QED BY <3>1, Zenon
    <2> QED BY <1>t, <1>3, <2>2 DEF App!CreateMainWindowFails, LifeInv
  <1>4. CASE App!MainWmCreateFails
    BY <1>t, <1>4 DEF App!MainWmCreateFails, LifeInv
  <1>5. CASE App!MainWmCreated
    BY <1>t, <1>5 DEF App!MainWmCreated, LifeInv
  <1>6. CASE App!MainWmDestroy
    BY <1>t, <1>6 DEF App!MainWmDestroy, App!UnregisterDropWindow, LifeInv
  <1>7. CASE App!MainWmNcDestroy
    <2>1. held' \subseteq Left
      <3>1. held \subseteq {"crypto", "ole", "appClass", "splitterClass", "window", "info",
                           "hAccel", "hAccelTreeView", "drop", "lostDrop"}
        BY <1>t, Zenon
      <3>2. held' = held \ {"info", "hAccel", "hAccelTreeView", "window"}
        BY <1>7, Zenon DEF App!MainWmNcDestroy
      <3>3. "drop" \notin held
        BY <1>t, <1>7 DEF App!MainWmNcDestroy
      <3> QED BY <3>1, <3>2, <3>3, WindowGone, Zenon
    <2>2. NoWindow'
      BY <1>t, <1>7 DEF App!MainWmNcDestroy
    <2>3. App!TypeOK'
      BY <1>t, <1>7 DEF App!MainWmNcDestroy
    <2> QED BY <1>t, <1>7, <2>1, <2>2, <2>3 DEF App!MainWmNcDestroy, LifeInv
  <1>8. CASE App!ReportNoWindow
    BY <1>t, <1>8 DEF App!ReportNoWindow, LifeInv
  <1>9. CASE App!LoopEnds
    BY <1>t, <1>9 DEF App!LoopEnds, LifeInv
  <1>10. CASE App!Cleanup
    BY <1>t, <1>10 DEF App!Cleanup, App!InUse, LifeInv
  <1>11. CASE App!OpenDbFile
    BY <1>t, <1>11 DEF App!OpenDbFile, LifeInv
  <1>12. CASE App!CloseFile
    BY <1>t, <1>12 DEF App!CloseFile, LifeInv
  <1>13. CASE App!MainWmClose
    BY <1>t, <1>13 DEF App!MainWmClose, LifeInv
  <1>14. CASE App!MainWmSettingChange
    <2>1. PICK f \in Fonts : fonts' = fonts \cup {f} /\ other' = f /\ f \notin fonts
      BY <1>14 DEF App!MainWmSettingChange, App!CreateIconTitleFont
    <2> QED BY <1>t, <1>14, <2>1 DEF App!MainWmSettingChange, LifeInv
  <1>15. CASE App!SetEditFont
    BY <1>t, <1>15 DEF App!SetEditFont, LifeInv
  <1>16. CASE App!AssignFont
    <2>0. font \in Fonts \cup {None} /\ other \in Fonts \cup {None} /\ other # None
      BY <1>t, <1>16 DEF App!AssignFont
    <2>1. App!TypeOK'
      BY <1>t, <1>16, <2>0 DEF App!AssignFont
    <2>2. font # None
      BY <1>t, <1>16 DEF App!AssignFont
    <2>3. FontsRight'
      BY <1>t, <1>16, <2>0, <2>2 DEF App!AssignFont
    <2>4. FileRight'
      BY <1>t, <1>16 DEF App!AssignFont
    <2>5. (SetUp /\ Created /\ Ending /\ Looping /\ Over)'
      BY <1>t, <1>16 DEF App!AssignFont
    <2> QED BY <2>1, <2>3, <2>4, <2>5, Zenon DEF LifeInv
  <1>17. CASE App!DeleteOldFont
    BY <1>t, <1>17 DEF App!DeleteOldFont, LifeInv
  <1>18. CASE App!MainWmSysColorChange
    BY <1>t, <1>18 DEF App!MainWmSysColorChange, LifeInv
  <1>19. CASE App!GetMessageFails
    BY <1>t, <1>19 DEF App!GetMessageFails, LifeInv
  <1>20. CASE UNCHANGED App!vars
    BY <1>t, <1>20 DEF App!vars, LifeInv
  <1> QED BY StartupStepKeeps, MainWmCreateKeeps, <1>1, <1>2, <1>3, <1>4, <1>5, <1>6, <1>7,
       <1>8, <1>9, <1>10, <1>11, <1>12, <1>13, <1>14, <1>15, <1>16, <1>17, <1>18, <1>19, <1>20
       DEF App!Next, App!Program

\* The invariant is what the life of the process promises, and more.
LEMMA LifeInvRight == LifeInv => LifecycleRight
  <1> SUFFICES ASSUME LifeInv PROVE LifecycleRight
    OBVIOUS
  <1> USE DEF App!TypeOK, App!Running, App!NONE, None, FontsRight, FileRight, SetUp,
       Created, Ending, Looping, Over, NoWindow, Base, Left, Up, Changing, InLoop, App!Splitters
  <1>t. App!TypeOK /\ FontsRight /\ FileRight /\ SetUp /\ Created /\ Ending /\ Looping /\ Over
    BY DEF LifeInv
  <1>1. App!CleanExit
    BY <1>t DEF App!CleanExit
  <1>2. App!ErrorBoxStays
    BY <1>t DEF App!ErrorBoxStays
  <1>3. App!UsesWhatIsThere
    BY <1>t DEF App!UsesWhatIsThere
  <1>4. App!FontInUseExists
    BY <1>t DEF App!FontInUseExists
  <1>5. App!TreeColour
    BY <1>t DEF App!TreeColour
  <1> QED BY <1>t, <1>1, <1>2, <1>3, <1>4, <1>5 DEF LifecycleRight

\* However start-up failed or the window went away nothing is left but a drop
\* target Windows did not revoke, unless the loop failed; and before that
\* everything is used while it is there, for every set of fonts.
THEOREM LifecycleIsRight == App!Spec => []LifecycleRight
  <1>1. App!Spec => []LifeInv
    BY InitLifeInv, NextLifeInv, PTL DEF App!Spec
  <1> QED BY <1>1, LifeInvRight, PTL
-----------------------------------------------------------------------------
(* The handles of the encryption: what a function has been given so far is *)
(* its calls that gave a handle, and each way out gives all of it back or  *)
(* completes the object.                                                   *)

\* Windows' two interfaces; the functions that make an object, and those that
\* use a key for one page.
Apis == {"CNG", "CryptoAPI"}
Makers == {"Init", "InitKey", "Clone"}
Users == {"Page", "Sign"}

\* The handles the first n calls of a function give.
Got(api, fn, n) == {Handle!Steps(api, fn)[j] : j \in 1 .. n} \ {"use"}

\* The handles a function keeps, or uses for a while.
Whole(api, fn) ==
    CASE fn = "Init" -> Handle!ProvFields(api)
      [] fn = "Page" -> {"hKeyTmp"}
      [] fn = "Sign" -> {"hHashTmp"}
      [] OTHER -> Handle!KeyFields(api)

\* The handles of the objects that are complete, ...
Complete == ({"prov"} \X Handle!ProvFields(prov)) \cup (keys \X Handle!KeyFields(prov))

\* ... and of the function that runs.
Taken == IF Handle!Running THEN {call.o} \X Got(call.api, call.fn, call.pc - 1) ELSE {}

\* Whom the function that runs works for.
RunsFor ==
    Handle!Running =>
        /\ call.fn \in Makers \cup Users /\ call.api \in Apis
        /\ call.pc \in 1 .. Len(Handle!Steps(call.api, call.fn)) + 1
        /\ call.fn = "Init" => call.o = "prov" /\ prov = NULL
        /\ call.fn # "Init" => call.o \in Keys /\ call.api = prov
        /\ call.fn \in {"InitKey", "Clone"} => call.o \notin keys
        /\ call.fn = "InitKey" => call.from \in Data \cup {NULL}
        /\ call.fn = "Clone" => call.from \in keys
        /\ call.fn \in Users => call.o \in keys

\* Exactly those exist, and what a call works on is there, or not there yet.
HandleInv ==
    /\ prov \in Apis \cup {NULL} /\ keys \subseteq Keys
    /\ extra \in [Keys -> Data \cup {NULL}]
    /\ keys # {} => prov # NULL
    /\ \A k \in Keys \ keys : extra[k] = NULL
    /\ open = Complete \cup Taken
    /\ ~Handle!Running \/ call = [fn |-> call.fn, api |-> call.api, o |-> call.o, from |-> call.from, pc |-> call.pc]
    /\ RunsFor

\* What a sequence put together is.
LEMMA PutTogether ==
  ASSUME NEW S, NEW s \in Seq(S), NEW t \in Seq(S), NEW u \in Seq(S),
         Len(u) = Len(s) + Len(t),
         \A a \in 1 .. Len(s) : u[a] = s[a],
         \A a \in 1 .. Len(t) : u[Len(s) + a] = t[a]
  PROVE  s \o t = u
  <1>1. s \o t \in Seq(S) /\ Len(s \o t) = Len(u)
    OBVIOUS
  <1>2. \A a \in 1 .. Len(u) : (s \o t)[a] = u[a]
    <2> SUFFICES ASSUME NEW a \in 1 .. Len(u) PROVE (s \o t)[a] = u[a]
      OBVIOUS
    <2>1. CASE a <= Len(s)
      BY <2>1
    <2>2. CASE ~(a <= Len(s))
      <3>1. a - Len(s) \in 1 .. Len(t) /\ Len(s) + (a - Len(s)) = a
        BY <2>2
      <3>2. (s \o t)[a] = t[a - Len(s)]
        BY <2>2
      <3> QED BY <3>1, <3>2
    <2> QED BY <2>1, <2>2
  <1>3. \A q \in Seq(S) : q = [a \in 1 .. Len(q) |-> q[a]]
    OBVIOUS
  <1>4. s \o t = [a \in 1 .. Len(u) |-> (s \o t)[a]] /\ u = [a \in 1 .. Len(u) |-> u[a]]
    BY <1>1, <1>3
  <1> QED BY <1>2, <1>4

\* The calls of both InitKey functions, written out.
LEMMA CngInitKeyCalls ==
  Handle!ICngProv_InitKey = <<"use", "use", "block", "aes256Key", "sha256">>
  <1> DEFINE S == {"use", "block", "aes256Key", "sha256"}
             a == <<"use", "use">>  b == <<"block">>  c == <<"aes256Key", "sha256">>
             ab == <<"use", "use", "block">>
             abc == <<"use", "use", "block", "aes256Key", "sha256">>
  <1>1. a \in Seq(S) /\ b \in Seq(S) /\ ab \in Seq(S)
    OBVIOUS
  <1>2. c \in Seq(S) /\ abc \in Seq(S)
    OBVIOUS
  <1>3. Len(ab) = Len(a) + Len(b) /\ Len(abc) = Len(ab) + Len(c)
    OBVIOUS
  <1>4. /\ \A n \in 1 .. Len(a) : ab[n] = a[n]
        /\ \A n \in 1 .. Len(b) : ab[Len(a) + n] = b[n]
    OBVIOUS
  <1>5. /\ \A n \in 1 .. Len(ab) : abc[n] = ab[n]
        /\ \A n \in 1 .. Len(c) : abc[Len(ab) + n] = c[n]
    OBVIOUS
  <1>6. Handle!ICngProv_InitKey = (a \o b) \o c
    BY DEF Handle!ICngProv_InitKey, Handle!AllocICngKey
  <1> HIDE DEF S, a, b, c, ab, abc
  <1>7. a \o b = ab
    BY <1>1, <1>3, <1>4, PutTogether, Zenon
  <1>8. ab \o c = abc
    BY <1>1, <1>2, <1>3, <1>5, PutTogether, Zenon
  <1> QED BY <1>6, <1>7, <1>8 DEF abc

\* ... with CryptoAPI, ...
LEMMA CryptoApiInitKeyCalls ==
  Handle!ICryptoApiProv_InitKey = <<"block", "aes256Key", "sha256Key", "sha256", "use">>
  <1> DEFINE S == {"use", "block", "aes256Key", "sha256Key", "sha256"}
             a == <<"block">>  b == <<"aes256Key">>  c == <<"sha256Key">>
             d == <<"sha256", "use">>
             ab == <<"block", "aes256Key">>
             abc == <<"block", "aes256Key", "sha256Key">>
             abcd == <<"block", "aes256Key", "sha256Key", "sha256", "use">>
  <1>1. a \in Seq(S) /\ b \in Seq(S) /\ c \in Seq(S) /\ d \in Seq(S)
    OBVIOUS
  <1>2. ab \in Seq(S) /\ abc \in Seq(S) /\ abcd \in Seq(S)
    OBVIOUS
  <1>3. Len(ab) = Len(a) + Len(b) /\ Len(abc) = Len(ab) + Len(c) /\ Len(abcd) = Len(abc) + Len(d)
    OBVIOUS
  <1>4. /\ \A n \in 1 .. Len(a) : ab[n] = a[n]
        /\ \A n \in 1 .. Len(b) : ab[Len(a) + n] = b[n]
    OBVIOUS
  <1>5. /\ \A n \in 1 .. Len(ab) : abc[n] = ab[n]
        /\ \A n \in 1 .. Len(c) : abc[Len(ab) + n] = c[n]
    OBVIOUS
  <1>6. /\ \A n \in 1 .. Len(abc) : abcd[n] = abc[n]
        /\ \A n \in 1 .. Len(d) : abcd[Len(abc) + n] = d[n]
    OBVIOUS
  <1>7. Handle!ICryptoApiProv_InitKey = ((a \o b) \o c) \o d
    BY DEF Handle!ICryptoApiProv_InitKey, Handle!CryptImportAes256Key,
         Handle!CryptImportHmacSha256Key, Handle!CryptCreateHmacSha256Hash
  <1> HIDE DEF S, a, b, c, d, ab, abc, abcd
  <1>8. a \o b = ab
    BY <1>1, <1>2, <1>3, <1>4, PutTogether, ZenonT(40)
  <1>9. ab \o c = abc
    BY <1>1, <1>2, <1>3, <1>5, PutTogether, Zenon
  <1>10. abc \o d = abcd
    BY <1>1, <1>2, <1>3, <1>6, PutTogether, Zenon
  <1> QED BY <1>7, <1>8, <1>9, <1>10 DEF abcd

\* ... and those of Clone with CNG.
LEMMA CngCloneCalls == Handle!ICngKey_Clone = <<"block", "aes256Key", "sha256">>
  <1> DEFINE S == {"block", "aes256Key", "sha256"}
             a == <<"block">>  b == <<"aes256Key", "sha256">>
             ab == <<"block", "aes256Key", "sha256">>
  <1>1. a \in Seq(S) /\ b \in Seq(S) /\ ab \in Seq(S)
    OBVIOUS
  <1>2. Len(ab) = Len(a) + Len(b)
    OBVIOUS
  <1>3. /\ \A n \in 1 .. Len(a) : ab[n] = a[n]
        /\ \A n \in 1 .. Len(b) : ab[Len(a) + n] = b[n]
    OBVIOUS
  <1>4. Handle!ICngKey_Clone = a \o b
    BY DEF Handle!ICngKey_Clone, Handle!AllocICngKey
  <1> HIDE DEF S, a, b, ab
  <1>5. a \o b = ab
    BY <1>1, <1>2, <1>3, PutTogether, Zenon
  <1> QED BY <1>4, <1>5 DEF ab

\* What the calls of a sequence give.
Given(s) == {s[a] : a \in 1 .. Len(s)} \ {"use"}
BlockFirst(s) == \E b \in 1 .. Len(s) : s[b] = "block" /\ \A a \in 1 .. b - 1 : s[a] = "use"

\* How many calls each function makes, what they give, and the block comes first.
LEMMA GivenBy ==
  /\ Len(Handle!ICngProv_Init) = 7 /\ BlockFirst(Handle!ICngProv_Init)
  /\ Given(Handle!ICngProv_Init) = {"block", "rngAlg", "hmacSha256Alg", "aes256Alg"}
  /\ Len(Handle!ICryptoApiProv_Init) = 4 /\ BlockFirst(Handle!ICryptoApiProv_Init)
  /\ Given(Handle!ICryptoApiProv_Init) = {"block", "prov"}
  /\ Len(Handle!ICngProv_InitKey) = 5 /\ BlockFirst(Handle!ICngProv_InitKey)
  /\ Given(Handle!ICngProv_InitKey) = {"block", "aes256Key", "sha256"}
  /\ Len(Handle!ICryptoApiProv_InitKey) = 5 /\ BlockFirst(Handle!ICryptoApiProv_InitKey)
  /\ Given(Handle!ICryptoApiProv_InitKey) = {"block", "aes256Key", "sha256Key", "sha256"}
  /\ Len(Handle!ICngKey_Clone) = 3 /\ BlockFirst(Handle!ICngKey_Clone)
  /\ Given(Handle!ICngKey_Clone) = {"block", "aes256Key", "sha256"}
  /\ Len(Handle!ICryptoApiKey_Clone) = 4 /\ BlockFirst(Handle!ICryptoApiKey_Clone)
  /\ Given(Handle!ICryptoApiKey_Clone) = {"block", "aes256Key", "sha256Key", "sha256"}
  /\ Len(<<"hKeyTmp", "use">>) = 2 /\ Given(<<"hKeyTmp", "use">>) = {"hKeyTmp"}
  /\ Len(<<"hHashTmp", "use", "use", "use">>) = 4
  /\ Given(<<"hHashTmp", "use", "use", "use">>) = {"hHashTmp"}
  <1>1. Len(Handle!ICngProv_Init) = 7 /\ BlockFirst(Handle!ICngProv_Init)
    BY DEF Handle!ICngProv_Init, BlockFirst
  <1>2. Given(Handle!ICngProv_Init) = {"block", "rngAlg", "hmacSha256Alg", "aes256Alg"}
    BY DEF Handle!ICngProv_Init, Given
  <1>3. Len(Handle!ICryptoApiProv_Init) = 4 /\ BlockFirst(Handle!ICryptoApiProv_Init)
    BY DEF Handle!ICryptoApiProv_Init, BlockFirst
  <1>4. Given(Handle!ICryptoApiProv_Init) = {"block", "prov"}
    BY DEF Handle!ICryptoApiProv_Init, Given
  <1>5. Len(Handle!ICngProv_InitKey) = 5 /\ BlockFirst(Handle!ICngProv_InitKey)
    BY CngInitKeyCalls DEF BlockFirst
  <1>6. Given(Handle!ICngProv_InitKey) = {"block", "aes256Key", "sha256"}
    BY CngInitKeyCalls DEF Given
  <1>7. Len(Handle!ICryptoApiProv_InitKey) = 5 /\ BlockFirst(Handle!ICryptoApiProv_InitKey)
    BY CryptoApiInitKeyCalls DEF BlockFirst
  <1>8. Given(Handle!ICryptoApiProv_InitKey) = {"block", "aes256Key", "sha256Key", "sha256"}
    BY CryptoApiInitKeyCalls DEF Given
  <1>9. Len(Handle!ICngKey_Clone) = 3 /\ BlockFirst(Handle!ICngKey_Clone)
    BY CngCloneCalls DEF BlockFirst
  <1>10. Given(Handle!ICngKey_Clone) = {"block", "aes256Key", "sha256"}
    BY CngCloneCalls DEF Given
  <1>11. Len(Handle!ICryptoApiKey_Clone) = 4 /\ BlockFirst(Handle!ICryptoApiKey_Clone)
    BY DEF Handle!ICryptoApiKey_Clone, BlockFirst
  <1>12. Given(Handle!ICryptoApiKey_Clone) = {"block", "aes256Key", "sha256Key", "sha256"}
    BY DEF Handle!ICryptoApiKey_Clone, Given
  <1>13. Len(<<"hKeyTmp", "use">>) = 2 /\ Given(<<"hKeyTmp", "use">>) = {"hKeyTmp"}
    BY DEF Given
  <1>14. /\ Len(<<"hHashTmp", "use", "use", "use">>) = 4
         /\ Given(<<"hHashTmp", "use", "use", "use">>) = {"hHashTmp"}
    BY DEF Given
  <1> QED BY <1>1, <1>2, <1>3, <1>4, <1>5, <1>6, <1>7, <1>8, <1>9, <1>10, <1>11, <1>12,
       <1>13, <1>14

\* What every function is given by its calls, one after the other.
LEMMA CallsGive ==
  ASSUME NEW api \in Apis, NEW fn \in Makers \cup Users
  PROVE  /\ Len(Handle!Steps(api, fn)) \in 1 .. 7
         /\ Given(Handle!Steps(api, fn)) = Whole(api, fn)
         /\ fn \in Makers => BlockFirst(Handle!Steps(api, fn))
  <1> USE GivenBy DEF Handle!Steps, Whole, Handle!ProvFields, Handle!KeyFields, Makers, Users
  <1>1. CASE fn = "Init" /\ api = "CNG"
    BY <1>1
  <1>2. CASE fn = "Init" /\ api = "CryptoAPI"
    BY <1>2
  <1>3. CASE fn = "InitKey" /\ api = "CNG"
    BY <1>3
  <1>4. CASE fn = "InitKey" /\ api = "CryptoAPI"
    BY <1>4
  <1>5. CASE fn = "Clone" /\ api = "CNG"
    BY <1>5
  <1>6. CASE fn = "Clone" /\ api = "CryptoAPI"
    BY <1>6
  <1>7. CASE fn = "Page"
    BY <1>7 DEF Apis, Handle!ICngKey_EncryptOrDecryptPage,
         Handle!ICryptoApiKey_EncryptOrDecryptPage
  <1>8. CASE fn = "Sign"
    BY <1>8 DEF Apis, Handle!ICngKey_SignPage, Handle!ICryptoApiKey_SignPage
  <1> QED BY <1>1, <1>2, <1>3, <1>4, <1>5, <1>6, <1>7, <1>8 DEF Apis

\* What a function holds between two of its calls.
LEMMA GotSoFar ==
  ASSUME NEW api \in Apis, NEW fn \in Makers \cup Users,
         NEW n \in 0 .. Len(Handle!Steps(api, fn))
  PROVE  /\ Got(api, fn, n) \subseteq Whole(api, fn)
         /\ n = Len(Handle!Steps(api, fn)) => Got(api, fn, n) = Whole(api, fn)
         /\ n = 0 => Got(api, fn, n) = {}
         /\ fn \in Makers /\ Got(api, fn, n) # {} => "block" \in Got(api, fn, n)
         /\ n < Len(Handle!Steps(api, fn)) =>
              Got(api, fn, n + 1)
                = Got(api, fn, n) \cup ({Handle!Steps(api, fn)[n + 1]} \ {"use"})
  <1> DEFINE s == Handle!Steps(api, fn)
  <1>1. Len(s) \in 1 .. 7 /\ Given(s) = Whole(api, fn) /\ (fn \in Makers => BlockFirst(s))
    BY CallsGive
  <1>2. Got(api, fn, n) = {s[j] : j \in 1 .. n} \ {"use"}
        /\ Got(api, fn, n + 1) = {s[j] : j \in 1 .. n + 1} \ {"use"}
    BY DEF Got
  <1>n. n \in 0 .. Len(s)
    OBVIOUS
  <1> HIDE DEF s
  <1>3. Got(api, fn, n) \subseteq Whole(api, fn)
    BY <1>1, <1>2, <1>n DEF Given
  <1>4. n = Len(s) => Got(api, fn, n) = Whole(api, fn)
    BY <1>1, <1>2 DEF Given
  <1>5. n = 0 => Got(api, fn, n) = {}
    BY <1>2
  <1>6. ASSUME fn \in Makers, Got(api, fn, n) # {} PROVE "block" \in Got(api, fn, n)
    <2>1. PICK b \in 1 .. Len(s) : s[b] = "block" /\ \A a \in 1 .. b - 1 : s[a] = "use"
      BY <1>1, <1>6 DEF BlockFirst
    <2>2. PICK j \in 1 .. n : s[j] # "use"
      BY <1>2, <1>6
    <2>3. b <= j
      BY <1>1, <1>n, <2>1, <2>2
    <2>4. b \in 1 .. n
      BY <1>1, <1>n, <2>1, <2>2, <2>3
    <2> QED BY <1>2, <2>1, <2>4
  <1>7. {s[j] : j \in 1 .. n + 1} = {s[j] : j \in 1 .. n} \cup {s[n + 1]}
    BY <1>1, <1>n
  <1> QED BY <1>2, <1>3, <1>4, <1>5, <1>6, <1>7 DEF s

\* A function that makes an object shares no handle with those that are complete.
LEMMA MakerApart ==
  ASSUME HandleInv, Handle!Running, call.fn \in Makers
  PROVE  \A h \in Complete : h[1] # call.o
  <1>1. CASE call.fn = "Init"
    <2>1. prov = NULL /\ keys = {} /\ call.o = "prov"
      BY <1>1 DEF HandleInv, RunsFor
    <2>2. Handle!ProvFields(prov) = {}
      BY <2>1, HandleAssumption DEF Handle!ProvFields
    <2> QED BY <2>1, <2>2 DEF Complete
  <1>2. CASE call.fn \in {"InitKey", "Clone"}
    <2>1. call.o \in Keys \ keys /\ call.o # "prov"
      BY <1>2, HandleAssumption DEF HandleInv, RunsFor
    <2> QED BY <2>1 DEF Complete
  <1> QED BY <1>1, <1>2 DEF Makers

\* The running function and what it has got.
LEMMA RunsNow ==
  ASSUME HandleInv, Handle!Running
  PROVE  /\ call.fn \in Makers \cup Users /\ call.api \in Apis
         /\ call.pc - 1 \in 0 .. Len(Handle!Steps(call.api, call.fn))
         /\ call.pc \in Nat /\ (call.pc - 1) + 1 = call.pc
         /\ Len(Handle!Steps(call.api, call.fn)) \in 1 .. 7
         /\ Taken = {call.o} \X Got(call.api, call.fn, call.pc - 1)
         /\ call = [fn |-> call.fn, api |-> call.api, o |-> call.o, from |-> call.from, pc |-> call.pc]
  <1>1. /\ call.fn \in Makers \cup Users /\ call.api \in Apis
        /\ call.pc \in 1 .. Len(Handle!Steps(call.api, call.fn)) + 1
    BY DEF HandleInv, RunsFor
  <1>2. Len(Handle!Steps(call.api, call.fn)) \in 1 .. 7
    BY <1>1, CallsGive
  <1> QED BY <1>1, <1>2 DEF HandleInv, Taken

\* A call that succeeds adds its handle.
LEMMA SucceedsKeeps ==
  ASSUME HandleInv, Handle!StepSucceeds
  PROVE  HandleInv'
  <1>1. /\ Handle!Running /\ call.pc <= Len(Handle!Steps(call.api, call.fn))
        /\ UNCHANGED <<prov, keys, extra>>
        /\ open' = open \cup (IF Handle!Current = "use" THEN {} ELSE {<<call.o, Handle!Current>>})
    BY DEF Handle!StepSucceeds, Handle!MoreSteps
  <1>2. call' = [call EXCEPT !.pc = call.pc + 1]
    BY DEF Handle!StepSucceeds
  <1>3. /\ call.fn \in Makers \cup Users /\ call.api \in Apis
        /\ call.pc - 1 \in 0 .. Len(Handle!Steps(call.api, call.fn))
        /\ call.pc \in Nat /\ (call.pc - 1) + 1 = call.pc
        /\ Len(Handle!Steps(call.api, call.fn)) \in 1 .. 7
        /\ Taken = {call.o} \X Got(call.api, call.fn, call.pc - 1)
        /\ call = [fn |-> call.fn, api |-> call.api, o |-> call.o, from |-> call.from, pc |-> call.pc]
    BY <1>1, RunsNow
  <1>4. call' = [fn |-> call.fn, api |-> call.api, o |-> call.o, from |-> call.from, pc |-> call.pc + 1]
    BY <1>2, <1>3
  <1>5. /\ call'.fn = call.fn /\ call'.api = call.api /\ call'.o = call.o /\ call'.from = call.from
        /\ call'.pc = call.pc + 1
    BY <1>4
  <1>6. Handle!Running'
    BY <1>3, <1>5 DEF Handle!Running, Handle!Idle, Makers, Users
  <1>7. Got(call.api, call.fn, call.pc)
          = Got(call.api, call.fn, call.pc - 1) \cup ({Handle!Current} \ {"use"})
    <2>1. call.pc - 1 < Len(Handle!Steps(call.api, call.fn))
      BY <1>1, <1>3
    <2>2. Handle!Steps(call.api, call.fn)[(call.pc - 1) + 1] = Handle!Current
      BY <1>3 DEF Handle!Current
    <2> QED BY <1>3, <2>1, <2>2, GotSoFar
  <1>8. Taken' = {call.o} \X Got(call.api, call.fn, call.pc)
    <2>1. call'.pc - 1 = call.pc
      BY <1>3, <1>5
    <2> QED BY <1>5, <1>6, <2>1 DEF Taken, Got
  <1>9. open' = Complete' \cup Taken'
    <2>1. Complete' = Complete
      BY <1>1 DEF Complete
    <2>2. Taken' = Taken \cup (IF Handle!Current = "use" THEN {} ELSE {<<call.o, Handle!Current>>})
      BY <1>3, <1>7, <1>8
    <2> QED BY <1>1, <2>1, <2>2 DEF HandleInv
  <1>10. RunsFor'
    BY <1>1, <1>3, <1>5 DEF HandleInv, RunsFor
  <1>11. call' = [fn |-> call'.fn, api |-> call'.api, o |-> call'.o, from |-> call'.from, pc |-> call'.pc]
    BY <1>4, <1>5
  <1> QED BY <1>1, <1>9, <1>10, <1>11 DEF HandleInv

\* What a function that fails destroys is all it had got, ...
LEMMA FailureLeavesNothing ==
  ASSUME HandleInv, Handle!Running,
         open' = open \ (IF call.fn \in {"Page", "Sign"} THEN Handle!TemporaryGone ELSE Handle!Destroyed)
  PROVE  open' = Complete
  <1>1. /\ call.fn \in Makers \cup Users /\ call.api \in Apis
        /\ call.pc - 1 \in 0 .. Len(Handle!Steps(call.api, call.fn))
        /\ Taken = {call.o} \X Got(call.api, call.fn, call.pc - 1)
    BY RunsNow
  <1> DEFINE got == Got(call.api, call.fn, call.pc - 1)
  <1>2. open = Complete \cup ({call.o} \X got)
    BY <1>1 DEF HandleInv
  <1>3. /\ got \subseteq Whole(call.api, call.fn)
        /\ call.fn \in Makers /\ got # {} => "block" \in got
    BY <1>1, GotSoFar
  <1> HIDE DEF got
  <1>4. CASE call.fn \in Users
    <2>1. got \subseteq Handle!Temporary
      BY <1>3, <1>4 DEF Whole, Users, Handle!Temporary
    <2>2. open' = open \ {<<call.o, f>> : f \in Handle!Temporary}
      BY <1>4 DEF Users, Handle!TemporaryGone
    <2>3. \A h \in Complete : h[2] \notin Handle!Temporary
      BY DEF Complete, Handle!ProvFields, Handle!KeyFields, Handle!Temporary
    <2> QED BY <1>2, <2>1, <2>2, <2>3
  <1>5. CASE call.fn \in Makers
    <2>1. open' = open \ Handle!Destroyed
      BY <1>5 DEF Makers
    <2>2. \A h \in Complete : h[1] # call.o
      BY <1>5, MakerApart
    <2>3. \A h \in Handle!Destroyed : h[1] = call.o
      BY DEF Handle!Destroyed
    <2>4. \A f \in got : <<call.o, f>> \in Handle!Destroyed
      <3> SUFFICES ASSUME NEW f \in got PROVE <<call.o, f>> \in Handle!Destroyed
        OBVIOUS
      <3>1. <<call.o, "block">> \in open /\ <<call.o, f>> \in open
        BY <1>2, <1>3, <1>5
      <3>2. f \in Handle!Release(call.api, call.o) \cup {"block"}
        <4>1. f \in Whole(call.api, call.fn)
          BY <1>3
        <4>2. CASE call.fn = "Init"
          <5>1. call.o = "prov"
            BY <4>2 DEF HandleInv, RunsFor
          <5> QED BY <1>1, <4>1, <4>2, <5>1 DEF Whole, Apis, Handle!ProvFields,
               Handle!Release, Handle!ICngProv_Release, Handle!ICryptoApiProv_Release
        <4>3. CASE call.fn # "Init"
          <5>1. call.o # "prov"
            BY <4>3, HandleAssumption DEF HandleInv, RunsFor
          <5>2. Whole(call.api, call.fn) = Handle!KeyFields(call.api)
            BY <1>5, <4>3 DEF Whole, Makers
          <5> QED BY <1>1, <4>1, <5>1, <5>2 DEF Apis, Handle!KeyFields, Handle!Release,
               Handle!ICngKey_Release, Handle!ICryptoApiKey_Release
        <4> QED BY <4>2, <4>3
      <3>3. f \in Handle!Fields
        BY <1>1, <1>3 DEF Whole, Apis, Handle!ProvFields, Handle!KeyFields, Handle!Fields
      <3>4. f \in Handle!InHelper \/ f \in Handle!Assigned
        BY <3>1, <3>3 DEF Handle!Assigned
      <3> QED BY <3>1, <3>2, <3>4 DEF Handle!Destroyed, Handle!HelperCleanup
    <2> QED BY <1>2, <2>1, <2>2, <2>3, <2>4
  <1> QED BY <1>1, <1>4, <1>5

\* No function runs.
LEMMA NotRunning == ~Handle!Running => call = Handle!Idle /\ Taken = {}
  BY DEF Handle!Running, Taken

\* A function that begins has got nothing.
LEMMA BeginsWithNothing ==
  ASSUME NEW fn \in Makers \cup Users, NEW api \in Apis, NEW o, NEW from,
         Handle!Begin(fn, api, o, from)
  PROVE  /\ Handle!Running' /\ Taken' = {}
         /\ call'.fn = fn /\ call'.api = api /\ call'.o = o /\ call'.from = from /\ call'.pc = 1
         /\ 1 \in 1 .. Len(Handle!Steps(api, fn)) + 1
         /\ call' = [fn |-> call'.fn, api |-> call'.api, o |-> call'.o, from |-> call'.from, pc |-> call'.pc]
  <1>1. call' = [fn |-> fn, api |-> api, o |-> o, from |-> from, pc |-> 1]
    BY DEF Handle!Begin
  <1>2. call'.fn = fn /\ call'.api = api /\ call'.o = o /\ call'.from = from /\ call'.pc = 1
    BY <1>1
  <1>3. Handle!Running'
    BY <1>2 DEF Handle!Running, Handle!Idle, Makers, Users
  <1>4. Len(Handle!Steps(api, fn)) \in 1 .. 7
    BY CallsGive
  <1>5. Got(api, fn, 0) = {}
    BY <1>4, GotSoFar
  <1>6. Taken' = {}
    <2>1. call'.pc - 1 = 0
      BY <1>2
    <2> QED BY <1>2, <1>3, <1>5, <2>1 DEF Taken, Got
  <1> QED BY <1>1, <1>2, <1>3, <1>4, <1>6

\* ... and what is complete stays; CryptoAPI has its turn when CNG fails.
LEMMA FailsKeeps ==
  ASSUME HandleInv, Handle!StepFails
  PROVE  HandleInv'
  <1>1. /\ Handle!Running /\ UNCHANGED <<prov, keys, extra>>
        /\ open' = open \ (IF call.fn \in {"Page", "Sign"} THEN Handle!TemporaryGone ELSE Handle!Destroyed)
        /\ Handle!InitCryptoProv
    BY DEF Handle!StepFails
  <1>2. open' = Complete /\ Complete' = Complete
    BY <1>1, FailureLeavesNothing DEF Complete
  <1>3. CASE call.fn = "Init" /\ call.api = "CNG"
    <2>1. Handle!Begin("Init", "CryptoAPI", "prov", NULL)
      BY <1>1, <1>3 DEF Handle!InitCryptoProv
    <2>2. /\ Handle!Running' /\ Taken' = {}
          /\ call'.fn = "Init" /\ call'.api = "CryptoAPI" /\ call'.o = "prov" /\ call'.pc = 1
          /\ 1 \in 1 .. Len(Handle!Steps("CryptoAPI", "Init")) + 1
          /\ call' = [fn |-> call'.fn, api |-> call'.api, o |-> call'.o, from |-> call'.from, pc |-> call'.pc]
      BY <2>1, BeginsWithNothing DEF Makers, Apis
    <2>3. prov = NULL
      BY <1>1, <1>3 DEF HandleInv, RunsFor
    <2>4. RunsFor'
      BY <1>1, <2>2, <2>3 DEF RunsFor, Makers, Users, Apis
    <2> QED BY <1>1, <1>2, <2>2, <2>4 DEF HandleInv
  <1>4. CASE ~(call.fn = "Init" /\ call.api = "CNG")
    <2>1. call' = Handle!Idle
      BY <1>1, <1>4 DEF Handle!InitCryptoProv
    <2>2. ~Handle!Running' /\ Taken' = {}
      BY <2>1 DEF Handle!Running, Taken
    <2> QED BY <1>1, <1>2, <2>2 DEF HandleInv, RunsFor
  <1> QED BY <1>3, <1>4

\* A function that returns has got all that its object needs.
LEMMA ReturnKeeps ==
  ASSUME HandleInv, Handle!Return
  PROVE  HandleInv'
  <1>1. Handle!Running /\ ~Handle!MoreSteps /\ call' = Handle!Idle
        /\ (Handle!InitDone \/ Handle!KeyDone \/ Handle!PageDone)
    BY DEF Handle!Return
  <1>2. /\ call.fn \in Makers \cup Users /\ call.api \in Apis
        /\ call.pc - 1 \in 0 .. Len(Handle!Steps(call.api, call.fn))
        /\ call.pc \in Nat
        /\ Len(Handle!Steps(call.api, call.fn)) \in 1 .. 7
        /\ Taken = {call.o} \X Got(call.api, call.fn, call.pc - 1)
    BY <1>1, RunsNow
  <1>3. Taken = {call.o} \X Whole(call.api, call.fn)
    <2>1. call.pc - 1 = Len(Handle!Steps(call.api, call.fn))
      BY <1>1, <1>2 DEF Handle!MoreSteps
    <2> QED BY <1>2, <2>1, GotSoFar
  <1>4. ~Handle!Running' /\ Taken' = {}
    BY <1>1 DEF Handle!Running, Taken
  <1>5. CASE Handle!InitDone
    <2>1. call.fn = "Init" /\ prov' = call.api /\ UNCHANGED <<keys, extra, open>>
      BY <1>5 DEF Handle!InitDone
    <2>2. prov = NULL /\ call.o = "prov" /\ keys = {}
      BY <1>1, <2>1 DEF HandleInv, RunsFor
    <2>3. Complete = {}
      BY <2>2, HandleAssumption DEF Complete, Handle!ProvFields
    <2>4. Taken = {"prov"} \X Handle!ProvFields(prov')
      BY <1>3, <2>1, <2>2 DEF Whole
    <2>5. Complete' = Taken
      BY <2>1, <2>2, <2>4 DEF Complete
    <2>6. open' = Complete' \cup Taken'
      BY <1>4, <2>1, <2>3, <2>5 DEF HandleInv
    <2> QED BY <1>2, <1>4, <2>1, <2>2, <2>6 DEF HandleInv, RunsFor
  <1>6. CASE Handle!KeyDone
    <2>1. /\ call.fn \in {"InitKey", "Clone"} /\ keys' = keys \cup {call.o}
          /\ UNCHANGED <<prov, open>>
          /\ extra' = [extra EXCEPT ![call.o] = IF call.fn = "Clone" THEN extra[call.from] ELSE call.from]
      BY <1>6 DEF Handle!KeyDone
    <2>2. /\ call.o \in Keys /\ call.api = prov
          /\ call.fn = "InitKey" => call.from \in Data \cup {NULL}
          /\ call.fn = "Clone" => call.from \in keys
      BY <1>1, <2>1 DEF HandleInv, RunsFor
    <2>3. Taken = {call.o} \X Handle!KeyFields(prov)
      BY <1>3, <2>1, <2>2 DEF Whole
    <2>4. Complete' = Complete \cup Taken
      BY <2>1, <2>3 DEF Complete
    <2>5. open' = Complete' \cup Taken'
      BY <1>4, <2>1, <2>4 DEF HandleInv
    <2>6. extra' \in [Keys -> Data \cup {NULL}]
      BY <2>1, <2>2 DEF HandleInv
    <2>7. \A k \in Keys \ keys' : extra'[k] = NULL
      BY <2>1 DEF HandleInv
    <2>8. prov # NULL
      BY <1>2, <2>2, HandleAssumption DEF Apis
    <2> QED BY <1>4, <2>1, <2>2, <2>5, <2>6, <2>7, <2>8 DEF HandleInv, RunsFor
  <1>7. CASE Handle!PageDone
    <2>1. /\ call.fn \in {"Page", "Sign"} /\ open' = open \ Handle!TemporaryGone
          /\ UNCHANGED <<prov, keys, extra>>
      BY <1>7 DEF Handle!PageDone
    <2>2. open' = Complete
      BY <1>1, <2>1, FailureLeavesNothing
    <2>3. Complete' = Complete
      BY <2>1 DEF Complete
    <2> QED BY <1>4, <2>1, <2>2, <2>3 DEF HandleInv, RunsFor
  <1> QED BY <1>1, <1>5, <1>6, <1>7

\* The codec releases a key with all its handles, ...
LEMMA KeyReleaseKeeps ==
  ASSUME HandleInv, NEW k \in Keys, Handle!CryptoKeyRelease(k)
  PROVE  HandleInv'
  <1>1. /\ ~Handle!Running /\ k \in keys /\ keys' = keys \ {k}
        /\ extra' = [extra EXCEPT ![k] = NULL] /\ open' = open \ Handle!Freed(prov, k)
        /\ UNCHANGED <<prov, call>>
    BY DEF Handle!CryptoKeyRelease
  <1>2. prov \in Apis /\ k # "prov"
    BY <1>1, HandleAssumption DEF HandleInv
  <1>3. Handle!Freed(prov, k) = {<<k, f>> : f \in Handle!KeyFields(prov)}
    BY <1>2 DEF Handle!Freed, Handle!Release, Handle!KeyFields, Handle!ICngKey_Release,
         Handle!ICryptoApiKey_Release, Apis
  <1>4. Taken = {} /\ Taken' = {} /\ ~Handle!Running'
    BY <1>1 DEF Taken, Handle!Running
  <1>5. Complete' = Complete \ {<<k, f>> : f \in Handle!KeyFields(prov)}
    <2>1. Complete' = ({"prov"} \X Handle!ProvFields(prov)) \cup ((keys \ {k}) \X Handle!KeyFields(prov))
      BY <1>1 DEF Complete
    <2> QED BY <1>2, <2>1 DEF Complete
  <1>6. open' = Complete' \cup Taken'
    BY <1>1, <1>3, <1>4, <1>5 DEF HandleInv
  <1>7. extra' \in [Keys -> Data \cup {NULL}] /\ \A n \in Keys \ keys' : extra'[n] = NULL
    BY <1>1 DEF HandleInv
  <1> QED BY <1>1, <1>4, <1>6, <1>7 DEF HandleInv, RunsFor

\* ... and wWinMain the provider with its own.
LEMMA CryptReleaseKeeps ==
  ASSUME HandleInv, Handle!CryptRelease
  PROVE  HandleInv'
  <1>1. /\ ~Handle!Running /\ prov # NULL /\ keys = {} /\ prov' = NULL
        /\ open' = open \ Handle!Freed(prov, "prov") /\ UNCHANGED <<keys, extra, call>>
    BY DEF Handle!CryptRelease
  <1>2. prov \in Apis
    BY <1>1 DEF HandleInv
  <1>3. Handle!Freed(prov, "prov") = {"prov"} \X Handle!ProvFields(prov)
    BY <1>2 DEF Handle!Freed, Handle!Release, Handle!ProvFields, Handle!ICngProv_Release,
         Handle!ICryptoApiProv_Release, Apis
  <1>4. Taken = {} /\ Taken' = {} /\ ~Handle!Running'
    BY <1>1 DEF Taken, Handle!Running
  <1>5. open' = {}
    BY <1>1, <1>3, <1>4 DEF HandleInv, Complete
  <1>6. Complete' = {}
    BY <1>1, HandleAssumption DEF Complete, Handle!ProvFields
  <1> QED BY <1>1, <1>4, <1>5, <1>6 DEF HandleInv, RunsFor

\* A function begins for an object that it may be called for.
LEMMA CallBegins ==
  ASSUME HandleInv, ~Handle!Running, NEW fn \in Makers \cup Users, NEW api \in Apis, NEW o, NEW from,
         Handle!Begin(fn, api, o, from), UNCHANGED <<prov, keys, extra, open>>,
         fn = "Init" => o = "prov" /\ prov = NULL,
         fn # "Init" => o \in Keys /\ api = prov,
         fn \in {"InitKey", "Clone"} => o \notin keys,
         fn = "InitKey" => from \in Data \cup {NULL},
         fn = "Clone" => from \in keys,
         fn \in Users => o \in keys
  PROVE  HandleInv'
  <1>1. /\ Handle!Running' /\ Taken' = {}
        /\ call'.fn = fn /\ call'.api = api /\ call'.o = o /\ call'.from = from /\ call'.pc = 1
        /\ 1 \in 1 .. Len(Handle!Steps(api, fn)) + 1
        /\ call' = [fn |-> call'.fn, api |-> call'.api, o |-> call'.o, from |-> call'.from, pc |-> call'.pc]
    BY BeginsWithNothing
  <1>2. RunsFor'
    BY <1>1 DEF RunsFor
  <1>3. open' = Complete' \cup Taken'
    BY <1>1, NotRunning DEF HandleInv, Complete
  <1> QED BY <1>1, <1>2, <1>3 DEF HandleInv

\* At first there is nothing.
LEMMA HandlesStart == Handle!Init => HandleInv
  <1> SUFFICES ASSUME Handle!Init PROVE HandleInv
    OBVIOUS
  <1>1. /\ prov = NULL /\ keys = {} /\ open = {} /\ ~Handle!Running
        /\ extra = [k \in Keys |-> NULL]
    BY DEF Handle!Init, Handle!Running
  <1>2. Complete = {}
    BY <1>1, HandleAssumption DEF Complete, Handle!ProvFields
  <1> QED BY <1>1, <1>2, NotRunning DEF HandleInv, RunsFor

\* Every call, its success or failure, every return and every request keep it.
LEMMA HandlesKeep ==
  ASSUME HandleInv, [Handle!Next]_(Handle!vars)
  PROVE  HandleInv'
  <1>1. CASE Handle!StepSucceeds
    BY <1>1, SucceedsKeeps
  <1>2. CASE Handle!StepFails
    BY <1>2, FailsKeeps
  <1>3. CASE Handle!Return
    BY <1>3, ReturnKeeps
  <1>4. CASE Handle!CryptInit
    <2>1. /\ ~Handle!Running /\ prov = NULL /\ Handle!Begin("Init", "CNG", "prov", NULL)
          /\ UNCHANGED <<prov, keys, extra, open>>
      BY <1>4 DEF Handle!CryptInit
    <2>2. "Init" \in Makers \cup Users /\ "CNG" \in Apis /\ "Init" \notin Users
      BY DEF Makers, Users, Apis
    <2> QED BY <2>1, <2>2, CallBegins
  <1>5. CASE Handle!CryptRelease
    BY <1>5, CryptReleaseKeeps
  <1>6. ASSUME NEW k \in Keys, NEW d \in Data \cup {NULL}, Handle!CryptoProvInitKey(k, d) PROVE HandleInv'
    <2>1. /\ ~Handle!Running /\ prov # NULL /\ k \notin keys /\ Handle!Begin("InitKey", prov, k, d)
          /\ UNCHANGED <<prov, keys, extra, open>>
      BY <1>6 DEF Handle!CryptoProvInitKey
    <2>2. "InitKey" \in Makers \cup Users /\ prov \in Apis /\ "InitKey" \notin Users
      BY <2>1 DEF Makers, Users, HandleInv
    <2> QED BY <2>1, <2>2, CallBegins
  <1>7. ASSUME NEW k \in Keys, NEW from \in Keys, Handle!CryptoKeyClone(k, from) PROVE HandleInv'
    <2>1. /\ ~Handle!Running /\ from \in keys /\ k \notin keys /\ Handle!Begin("Clone", prov, k, from)
          /\ UNCHANGED <<prov, keys, extra, open>>
      BY <1>7 DEF Handle!CryptoKeyClone
    <2>2. "Clone" \in Makers \cup Users /\ prov \in Apis /\ "Clone" \notin Users
      BY <2>1 DEF Makers, Users, HandleInv
    <2> QED BY <2>1, <2>2, CallBegins
  <1>8. ASSUME NEW k \in Keys, NEW fn \in {"Page", "Sign"}, Handle!CryptoKeyPage(fn, k) PROVE HandleInv'
    <2>1. /\ ~Handle!Running /\ k \in keys /\ Handle!Begin(fn, prov, k, NULL)
          /\ UNCHANGED <<prov, keys, extra, open>>
      BY <1>8 DEF Handle!CryptoKeyPage
    <2>2. fn \in Makers \cup Users /\ prov \in Apis /\ fn \notin Makers
      BY <2>1 DEF Makers, Users, HandleInv
    <2> QED BY <2>1, <2>2, CallBegins DEF Makers
  <1>9. ASSUME NEW k \in Keys, Handle!CryptoKeyRelease(k) PROVE HandleInv'
    BY <1>9, KeyReleaseKeeps
  <1>10. CASE UNCHANGED Handle!vars
    <2>1. UNCHANGED <<prov, keys, extra, open, call>>
      BY <1>10 DEF Handle!vars
    <2>2. Complete' = Complete /\ Taken' = Taken
      BY <2>1 DEF Complete, Taken, Handle!Running, Got
    <2> QED BY <2>1, <2>2 DEF HandleInv, RunsFor, Handle!Running
  <1> QED BY <1>1, <1>2, <1>3, <1>4, <1>5, <1>6, <1>7, <1>8, <1>9, <1>10 DEF Handle!Next

\* What the invariant says between two calls, and during one.
LEMMA HandlesPromise ==
  HandleInv => /\ Handle!TypeOK /\ Handle!NoHandleLeft
               /\ Handle!KeysUnderProvider /\ Handle!WipedWhenFreed
  <1> SUFFICES ASSUME HandleInv
               PROVE  /\ Handle!TypeOK /\ Handle!NoHandleLeft
                      /\ Handle!KeysUnderProvider /\ Handle!WipedWhenFreed
    OBVIOUS
  <1>r. Handle!Running =>
          /\ call.fn \in Makers \cup Users /\ call.api \in Apis
          /\ Taken \subseteq {call.o} \X Whole(call.api, call.fn)
          /\ call.pc \in 0 .. 8
          /\ call.o \in Keys \cup {"prov"}
    <2> SUFFICES ASSUME Handle!Running
                 PROVE  /\ call.fn \in Makers \cup Users /\ call.api \in Apis
                        /\ Taken \subseteq {call.o} \X Whole(call.api, call.fn)
                        /\ call.pc \in 0 .. 8
                        /\ call.o \in Keys \cup {"prov"}
      OBVIOUS
    <2>1. /\ call.fn \in Makers \cup Users /\ call.api \in Apis
          /\ call.pc - 1 \in 0 .. Len(Handle!Steps(call.api, call.fn)) /\ call.pc \in Nat
          /\ Len(Handle!Steps(call.api, call.fn)) \in 1 .. 7
          /\ Taken = {call.o} \X Got(call.api, call.fn, call.pc - 1)
      BY RunsNow
    <2>2. Got(call.api, call.fn, call.pc - 1) \subseteq Whole(call.api, call.fn)
      BY <2>1, GotSoFar
    <2>3. call.o \in Keys \cup {"prov"}
      BY DEF HandleInv, RunsFor
    <2>4. Taken \subseteq {call.o} \X Whole(call.api, call.fn)
      BY <2>1, <2>2, Zenon
    <2>5. call.pc \in 0 .. 8
      <3> DEFINE n == Len(Handle!Steps(call.api, call.fn))
                 m == call.pc
      <3>1. n \in 1 .. 7 /\ m \in Nat /\ m - 1 \in 0 .. n
        BY <2>1, Zenon
      <3> HIDE DEF n, m
      <3>2. m \in 0 .. 8
        BY <3>1
      <3> QED BY <3>2 DEF m
    <2> QED BY <2>1, <2>3, <2>4, <2>5, Zenon
  <1>f. \A api \in Apis, fn \in Makers \cup Users : Whole(api, fn) \subseteq Handle!Fields
    BY DEF Whole, Handle!ProvFields, Handle!KeyFields, Handle!Fields, Apis
  <1>c. Complete \subseteq (Keys \cup {"prov"}) \X Handle!Fields
    BY DEF HandleInv, Complete, Handle!ProvFields, Handle!KeyFields, Handle!Fields
  <1>1. Handle!TypeOK
    <2>1. Taken \subseteq (Keys \cup {"prov"}) \X Handle!Fields
      BY <1>r, <1>f DEF Taken
    <2>2. call.pc \in 0 .. 8
      BY <1>r, NotRunning DEF Handle!Idle
    <2> QED BY <1>c, <2>1, <2>2 DEF HandleInv, Handle!TypeOK, Apis
  <1>2. Handle!NoHandleLeft
    BY NotRunning DEF Handle!NoHandleLeft, HandleInv, Complete
  <1>3. Handle!KeysUnderProvider
    <2> SUFFICES ASSUME NEW h \in open, h[1] # "prov"
                 PROVE  prov # NULL /\ {"prov"} \X Handle!ProvFields(prov) \subseteq open
      BY DEF Handle!KeysUnderProvider
    <2>1. {"prov"} \X Handle!ProvFields(prov) \subseteq open
      BY DEF HandleInv, Complete
    <2>2. CASE h \in Complete
      <3>1. keys # {}
        BY <2>2 DEF Complete
      <3> QED BY <2>1, <3>1 DEF HandleInv
    <2>3. CASE h \in Taken
      <3>1. Handle!Running
        BY <2>3 DEF Taken
      <3>2. h[1] = call.o
        BY <1>r, <2>3, <3>1
      <3>3. call.fn # "Init" /\ call.api = prov
        BY <3>1, <3>2 DEF HandleInv, RunsFor
      <3> QED BY <1>r, <2>1, <3>1, <3>3, HandleAssumption DEF Apis
    <2> QED BY <2>2, <2>3 DEF HandleInv
  <1>4. Handle!WipedWhenFreed
    <2> SUFFICES ASSUME NEW k \in Keys, extra[k] # NULL PROVE <<k, "block">> \in open
      BY DEF Handle!WipedWhenFreed
    <2>1. k \in keys
      BY DEF HandleInv
    <2> QED BY <2>1 DEF HandleInv, Complete, Handle!KeyFields
  <1> QED BY <1>1, <1>2, <1>3, <1>4

\* CryptoAPI's turn ends the set-up, with nothing of CNG left.
LEMMA SetUpFallsBack ==
  ASSUME HandleInv, [Handle!Next]_(Handle!vars), HandleInv'
  PROVE  [call.fn = "Init" /\ call'.fn # "Init" /\ prov' # "CNG" =>
            /\ call.api = "CryptoAPI"
            /\ \A h \in open' : h[2] \notin Handle!ICngProv_Release]_(Handle!vars)
  <1> SUFFICES ASSUME call.fn = "Init", call'.fn # "Init", prov' # "CNG"
               PROVE  /\ call.api = "CryptoAPI"
                      /\ \A h \in open' : h[2] \notin Handle!ICngProv_Release
    OBVIOUS
  <1>1. Handle!Running
    BY DEF Handle!Running, Handle!Idle
  <1>2. /\ call.api \in Apis /\ prov = NULL /\ keys = {}
    BY <1>1 DEF HandleInv, RunsFor
  <1>3. Handle!StepFails \/ Handle!Return
    <2>1. ~Handle!StepSucceeds
      <3>1. call = [fn |-> call.fn, api |-> call.api, o |-> call.o, from |-> call.from, pc |-> call.pc]
        BY <1>1, RunsNow
      <3> QED BY <3>1 DEF Handle!StepSucceeds
    <2>2. ~UNCHANGED Handle!vars
      BY DEF Handle!vars
    <2> QED BY <1>1, <2>1, <2>2
         DEF Handle!Next, Handle!CryptInit, Handle!CryptRelease, Handle!CryptoProvInitKey,
             Handle!CryptoKeyClone, Handle!CryptoKeyPage, Handle!CryptoKeyRelease
  <1>4. call' = Handle!Idle
    BY <1>3 DEF Handle!Return, Handle!StepFails, Handle!InitCryptoProv, Handle!Begin
  <1>5. open' = Complete'
    <2>1. ~Handle!Running'
      BY <1>4 DEF Handle!Running
    <2> QED BY <2>1 DEF HandleInv, Taken
  <1>6. CASE Handle!StepFails
    <2>1. call.api = "CryptoAPI"
      <3>1. call.api # "CNG"
        BY <1>6 DEF Handle!StepFails, Handle!InitCryptoProv, Handle!Begin
      <3> QED BY <1>2, <3>1 DEF Apis
    <2>2. prov' = NULL /\ keys' = {}
      BY <1>2, <1>6 DEF Handle!StepFails
    <2>3. Complete' = {}
      BY <2>2, HandleAssumption DEF Complete, Handle!ProvFields
    <2> QED BY <1>5, <2>1, <2>3
  <1>7. CASE Handle!Return
    <2>1. prov' = call.api /\ keys' = keys
      BY <1>7 DEF Handle!Return, Handle!InitDone, Handle!KeyDone, Handle!PageDone
    <2>2. call.api = "CryptoAPI" /\ prov' = "CryptoAPI" /\ keys' = {}
      BY <1>2, <2>1 DEF Apis
    <2>3. Complete' = {"prov"} \X {"block", "prov"}
      BY <2>2 DEF Complete, Handle!ProvFields
    <2> QED BY <1>5, <2>2, <2>3 DEF Handle!ICngProv_Release
  <1> QED BY <1>3, <1>6, <1>7

\* Whichever call into Windows fails, in whichever function, exactly the handles of
\* complete objects are left, and the fallback starts from nothing (AppCrypto.c).
THEOREM HandlesAreRight == Handle!Init /\ [][Handle!Next]_(Handle!vars) => HandlesRight
  <1>1. HandleInv /\ [Handle!Next]_(Handle!vars) => HandleInv'
    BY HandlesKeep
  <1>2. Handle!Init /\ [][Handle!Next]_(Handle!vars) => []HandleInv
    BY HandlesStart, <1>1, PTL
  <1>3. HandleInv /\ HandleInv' /\ [Handle!Next]_(Handle!vars) =>
          [call.fn = "Init" /\ call'.fn # "Init" /\ prov' # "CNG" =>
            /\ call.api = "CryptoAPI"
            /\ \A h \in open' : h[2] \notin Handle!ICngProv_Release]_(Handle!vars)
    BY SetUpFallsBack
  <1> QED BY <1>2, <1>3, HandlesPromise, PTL DEF HandlesRight, Handle!FallsBack

-----------------------------------------------------------------------------
(* The process as a whole: whatever its parts do side by side, each keeps  *)
(* what it promises.                                                       *)

\* Every step is one of a part or leaves it alone.
LEMMA ProcessSteps ==
  [ProcessNext]_allVars =>
    /\ [Next]_vars /\ [TrimNext]_trimVars /\ [App!Next]_(App!vars)
    /\ [Handle!Next]_(Handle!vars) /\ [Derive!Next]_(Derive!vars)
  <1> SUFFICES ASSUME [ProcessNext]_allVars
               PROVE  /\ [Next]_vars /\ [TrimNext]_trimVars /\ [App!Next]_(App!vars)
                      /\ [Handle!Next]_(Handle!vars) /\ [Derive!Next]_(Derive!vars)
    OBVIOUS
  <1> USE DEF LoaderStep, TrimStep, AppStep, HandleStep, DeriveStep, Elsewhere, vars,
       trimVars, appVars, handleVars, deriveVars, App!vars, Handle!vars, Derive!vars
  <1>1. CASE LoaderStep
    BY <1>1
  <1>2. CASE TrimStep
    BY <1>2
  <1>3. CASE AppStep
    BY <1>3
  <1>4. CASE HandleStep
    BY <1>4
  <1>5. CASE DeriveStep
    BY <1>5
  <1>6. CASE UNCHANGED allVars
    BY <1>6 DEF allVars
  <1> QED BY <1>1, <1>2, <1>3, <1>4, <1>5, <1>6 DEF ProcessNext

\* All the process promises of its parts, whichever of them run.
THEOREM ProcessIsRight ==
    ProcessSpec => /\ [](LoaderRight /\ TrimRight /\ LifecycleRight /\ DerivesRight)
                   /\ HandlesRight
  <1>1. ProcessInit => Init /\ TrimInit /\ App!Init /\ Handle!Init /\ Derive!Init
    BY DEF ProcessInit
  <1>2. ProcessSpec => Spec
    BY <1>1, ProcessSteps, PTL DEF ProcessSpec, Spec
  <1>3. ProcessSpec => []TrimInv
    BY <1>1, ProcessSteps, InitTrimInv, NextTrimInv, PTL DEF ProcessSpec
  <1>4. ProcessSpec => []LifeInv
    BY <1>1, ProcessSteps, InitLifeInv, NextLifeInv, PTL DEF ProcessSpec
  <1>5. ProcessSpec => []DeriveInv
    BY <1>1, ProcessSteps, InitDeriveInv, NextDeriveInv, PTL DEF ProcessSpec
  <1>6. TrimInv => TrimRight
    BY TrimInvStays DEF TrimInv, TrimRight
  <1>7. ProcessSpec => HandlesRight
    BY <1>1, ProcessSteps, HandlesAreRight, PTL DEF ProcessSpec
  <1> QED
    BY <1>2, <1>3, <1>4, <1>5, <1>6, <1>7, LoaderIsRight, LifeInvRight, DeriveInvRight, PTL
=============================================================================
