------------------------------ MODULE Process -------------------------------
(***************************************************************************)
(* The parts of the process that share no state, side by side: start-up    *)
(* and end of the program, the loading of libraries, the handles and the   *)
(* key derivation of the encryption, and TrimWhiteSpace.  As in Window a   *)
(* behaviour takes one of them and runs it as its own specification says.  *)
(***************************************************************************)
EXTENDS LibraryLoader, TrimText

CONSTANTS
    Fonts,                       \* AppLifecycle
    Keys, Data, NULL,            \* CryptoHandles
    HashSize, Lengths, Rounds    \* Pbkdf2

\* "none" stands for the font that there is not.
ASSUME FontsAssumption == "none" \notin Fonts

ASSUME DeriveAssumption ==
    HashSize \in Nat \ {0} /\ Lengths \subseteq Nat /\ Rounds \subseteq Nat

\* No provider is NULL, and the provider is none of the keys.
ASSUME HandleAssumption == NULL \notin {"CNG", "CryptoAPI"} /\ "prov" \notin Keys

VARIABLES
    part,  \* the part that runs
    appPc, step, held, kids, created, fonts, font, editFont, other, file, enabled,
    scheme, treeBk, quit, box, exitCode,
    prov, keys, extra, open, call,
    args, keyPc, keyOpen, keyCount, i, obuf, okey, keyLength, key, result

App == INSTANCE AppLifecycle WITH pc <- appPc
Handle == INSTANCE CryptoHandles
Derive == INSTANCE Pbkdf2 WITH pc <- keyPc, open <- keyOpen, count <- keyCount

appVars == <<appPc, step, held, kids, created, fonts, font, editFont, other, file, enabled,
             scheme, treeBk, quit, box, exitCode>>
handleVars == <<prov, keys, extra, open, call>>
deriveVars == <<args, keyPc, keyOpen, keyCount, i, obuf, okey, keyLength, key, result>>
allVars == <<part, vars, trimVars, appVars, handleVars, deriveVars>>

\* A part that does not run has one of its initial states.
ProcessInit ==
    /\ part \in {"loader", "trim", "app", "handles", "derive"}
    /\ IF part = "loader" THEN TRUE ELSE offered = {} /\ system = [length |-> 1, root |-> FALSE]
    /\ IF part = "trim" THEN TRUE ELSE given = [a \in Indices |-> Nul]
    /\ IF part = "derive" THEN TRUE
       ELSE args = [api |-> "CNG", keyLength |-> 0, rounds |-> 0, fits |-> FALSE]
    /\ Init /\ TrimInit /\ App!Init /\ Handle!Init /\ Derive!Init

LoaderStep == part = "loader" /\ Next
              /\ UNCHANGED <<part, trimVars, appVars, handleVars, deriveVars>>
TrimStep == part = "trim" /\ TrimNext
            /\ UNCHANGED <<part, vars, appVars, handleVars, deriveVars>>
Elsewhere == <<part, vars, trimVars, handleVars, deriveVars>>
AppStep == part = "app" /\ App!Next /\ UNCHANGED Elsewhere
AppProgram == part = "app" /\ App!Program /\ UNCHANGED Elsewhere
HandleStep == part = "handles" /\ Handle!Next
              /\ UNCHANGED <<part, vars, trimVars, appVars, deriveVars>>
HandleProgram == part = "handles" /\ (Handle!StepSucceeds \/ Handle!StepFails \/ Handle!Return)
                 /\ UNCHANGED <<part, vars, trimVars, appVars, deriveVars>>
DeriveStep == part = "derive" /\ Derive!Next
              /\ UNCHANGED <<part, vars, trimVars, appVars, handleVars>>

ProcessNext == LoaderStep \/ TrimStep \/ AppStep \/ HandleStep \/ DeriveStep

\* What the thread does by itself is done; what the user or the codec asks for
\* need not happen.
ProcessSpec ==
    /\ ProcessInit /\ [][ProcessNext]_allVars
    /\ WF_allVars(TrimStep) /\ WF_allVars(AppProgram)
    /\ WF_allVars(HandleProgram) /\ WF_allVars(DeriveStep)

-----------------------------------------------------------------------------
\* However start-up failed or the window went away, the process ends with
\* nothing left but a drop target Windows did not revoke, unless the message loop
\* itself failed, which the exit code says; no error box is closed by a WM_QUIT, no part is used before it
\* is there or after it is gone, fonts outlive their use and the tree has the
\* colour of the scheme (wWinMain, MainWmCreate, MainWmNcDestroy).
LifecycleRight ==
    /\ App!TypeOK /\ App!CleanExit /\ App!ErrorBoxStays
    /\ App!UsesWhatIsThere /\ App!FontInUseExists /\ App!TreeColour

\* Whichever call into Windows failed, exactly the handles of complete objects
\* exist, none outlives its provider, freed memory is wiped, and CryptoAPI's
\* turn comes with nothing of CNG left open (AppCrypto.c).
HandlesRight ==
    /\ [](Handle!TypeOK /\ Handle!NoHandleLeft /\ Handle!KeysUnderProvider /\ Handle!WipedWhenFreed)
    /\ Handle!FallsBack

\* The key derived is that of the definition of PBKDF2, in the caller's buffer,
\* with nothing left open, at no time two clones, and nothing unwiped
\* (ICngProv_Pbkdf2Compute, ICryptoApiProv_Pbkdf2Compute).
DerivesRight ==
    /\ Derive!TypeOK /\ Derive!DerivesDefinition /\ Derive!NoOverrun
    /\ Derive!NothingLeft /\ Derive!OneClone

\* A start that fails and a window that is destroyed end the process, a set-up
\* of the provider ends, and so do the loops of PBKDF2 and TrimWhiteSpace.
EveryCallEnds ==
    /\ (part = "app" /\ appPc = "setup") ~> (appPc = "exited" \/ App!Running)
    /\ App!WindowEnds /\ Handle!InitEnds
    /\ (part = "derive") ~> (keyPc = "done")
    /\ (part = "trim") ~> (phase = "done")
=============================================================================
