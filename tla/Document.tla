------------------------------ MODULE Document ------------------------------
(***************************************************************************)
(* What a SafeEditor file gives its user, with no database in it: the user *)
(* edits a working copy; saving - by the Save command, or by answering Yes *)
(* when the file is closed - moves the working copy into the saved one;    *)
(* closing with No, or a crash, throws the working copy away.              *)
(*                                                                         *)
(* That is so until the file turns direct: from then to the next save every *)
(* edit is saved as it is made and No gives nothing up.  A change of the   *)
(* password may turn it direct, and a storage that is not Reliable may by  *)
(* losing the working copy or by failing to begin a new one.               *)
(*                                                                         *)
(* A file gets its password with the first thing saved; after that only    *)
(* ChangePassword replaces it, and it saves nothing else.                  *)
(***************************************************************************)
CONSTANT Reliable   \* the storage neither loses nor refuses a working copy

VARIABLES
    open,     \* a file is open in the editor
    direct,   \* edits are saved as they are made
    saved,    \* what the next Open will show
    password, \* the password the saved copy needs: {} or {p}
    working   \* what the editor shows

docVars == <<open, direct, saved, password, working>>

DocInit ==
    /\ open = FALSE
    /\ direct = FALSE
    /\ working = saved

OpenDoc ==
    /\ ~open
    /\ open' = TRUE
    /\ working' = saved
    /\ UNCHANGED <<direct, saved, password>>

\* The working copy may become anything.
Edit ==
    /\ open
    /\ saved' = IF direct THEN working' ELSE saved
    /\ UNCHANGED <<open, direct, password>>

\* What is saved goes under the password the file has.
SaveWorking ==
    /\ saved' = working
    /\ password # {} => password' = password

Save ==
    /\ open
    /\ SaveWorking
    /\ direct' \in IF Reliable THEN {FALSE} ELSE BOOLEAN
    /\ UNCHANGED <<open, working>>

\* Nothing is pending when the password is changed.
ChangePassword ==
    /\ open
    /\ working = saved
    /\ direct' \in {direct, TRUE}
    /\ UNCHANGED <<open, saved, working>>

\* A failure of the storage gives the working copy up.
LoseWork ==
    /\ open
    /\ ~Reliable
    /\ working' = saved
    /\ direct' = TRUE
    /\ UNCHANGED <<open, saved, password>>

CloseSaved ==
    /\ open
    /\ open' = FALSE
    /\ direct' = FALSE
    /\ SaveWorking
    /\ UNCHANGED working

\* Answering No, or losing the process.
Discard ==
    /\ open
    /\ open' = FALSE
    /\ direct' = FALSE
    /\ working' = saved
    /\ UNCHANGED <<saved, password>>

DocNext == OpenDoc \/ Edit \/ Save \/ ChangePassword \/ LoseWork \/ CloseSaved \/ Discard

DocSpec == DocInit /\ [][DocNext]_docVars
=============================================================================
