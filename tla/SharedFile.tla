----------------------------- MODULE SharedFile -----------------------------
(***************************************************************************)
(* What several SafeEditors promise each other about one file: any number  *)
(* of them may read it, or exactly one may write it, never both, and a     *)
(* process that sees the file sees all that was saved before.              *)
(***************************************************************************)
CONSTANT Processes

VARIABLES
    content,   \* what is saved in the file
    readers,   \* the processes that have it open read-only
    writers,   \* the processes that have it open read-write
    seen       \* the saved content each process works from

sharedVars == <<content, readers, writers, seen>>

SharedInit == readers = {} /\ writers = {}

BeginReading(p) ==
    /\ writers = {}
    /\ readers' = readers \cup {p}
    /\ seen' = [seen EXCEPT ![p] = content]
    /\ UNCHANGED <<content, writers>>

BeginWriting(p) ==
    /\ readers = {} /\ writers = {}
    /\ writers' = {p}
    /\ seen' = [seen EXCEPT ![p] = content]
    /\ UNCHANGED <<content, readers>>

\* Only the process that writes changes the content.
Write(p) ==
    /\ writers = {p}
    /\ seen' = [seen EXCEPT ![p] = content']
    /\ UNCHANGED <<readers, writers>>

\* Closing, with or without saving first.
End(p) ==
    /\ p \in readers \cup writers
    /\ readers' = readers \ {p}
    /\ writers' = writers \ {p}
    /\ p \in readers => UNCHANGED content
    /\ UNCHANGED seen

SharedNext ==
    \E p \in Processes : BeginReading(p) \/ BeginWriting(p) \/ Write(p) \/ End(p)

SharedSpec == SharedInit /\ [][SharedNext]_sharedVars
=============================================================================
