------------------------------ MODULE MCWindow ------------------------------
\* Client heights around the least one, positions of the mouse inside and outside,
\* two titles.
EXTENDS Window

MCClients == {0} \cup 7..11
MCCursors == -3..12
MCTitles == {"new", "other"}
=============================================================================
