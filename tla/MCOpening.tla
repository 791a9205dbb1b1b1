----------------------------- MODULE MCOpening -----------------------------
(* Two files, so that one is let go for another; the right password and       *)
(* another one; one title.                                                    *)
EXTENDS Opening
MCPasswords == {"right", "wrong"}
MCTitles == {"", "t"}
=============================================================================
