------------------------------ MODULE MCEditor ------------------------------
(* Small instances of Editor for TLC. *)
EXTENDS Editor, TLC

MCTexts == {"", "a"}

\* A blank that is trimmed away, and a text.
MCTyped == {" ", "a"}
MCTrim == " " :> "" @@ "a" :> "a"

OneItem == InsertItem(CreateSchema, FileRecord, "a")
TwoLevels == InsertItem(OneItem, 1, "a")

\* A new file, an empty one, one with a protected item, and one whose
\* deepest item is not shown at first.
MCFiles == {EmptyContent, CreateSchema, SetReadOnly(OneItem, 1, TRUE), TwoLevels}
=============================================================================
