------------------------------ MODULE TaskTable ------------------------------
(***************************************************************************)
(* The tasks table as every process that opens the file finds it, whatever *)
(* statement the others are at: it is there or not, columns come one by    *)
(* one, the legacy columns go at one stroke with every row in place, and a *)
(* row is written only where its teacher's column is.                      *)
(***************************************************************************)
CONSTANT Writers   \* each writes a row of its own

VARIABLES columns, rows

table == <<columns, rows>>

(* An older release has left its columns and some rows, or nothing.        *)
Init ==
  /\ columns \subseteq {"id", "celery", "legacy"}
  /\ columns = {} => rows = {}

Create ==
  /\ columns = {}
  /\ columns' = {"id", "celery"}
  /\ UNCHANGED rows

AddColumn(c) ==
  /\ columns # {}
  /\ columns' = columns \cup {c}
  /\ UNCHANGED rows

DropLegacyColumns ==
  /\ columns # {}
  /\ columns' = {"id", "celery", "teacher"}
  /\ UNCHANGED rows

Insert(w) ==
  /\ "teacher" \in columns
  /\ rows' = rows \cup {w}
  /\ UNCHANGED columns

Next ==
  \/ Create \/ DropLegacyColumns
  \/ \E c \in {"celery", "teacher"} : AddColumn(c)
  \/ \E w \in Writers : Insert(w)

Spec == Init /\ [][Next]_table
=============================================================================
