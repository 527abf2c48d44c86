--------------------------- MODULE StylesheetTable ---------------------------
(***************************************************************************)
(* What the StylesheetManager promises of its table: a stylesheet enters   *)
(* it only as the content its file had when the reader that is installed   *)
(* last opened it.  Files change as their authors like.                    *)
(***************************************************************************)
CONSTANTS Names, Absent, Fallback, BuiltIn

VARIABLES
    files,    \* name -> the content of its file, or Absent
    reader,   \* the file that was opened last, and what it held
    table     \* name -> the content that tiles are drawn with, or Absent

Init ==
    /\ reader = [name |-> Absent, content |-> Absent]
    /\ table = [n \in Names |-> Absent]

Edit == files' # files /\ UNCHANGED <<reader, table>>

Open(n) ==
    /\ files[n] # Absent
    /\ reader' = [name |-> n, content |-> files[n]]
    /\ UNCHANGED <<files, table>>

Install ==
    /\ reader.name # Absent
    /\ table' = [table EXCEPT ![reader.name] = reader.content]
    /\ UNCHANGED <<files, reader>>

\* The style that needs no file.
Provide ==
    /\ table' = [table EXCEPT ![Fallback] = BuiltIn]
    /\ UNCHANGED <<files, reader>>

Drop(n) ==
    /\ table' = [table EXCEPT ![n] = Absent]
    /\ UNCHANGED <<files, reader>>

Next == Edit \/ Install \/ Provide \/ \E n \in Names : Open(n) \/ Drop(n)

Spec == Init /\ [][Next]_<<files, reader, table>>
=============================================================================
