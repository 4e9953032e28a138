---------------------------- MODULE SnapshotSpec ----------------------------
(* What the aircraft store promises the rest of the server, with no          *)
(* refreshes, generations or breaker: it shows traffic for the box it is      *)
(* asked to watch, keeps the last traffic when a refresh fails, and a switch  *)
(* of the box alone neither clears nor replaces what is shown.                *)
CONSTANTS Box, BootBox,
          List,         \* aircraft lists; l.box is the box l was asked for
          NoList        \* what is shown before the first list

VARIABLES box,          \* the box being watched
          shown,        \* the aircraft list served to readers
          failed        \* whether an error is reported beside it

vars == <<box, shown, failed>>

Init == /\ box = BootBox
        /\ shown = NoList
        /\ failed = FALSE

Switch == /\ box' \in Box \ {box}
          /\ UNCHANGED <<shown, failed>>

\* A list enters the store only as traffic of the box watched at that moment.
Update == /\ shown' \in {l \in List : l.box = box}
          /\ failed' = FALSE
          /\ UNCHANGED box

Fail == /\ failed' = TRUE
        /\ UNCHANGED <<box, shown>>

Next == Switch \/ Update \/ Fail

Spec == Init /\ [][Next]_vars
=============================================================================
