----------------------------- MODULE RevisionLog -----------------------------
(***************************************************************************)
(* What the revision store of a scenario promises: an append-only log.     *)
(* Entry n is revision n.  Nothing is ever rewritten, removed or skipped,  *)
(* whatever the editors, the readers and the crashes do.                   *)
(***************************************************************************)
EXTENDS Naturals, Sequences

CONSTANT Entries    \* what can be recorded as a revision

VARIABLE log

LogInit == log = << >>

\* One more entry, and every earlier one as it was.
Record ==
    /\ log' \in Seq(Entries)
    /\ Len(log') = Len(log) + 1
    /\ \A n \in 1..Len(log) : log'[n] = log[n]

LogSpec == LogInit /\ [][Record]_log
=============================================================================
