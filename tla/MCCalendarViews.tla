--------------------------- MODULE MCCalendarViews ---------------------------
(* Small instances of CalendarViews for TLC. *)
EXTENDS CalendarViews, TLC

\* The contents other than Empty are interchangeable.
Symmetry == Permutations(Reader) \cup Permutations(Content \ {Empty})
=============================================================================
