---------------------------- MODULE PageControls ----------------------------
(***************************************************************************)
(* The controls a page of the console is made of.  A control starts one     *)
(* call of ConsoleCalls for a row:                                          *)
(*   row     "page": the row of the page's address;  "picked": the row the  *)
(*           control was opened or clicked for;  "none": no row             *)
(*   dialog  the control is a dialog that is opened first                   *)
(*   locks   it does not send again while its mutation is pending           *)
(*   held    it cannot be closed while its mutation is pending              *)
(*   after   what an accepted call does to the page: "stay", "close" the    *)
(*           dialog, or go to another page                                  *)
(*   keeps   what of a pending call is kept in the control itself and lost  *)
(*           when the page shows a spinner or an error instead of it: a     *)
(*           "flag", its whole "mutation", or "nothing", where the mutation *)
(*           is one of the page (or the page never shows those)             *)
(***************************************************************************)

\* A button that calls at once.  Most have no look at a pending mutation.
Button(name, call, row) ==
  [name |-> name, call |-> call, row |-> row, dialog |-> FALSE,
   locks |-> FALSE, held |-> FALSE, after |-> "stay", keeps |-> "nothing"]

\* A Modal around a form: its buttons are disabled while the mutation is pending, but X,
\* Escape and the backdrop still close it.
Form(name, call, row) ==
  [Button(name, call, row) EXCEPT !.dialog = TRUE, !.locks = TRUE, !.after = "close"]

Held(control)        == [control EXCEPT !.held = TRUE]
Locked(control)      == [control EXCEPT !.locks = TRUE]
Eager(control)       == [control EXCEPT !.locks = FALSE]
Then(control, after) == [control EXCEPT !.after = after]
Keeps(control, what) == [control EXCEPT !.keeps = what]

\* ConfirmDialog keeps itself open until its onConfirm has settled, by a flag of its own.
Confirm(name, call, row) == Keeps(Held(Form(name, call, row)), "flag")

(***************************************************************************)
(* A page: the keys it asks for, the keys without whose data it shows only  *)
(* a spinner or an error, the keys its refresh button asks for again, its   *)
(* controls, and the pages its links lead to.                               *)
(***************************************************************************)
Page(shows, gate, refresh, controls, links) ==
  [shows |-> shows, gate |-> gate, refresh |-> refresh, controls |-> controls, links |-> links]
=============================================================================
