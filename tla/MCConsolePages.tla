--------------------------- MODULE MCConsolePages ---------------------------
(***************************************************************************)
(* Instances of ConsolePages for TLC.                                       *)
(***************************************************************************)
EXTENDS ConsolePages

CONSTANTS r1, r2

MCRows == {r1, r2}

\* Every control with every key that it changes or fills, and every page without controls
\* with the keys it shows.
MCSlices ==
  UNION {UNION {{[page |-> p, name |-> n, uses |-> {c}] :
                   n \in Calls[c.call].affects \cup Calls[c.call].invalidates} :
                c \in Pages[p].controls} : p \in DOMAIN Pages}
    \cup UNION {{[page |-> p, name |-> n, uses |-> {}] : n \in Pages[p].shows} :
                p \in DOMAIN Pages}

\* Two controls that meet in one entry: an answer that fills it and one that only marks it,
\* two that fill it, and a dialog that is held beside one that is not.
MCPairs ==
  {[page |-> "user", name |-> "users.detail",
     uses |-> {c \in UserDetail.controls : c.name \in {"edit", "lock"}}],
   [page |-> "alerts", name |-> "alerts.event",
     uses |-> {AckAlertDialog("picked"), ResolveAlertDialog("picked")}],
   [page |-> "settings", name |-> "settings.list", uses |-> {SettingValueEditor, ResetToDefault}],
   [page |-> "groups", name |-> "groups.list", uses |-> GroupsList.controls]}

MCAllSlices == MCSlices \cup MCPairs
=============================================================================
