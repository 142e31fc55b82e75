---------------------------- MODULE MCBulkImport ----------------------------
(***************************************************************************)
(* Two batches over two users for BulkImport.                              *)
(***************************************************************************)
EXTENDS BulkImport

CONSTANTS u1, u2

UsersBefore == {{u2}, {u1, u2}}
\* The two orders of both users, one user twice, and a file with lines that
\* cannot be read.
Requests ==
    [kind : {"import", "create", "update", "delete"}, batch : {<<u1, u2>>, <<u2, u1>>},
     unparsed : {0}, stop : {FALSE}]
    \cup [kind : {"import", "update"}, batch : {<<u2, u1>>, <<u1, u1>>},
          unparsed : {0}, stop : {TRUE}]
    \cup [kind : {"import"}, batch : {<<>>, <<u1>>}, unparsed : {1}, stop : {FALSE}]
=============================================================================
