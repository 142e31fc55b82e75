-------------------------- MODULE MCDirectorySync --------------------------
(***************************************************************************)
(* Small directories for DirectorySync.                                    *)
(***************************************************************************)
EXTENDS DirectorySync, TLC

CONSTANTS u1, u2, n1, n2, a1, a2, c1, c2

AllRequests == {"create", "update", "delete", "lock", "reset_mfa", "resolve"}
Creates     == {"create", "resolve"}
Safe        == {"create_db", "sync_attribute", "ignore"}
Destructive == {"create_db", "delete_ldap", "delete_db", "sync_attribute", "ignore"}
\* Users, names, administrators and scanners are interchangeable: no
\* definition names one of them.
Symmetry == Permutations({u1, u2}) \cup Permutations({n1, n2})
            \cup Permutations({a1, a2}) \cup Permutations({c1, c2})
=============================================================================
