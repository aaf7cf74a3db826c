---------------------------- MODULE MCFileAccess ----------------------------
(***************************************************************************)
(* FileAccess with two users and two sessions.  Links meet only the file   *)
(* and its owner; the other kinds of request are split in two groups,      *)
(* both with the permissions and the purge that all of them depend on.     *)
(***************************************************************************)
EXTENDS FileAccess, TLC

Access == {"share", "regrant", "unshare", "transfer", "purge"}

MCScopes == {Access \cup {"create_tag", "delete_tag", "assign", "untag", "metadata"},
             Access \cup {"favorite", "unfavorite", "download"},
             {"create_link", "delete_link", "update_link", "get_link", "transfer", "purge"}}

Symmetry == Permutations(Sessions)
=============================================================================
