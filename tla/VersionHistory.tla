--------------------------- MODULE VersionHistory ---------------------------
(***************************************************************************)
(* What the versions of a file promise: a history that only grows, one     *)
(* entry per upload and per restored version, of which the file serves the *)
(* latest.  Any entry but the latest may be hidden.                        *)
(***************************************************************************)
EXTENDS Naturals, Sequences

CONSTANT Contents

VARIABLES
  history,  \* the content of each version, oldest first
  hidden,   \* the positions of deleted versions
  served,   \* what a download of the file returns
  checksum  \* the checksum the file row announces: that of some content

vars == <<history, hidden, served, checksum>>

Init ==
  /\ history \in {<<>>} \cup {<<c>> : c \in Contents}   \* a copied file has no versions
  /\ hidden = {}
  /\ served \in Contents /\ checksum = served
  /\ history # <<>> => served = history[1]

Extend(c) ==
  /\ history' = Append(history, c)
  /\ served' = c /\ checksum' = c
  /\ UNCHANGED hidden

Upload == \E c \in Contents : Extend(c)

Revert == \E i \in DOMAIN history \ hidden : Extend(history[i])

Hide ==
  /\ \E i \in 1..Len(history) - 1 : hidden' = hidden \cup {i}
  /\ UNCHANGED <<history, served, checksum>>

Next == Upload \/ Revert \/ Hide

Spec == Init /\ [][Next]_vars
=============================================================================
