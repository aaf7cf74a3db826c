----------------------------- MODULE AuthTokens -----------------------------
(***************************************************************************)
(* The server's side of a login session: pairs of an access token (a JWT,  *)
(* checked by signature, expiry and a blacklist in Redis) and a refresh    *)
(* token (a row of "refresh_tokens"), under login, refresh and logout as   *)
(* overlapping READ COMMITTED transactions.  One user with one account;    *)
(* ClientSession adds the browser that sends these requests.               *)
(*                                                                         *)
(* Time is left out: any check may find its token expired.  Access tokens  *)
(* are accepted or refused freely, since a blacklist entry can be missing  *)
(* or unreadable: Redis may be down, when it is written or when it is      *)
(* read, and the entry lives for the whole seconds left, int() of the      *)
(* remaining time, while jose accepts a token to the end of that second.   *)
(***************************************************************************)
EXTENDS Naturals, FiniteSets

CONSTANTS
  Pairs,  \* identifiers of token pairs, used again once nobody holds them
  Calls,  \* calls the browser can have in flight at once
  Nil

ASSUME PairsAssumption == Pairs \subseteq Nat /\ Nil \notin Pairs

VARIABLES
  record,      \* the committed row of the pair's refresh token
  open,        \* transactions that only have to commit
  call,        \* call[c]: a call of the browser and where it has got to
  commitFirst  \* which of the two orders of commit and answer FastAPI uses

ServerStages == {"request", "login", "rotate", "revoke", "logout", "withdraw", "written"}
AnswerStages == {"denied", "refused", "failed", "granted", "bye"}

(***************************************************************************)
(* rt is the refresh token sent, new the pair issued.  alone: no other     *)
(* transaction has been open since this one's SELECT (only the properties  *)
(* look at it).                                                            *)
(***************************************************************************)
Call == [kind : {"api", "login", "logout"},
         stage : {"idle"} \cup ServerStages \cup AnswerStages,
         rt : Pairs \cup {Nil}, new : Pairs \cup {Nil}, retried : BOOLEAN, alone : BOOLEAN]

Idle == [kind |-> "api", stage |-> "idle", rt |-> Nil, new |-> Nil, retried |-> FALSE, alone |-> FALSE]

ServerTypeOK ==
  /\ record \in [Pairs -> {"none", "valid", "revoked"}]
  /\ open \subseteq [call : Calls, old : Pairs \cup {Nil}, new : Pairs \cup {Nil}]
  /\ call \in [Calls -> Call]
  /\ commitFirst \in BOOLEAN

At(c, stage) == call[c].stage = stage
Go(c, r) == call' = [call EXCEPT ![c] = r]
Answer(c, stage) == Go(c, [call[c] EXCEPT !.stage = stage, !.alone = FALSE])

\* a transaction has read its row: from here on others overlap it
Enter(c, stage) ==
  LET others == {d \in Calls \ {c} : call[d].stage \in {"revoke", "withdraw", "written"}} IN
  call' = [d \in Calls |->
             IF d = c THEN [call[c] EXCEPT !.stage = stage, !.alone = others = {} /\ open = {}]
             ELSE [call[d] EXCEPT !.alone = FALSE]]

Txn(c) == [call |-> c, old |-> call[c].rt, new |-> call[c].new]

\* pairs somebody could still present
Held == (UNION {{call[c].rt, call[c].new} : c \in Calls}) \cup (UNION {{x.old, x.new} : x \in open})

-----------------------------------------------------------------------------
\* get_current_user in front of any protected route
Authenticate(c, token) ==
  /\ At(c, "request")
  /\ \/ token # Nil /\ Go(c, Idle)
     \/ Answer(c, "denied")
  /\ UNCHANGED <<record, open, commitFirst>>

\* _generate_tokens: sign both, INSERT the hash of the refresh token
Issue(c, free) ==
  /\ \E p \in free :
       /\ \A q \in free : p <= q
       /\ Go(c, [call[c] EXCEPT !.stage = "written", !.new = p])
       /\ record' = [q \in Pairs |-> IF q \in free THEN "none" ELSE record[q]]
       /\ open' = open \cup {[call |-> c, old |-> call[c].rt, new |-> p]}
  /\ UNCHANGED commitFirst

\* login: the password is right or it is not
Login(c, free) ==
  /\ At(c, "login")
  /\ \/ Issue(c, free)
     \/ Answer(c, "denied") /\ UNCHANGED <<record, open, commitFirst>>

\* mutation: is_valid looks at the expiry only
ValidUnlessExpired(p) == record[p] # "none"

IsValid(p) == record[p] = "valid"

\* refresh_access_token: the SELECT and the check of is_valid
FindToken(c) ==
  /\ At(c, "rotate")
  /\ \/ IsValid(call[c].rt) /\ Enter(c, "revoke")
     \/ Answer(c, "refused")
  /\ UNCHANGED <<record, open, commitFirst>>

\* the UPDATE of revoke keeps the row locked until the commit
Locked(p) == p # Nil /\ \E x \in open : x.old = p

\* ... its UPDATE, and the new pair
Rotate(c, free) == At(c, "revoke") /\ ~Locked(call[c].rt) /\ Issue(c, free)

\* logout: a refresh token that is not in the table is ignored
FindLogout(c) ==
  /\ At(c, "logout")
  /\ IF record[call[c].rt] # "none"
       THEN Enter(c, "withdraw")
       ELSE Go(c, [call[c] EXCEPT !.stage = "withdraw", !.rt = Nil])
  /\ UNCHANGED <<record, open, commitFirst>>

\* ... revoke and blacklist_token, which swallows its errors
Withdraw(c) ==
  /\ At(c, "withdraw") /\ ~Locked(call[c].rt)
  /\ open' = open \cup {Txn(c)}
  /\ Go(c, [call[c] EXCEPT !.stage = "written"])
  /\ UNCHANGED <<record, commitFirst>>

\* the answer waits for the commit (FastAPI before 0.118) or the commit for the answer
Respond(c) ==
  /\ At(c, "written")
  /\ commitFirst => Txn(c) \notin open
  /\ Answer(c, IF call[c].kind = "logout" THEN "bye" ELSE "granted")
  /\ UNCHANGED <<record, open, commitFirst>>

Waiting(x) == At(x.call, "written") /\ Txn(x.call) = x

\* mutation: the row of the old token is not written
CommitNewOnly(x) ==
  /\ commitFirst \/ ~Waiting(x)
  /\ record' = [p \in Pairs |-> IF p = x.new THEN "valid" ELSE record[p]]
  /\ open' = open \ {x}
  /\ UNCHANGED <<commitFirst, call>>

Commit(x) ==
  /\ commitFirst \/ ~Waiting(x)
  /\ record' = [p \in Pairs |-> IF p = x.old THEN "revoked" ELSE IF p = x.new THEN "valid" ELSE record[p]]
  /\ open' = open \ {x}
  /\ UNCHANGED <<commitFirst, call>>

\* the commit raises: a client that has not been answered gets an error
CommitFails(x) ==
  /\ commitFirst \/ ~Waiting(x)
  /\ open' = open \ {x}
  /\ IF Waiting(x) THEN Answer(x.call, "failed") ELSE UNCHANGED call
  /\ UNCHANGED <<record, commitFirst>>

\* lost request, 60-second timeout: rollback, and an error without the status 401
Cancel(c) ==
  /\ call[c].stage \in ServerStages \ {"written"}
  /\ Answer(c, "failed")
  /\ UNCHANGED <<record, open, commitFirst>>
=============================================================================
