---------------------------- MODULE ClientSession ----------------------------
(***************************************************************************)
(* The browser over AuthTokens: one page, whose calls all go through the   *)
(* axios instance of services/api.ts (access token from localStorage, one  *)
(* refresh and one replay after a 401) and the login, page load and logout *)
(* of contexts/auth-context.tsx.  JavaScript runs one callback at a time;  *)
(* between the sending of a request and its answer other calls run.        *)
(***************************************************************************)
EXTENDS AuthTokens

VARIABLES
  access, refresh,  \* localStorage
  torn              \* the answer that replaced the tokens in localStorage was lost

server == <<record, open, commitFirst>>
browser == <<access, refresh, torn>>
vars == <<server, call, browser>>

TypeOK ==
  /\ ServerTypeOK
  /\ access \in Pairs \cup {Nil} /\ refresh \in Pairs \cup {Nil} /\ torn \in BOOLEAN

Free == Pairs \ (Held \cup {access, refresh})

Drop == access' = Nil /\ refresh' = Nil /\ torn' = FALSE
Keep == UNCHANGED browser

\* bound: the transactions of the last call of c have ended
Rested(c) == At(c, "idle") /\ \A x \in open : x.call # c

\* any request of a page, or fetchUser on loading it
StartApi(c) ==
  /\ Rested(c)
  /\ Answer(c, "request")
  /\ Keep /\ UNCHANGED server

\* the login form: only without a session, and one at a time
StartLogin(c) ==
  /\ refresh = Nil /\ \A d \in Calls : call[d].kind # "login"
  /\ Rested(c)
  /\ Go(c, [Idle EXCEPT !.kind = "login", !.stage = "login"])
  /\ Keep /\ UNCHANGED server

\* logout without a refresh token only clears localStorage
StartLogout(c) ==
  /\ Rested(c)
  /\ IF refresh # Nil
       THEN Go(c, [Idle EXCEPT !.kind = "logout", !.stage = "logout", !.rt = refresh]) /\ Keep
       ELSE Drop /\ UNCHANGED call
  /\ UNCHANGED server

\* fetchUser's catch removes the tokens after any error
Reject(c) == Go(c, Idle) /\ (Keep \/ Drop)

\* the interceptor gets a 401: one refresh per call
OnDenied(c) ==
  LET r == call[c] IN
  /\ At(c, "denied")
  /\ \/ /\ ~r.retried /\ refresh # Nil
        /\ Go(c, [r EXCEPT !.stage = "rotate", !.rt = refresh, !.retried = TRUE])
        /\ Keep
     \/ ~r.retried /\ refresh = Nil /\ Go(c, Idle) /\ Drop
     \/ r.retried /\ Reject(c)
  /\ UNCHANGED server

\* mutation: the refresh is sent through the interceptor as well
OnRefusedThroughApi(c) ==
  /\ At(c, "refused")
  /\ IF refresh # Nil
       THEN Go(c, [call[c] EXCEPT !.stage = "rotate", !.rt = refresh]) /\ Keep
       ELSE Go(c, Idle) /\ Drop
  /\ UNCHANGED server

\* the refresh was refused: the catch block removes the tokens, whoever has stored them
OnRefused(c) == At(c, "refused") /\ Go(c, Idle) /\ Drop /\ UNCHANGED server

\* an error that is not a 401
OnFailed(c) ==
  /\ At(c, "failed")
  /\ IF call[c].rt # Nil THEN Go(c, Idle) /\ Drop ELSE Reject(c)
  /\ UNCHANGED server

\* mutation: a refresh token is stored at login only
StoreAtLogin(p) == access' = p /\ refresh' = (IF refresh = Nil THEN p ELSE refresh) /\ torn' = FALSE

\* mutation: the answer has no refresh token
StoreUndefined(p) == access' = p /\ refresh' = 0 /\ torn' = FALSE

Store(p) == access' = p /\ refresh' = p /\ torn' = FALSE

\* tokens arrive: a login goes on with fetchUser, a refresh with the replay of its call
OnGranted(c) ==
  LET r == call[c]
      again == r.rt # Nil /\ r.kind = "login"
  IN  /\ At(c, "granted")
      /\ Store(r.new)
      /\ Go(c, [Idle EXCEPT !.kind = IF again THEN "login" ELSE "api",
                            !.stage = IF again THEN "login" ELSE "request",
                            !.retried = r.rt # Nil])
      /\ UNCHANGED server

\* logout has succeeded, or its error is ignored
OnBye(c) == At(c, "bye") /\ Go(c, Idle) /\ Drop /\ UNCHANGED server

\* the page is closed or reloaded before it has seen the answer
Unload(c) ==
  LET r == call[c] IN
  /\ r.stage \in AnswerStages
  /\ Go(c, Idle)
  /\ torn' = (torn \/ (r.stage \in {"granted", "bye"} /\ refresh # Nil /\ r.rt = refresh))
  /\ UNCHANGED <<server, access, refresh>>

-----------------------------------------------------------------------------
Init ==
  /\ commitFirst \in BOOLEAN
  /\ record = [p \in Pairs |-> "none"] /\ open = {}
  /\ call = [c \in Calls |-> Idle]
  /\ access = Nil /\ refresh = Nil /\ torn = FALSE

ServerStep(c) ==
  /\ \/ Authenticate(c, access) \/ Login(c, Free) \/ FindToken(c) \/ Rotate(c, Free)
     \/ FindLogout(c) \/ Withdraw(c) \/ Respond(c)
  /\ Keep

Timeout(c) == Cancel(c) /\ Keep

CommitStep(x) == (Commit(x) \/ CommitFails(x)) /\ Keep

PageStep(c) == OnDenied(c) \/ OnRefused(c) \/ OnFailed(c) \/ OnGranted(c) \/ OnBye(c)

UserStep(c) == StartApi(c) \/ StartLogin(c) \/ StartLogout(c) \/ Unload(c)

Next ==
  \/ \E c \in Calls : ServerStep(c) \/ PageStep(c) \/ UserStep(c) \/ Timeout(c)
  \/ \E x \in open : CommitStep(x)

Spec == Init /\ [][Next]_vars

(***************************************************************************)
(* Fairness: the event loops of server and browser go on with what they    *)
(* have begun; a request that waits too long is cut off by the timeout.    *)
(* Nobody has to start a call, and commits may fail.                       *)
(***************************************************************************)
FairSpec ==
  /\ Spec
  /\ \A c \in Calls : /\ WF_vars(ServerStep(c) \/ PageStep(c) \/ Timeout(c))
                      /\ WF_vars(\E x \in open : x.call = c /\ CommitStep(x))

-----------------------------------------------------------------------------
Quiet == open = {} /\ \A c \in Calls : At(c, "idle")

(***************************************************************************)
(* Once nothing is in flight, localStorage does not hold a refresh token   *)
(* that was used up or withdrawn, which the next refresh would be refused: *)
(* overlapping refreshes, logins and logouts whose answers arrive in any   *)
(* order leave the latest one.  (Unless an answer was lost, see torn.)     *)
(***************************************************************************)
NoRevokedTokenKept == Quiet /\ refresh # Nil /\ ~torn => record[refresh] # "revoked"

(***************************************************************************)
(* When the commit comes before the answer, a logout that succeeds has     *)
(* withdrawn its refresh token, whatever other refreshes and logouts of    *)
(* the same token were in flight and whichever of them failed.             *)
(***************************************************************************)
LogoutEndsSession ==
  \A c \in Calls : At(c, "bye") /\ commitFirst => record[call[c].rt] # "valid"

(***************************************************************************)
(* Rotation: a refresh that no other transaction overlaps gives new tokens *)
(* only for a token that was never used or withdrawn before.               *)
(***************************************************************************)
ReplayRefused ==
  \A x \in open : x.old # Nil /\ x.new # Nil /\ Waiting(x) /\ call[x.call].alone
                    => record[x.old] = "valid"

(***************************************************************************)
(* Every call of the page comes to its end: the interceptor's refresh and  *)
(* replay do not go round in circles, nor do the row locks.                *)
(***************************************************************************)
EveryCallEnds == \A c \in Calls : ~At(c, "idle") ~> At(c, "idle")
=============================================================================
