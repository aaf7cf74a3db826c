------------------------------ MODULE Requests ------------------------------
(***************************************************************************)
(* The path of a request through the application, on POST /auth/register:  *)
(* the rate limiter over Redis, the timeout, the handlers of exceptions,   *)
(* the registration itself and the commit of get_db.  From the outside in: *)
(* ServerErrorMiddleware, RateLimiter, Timeout, ExceptionMiddleware, route *)
(* (main.py).  All requests come from one address, to one path.            *)
(***************************************************************************)
EXTENDS Naturals

CONSTANTS
  Requests,  \* identifiers of requests
  Mails,     \* e-mail addresses
  Limit,     \* RATE_LIMIT_REQUESTS
  Nil

ASSUME LimitAssumption == Limit \in Nat \ {0}
ASSUME NilAssumption == Nil \notin Requests \cup {201, 409, 429, 500}

VARIABLES
  count,       \* the counter in Redis, 0 when there is no key
  expiring,    \* the key has a time to live
  expiryLost,  \* history: Redis failed on the INCR that made a key, or on its EXPIRE
  owner,       \* owner[m]: the request that created the committed account of m
  pending,     \* requests whose INSERT is not committed
  req,         \* req[r]: where the request has got to
  commitFirst  \* which of the two orders of commit and answer FastAPI uses

redis == <<count, expiring, expiryLost>>
db == <<owner, pending>>
vars == <<redis, db, req, commitFirst>>

Stages == {"idle", "incr", "expire", "limit", "app", "exists", "insert", "written",
           "committed", "responded", "done"}

(***************************************************************************)
(* n: what INCR returned.  guarded: the application runs inside the rate   *)
(* limiter's try.  body: the body has not been read.  ran: how often the   *)
(* route was entered.  status: the answer the client has got.              *)
(***************************************************************************)
Request == [stage : Stages, mail : Mails, n : Nat, guarded : BOOLEAN,
            body : BOOLEAN, ran : Nat, status : {Nil, 201, 409, 429, 500}]

\* ... and only a request that is still at work has an uncommitted row
TypeOK ==
  /\ count \in Nat /\ expiring \in BOOLEAN /\ expiryLost \in BOOLEAN
  /\ owner \in [Mails -> Requests \cup {Nil}]
  /\ pending \subseteq {r \in Requests : req[r].stage \in {"written", "responded"}}
  /\ req \in [Requests -> Request]
  /\ commitFirst \in BOOLEAN

\* what becomes of a request x on its way
Received(x, m) == [x EXCEPT !.stage = "incr", !.mail = m]
Counted(x, stage, n) == [x EXCEPT !.stage = stage, !.n = n]
Admitted(x) == [x EXCEPT !.stage = "app", !.guarded = TRUE]
Moved(x, stage) == [x EXCEPT !.stage = stage]
Entered(x) == [x EXCEPT !.stage = "exists", !.body = FALSE, !.ran = @ + 1]
Confirmed(x, stage) == [x EXCEPT !.stage = stage, !.status = 201]
Answered(x, status) == [x EXCEPT !.stage = "done", !.status = IF @ = Nil THEN status ELSE @]
Rerun(x) == [x EXCEPT !.stage = "app", !.guarded = FALSE]

At(r, stage) == req[r].stage = stage
Go(r, x) == req' = [req EXCEPT ![r] = x]
GoTo(r, stage) == Go(r, Moved(req[r], stage))

-----------------------------------------------------------------------------
\* RateLimiterMiddleware
Receive(r) ==
  /\ At(r, "idle")
  /\ \E m \in Mails : Go(r, Received(req[r], m))
  /\ UNCHANGED <<redis, db>>

\* mutation: the second request sets the expiry
IncrSecond(r) ==
  /\ At(r, "incr")
  /\ count' = count + 1
  /\ Go(r, Counted(req[r], IF count = 1 THEN "expire" ELSE "limit", count + 1))
  /\ UNCHANGED <<expiring, expiryLost, db>>

Incr(r) ==
  /\ At(r, "incr")
  /\ count' = count + 1
  /\ Go(r, Counted(req[r], IF count = 0 THEN "expire" ELSE "limit", count + 1))
  /\ UNCHANGED <<expiring, expiryLost, db>>

Expire(r) ==
  /\ At(r, "expire")
  /\ expiring' = TRUE
  /\ GoTo(r, "limit")
  /\ UNCHANGED <<count, expiryLost, db>>

\* over the limit, 429 with the TTL; the application otherwise
CheckLimit(r) ==
  /\ At(r, "limit")
  /\ Go(r, IF req[r].n > Limit THEN Answered(req[r], 429) ELSE Admitted(req[r]))
  /\ UNCHANGED <<redis, db>>

\* any command of Redis fails and the limiter is bypassed; a command whose answer is
\* lost on the way back has been carried out all the same
RedisFails(r) ==
  /\ \/ At(r, "incr") /\ UNCHANGED redis
     \/ /\ At(r, "incr")
        /\ count' = count + 1
        /\ expiryLost' = (expiryLost \/ count = 0)
        /\ UNCHANGED expiring
     \/ At(r, "expire") /\ expiryLost' = TRUE /\ UNCHANGED <<count, expiring>>
     \/ At(r, "expire") /\ expiring' = TRUE /\ UNCHANGED <<count, expiryLost>>
     \/ At(r, "limit") /\ req[r].n > Limit /\ UNCHANGED redis
  /\ GoTo(r, "app")
  /\ UNCHANGED db

\* the window ends
Lapse ==
  /\ expiring
  /\ count' = 0 /\ expiring' = FALSE
  /\ UNCHANGED <<expiryLost, db, req>>

-----------------------------------------------------------------------------
(***************************************************************************)
(* An exception that is no AppError passes all middleware but the rate     *)
(* limiter, which takes it for one of Redis and runs the application       *)
(* again; out of that second run it reaches unhandled_exception_handler.   *)
(***************************************************************************)
Raised(x) == IF x.guarded THEN Rerun(x) ELSE Answered(x, 500)

\* mutation: a middleware in front buffers the body and replays it for a second run
ParseAgain(r) ==
  /\ At(r, "app")
  /\ Go(r, [req[r] EXCEPT !.stage = "exists", !.ran = @ + 1])
  /\ UNCHANGED <<redis, db>>

(***************************************************************************)
(* FastAPI reads the body before it enters the route.  In a second run     *)
(* the body is gone: the read fails once the response was sent, and        *)
(* otherwise it waits (for the timeout).                                   *)
(***************************************************************************)
Parse(r) ==
  /\ At(r, "app")
  /\ req[r].body \/ req[r].status # Nil
  /\ Go(r, IF req[r].body THEN Entered(req[r]) ELSE Answered(req[r], 500))
  /\ UNCHANGED <<redis, db>>

\* register: exists_by_email, a ConflictError is answered by app_error_handler
Exists(r) ==
  /\ At(r, "exists")
  /\ IF owner[req[r].mail] # Nil THEN Go(r, Answered(req[r], 409)) ELSE GoTo(r, "insert")
  /\ UNCHANGED <<redis, db>>

\* ... the INSERT, which waits for an uncommitted row of the same address
Insert(r) ==
  LET m == req[r].mail IN
  /\ At(r, "insert")
  /\ \A q \in pending : req[q].mail # m
  /\ IF owner[m] # Nil
       THEN Go(r, Raised(req[r])) /\ UNCHANGED pending
       ELSE GoTo(r, "written") /\ pending' = pending \cup {r}
  /\ UNCHANGED <<redis, owner>>

Respond(r) ==
  /\ At(r, IF commitFirst THEN "committed" ELSE "written")
  /\ Go(r, Confirmed(req[r], IF commitFirst THEN "done" ELSE "responded"))
  /\ UNCHANGED <<redis, db>>

Committing(r) == At(r, IF commitFirst THEN "written" ELSE "responded")

\* get_db
Commit(r) ==
  /\ Committing(r)
  /\ owner' = [owner EXCEPT ![req[r].mail] = r]
  /\ pending' = pending \ {r}
  /\ GoTo(r, IF commitFirst THEN "committed" ELSE "done")
  /\ UNCHANGED redis

\* mutation: get_db rolls back and does not raise
CommitFailsQuietly(r) ==
  /\ Committing(r)
  /\ pending' = pending \ {r}
  /\ GoTo(r, IF commitFirst THEN "committed" ELSE "done")
  /\ UNCHANGED <<redis, owner>>

CommitFails(r) ==
  /\ Committing(r)
  /\ pending' = pending \ {r}
  /\ Go(r, Raised(req[r]))
  /\ UNCHANGED <<redis, owner>>

\* mutation: the session is not closed when the request is cancelled
TimeoutKeepsRow(r) ==
  /\ req[r].stage \in {"app", "exists", "insert", "written", "committed", "responded"}
  /\ Go(r, Answered(req[r], 500))
  /\ UNCHANGED <<redis, db>>

\* mutation: the time to read the body does not count
TimeoutOfRoute(r) ==
  /\ req[r].stage \in {"exists", "insert", "written", "committed", "responded"}
  /\ pending' = pending \ {r}
  /\ Go(r, Answered(req[r], 500))
  /\ UNCHANGED <<redis, owner>>

\* RequestTimeoutMiddleware cancels what it runs and returns; uvicorn answers 500 for it
Timeout(r) ==
  /\ req[r].stage \in {"app", "exists", "insert", "written", "committed", "responded"}
  /\ pending' = pending \ {r}
  /\ Go(r, Answered(req[r], 500))
  /\ UNCHANGED <<redis, owner>>

-----------------------------------------------------------------------------
Init ==
  /\ commitFirst \in BOOLEAN
  /\ count = 0 /\ expiring = FALSE /\ expiryLost = FALSE
  /\ owner = [m \in Mails |-> Nil] /\ pending = {}
  /\ \E m \in Mails :
       req = [r \in Requests |-> [stage |-> "idle", mail |-> m, n |-> 0, guarded |-> FALSE,
                                  body |-> TRUE, ran |-> 0, status |-> Nil]]

Limiter(r) == Incr(r) \/ Expire(r) \/ CheckLimit(r) \/ RedisFails(r)
App(r) == Parse(r) \/ Exists(r) \/ Insert(r) \/ Respond(r) \/ Commit(r) \/ CommitFails(r)

Next ==
  /\ \/ \E r \in Requests : Receive(r) \/ Limiter(r) \/ App(r) \/ Timeout(r)
     \/ Lapse
  /\ UNCHANGED commitFirst

Spec == Init /\ [][Next]_vars

(***************************************************************************)
(* Fairness: Redis answers or fails, the application goes on, and what     *)
(* cannot go on is cut off by the timeout.  No request has to come.        *)
(***************************************************************************)
FairSpec ==
  Spec /\ \A r \in Requests : WF_vars((Limiter(r) \/ App(r) \/ Timeout(r)) /\ UNCHANGED commitFirst)

-----------------------------------------------------------------------------
(***************************************************************************)
(* The counter does not outlive its window: whatever requests overlap the  *)
(* one between its INCR and its EXPIRE, whenever windows end, and however  *)
(* Redis fails on the commands of other requests, the key expires or is    *)
(* about to be made to.  Two failures are left out, because after them the *)
(* code does limit the address for good: the INCR that makes the key is    *)
(* carried out and its answer lost, or the EXPIRE after it fails.          *)
(***************************************************************************)
CounterLapses == count > 0 /\ ~expiryLost => expiring \/ \E r \in Requests : At(r, "expire")

(***************************************************************************)
(* What the client is told is so: 201 means the account is his (where the  *)
(* commit comes first), 409 that another request has created it, 429 that  *)
(* the route never ran; also after bypasses, second runs and timeouts.     *)
(***************************************************************************)
AnswersAreTrue ==
  \A r \in Requests :
    LET x == req[r] IN
    /\ x.status = 201 /\ commitFirst => owner[x.mail] = r
    /\ x.status = 409 => owner[x.mail] \notin {Nil, r}
    /\ x.status = 429 => x.ran = 0 /\ owner[x.mail] # r

(***************************************************************************)
(* The second run the rate limiter starts after an exception of the        *)
(* application never enters the route again.                               *)
(***************************************************************************)
HandlerOnce == \A r \in Requests : req[r].ran <= 1

(***************************************************************************)
(* Every request that comes is answered: also the loser of two             *)
(* registrations of one address, whose second run waits for a body that is *)
(* gone.  (An answered request does not come back, so no request is under  *)
(* way for ever if at some point none is any more.)                        *)
(***************************************************************************)
EveryRequestAnswered == <>[](\A r \in Requests : At(r, "idle") \/ At(r, "done"))
=============================================================================
