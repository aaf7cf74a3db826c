--------------------------- MODULE RequestsProofs ---------------------------
(***************************************************************************)
(* Requests for any number of requests and addresses and any limit.        *)
(***************************************************************************)
EXTENDS Requests, FiniteSetTheorems, TLAPS

\* before the route, the request is as it came
Fresh(x) == x.body /\ x.ran = 0 /\ x.status = Nil

\* what request r can have behind it where it is
Sound(r) ==
  LET x == req[r] IN
  /\ x.stage \in {"idle", "incr", "expire", "limit"} => Fresh(x)
  /\ x.stage = "app" => Fresh(x) \/ (~x.body /\ x.ran = 1 /\ x.status \in {Nil, 201} /\ (x.status = 201 => ~commitFirst))
  /\ x.stage \in {"exists", "insert", "written", "committed"} => ~x.body /\ x.ran = 1 /\ x.status = Nil
  /\ x.stage = "responded" => ~commitFirst /\ ~x.body /\ x.ran = 1 /\ x.status = 201
  /\ x.stage = "committed" => commitFirst /\ owner[x.mail] = r
  /\ x.stage = "done" => x.ran <= 1
  /\ x.stage \in {"written", "responded"} => r \in pending

(***************************************************************************)
(* An account belongs to a request that has committed; the rows that wait  *)
(* for their commit are of different addresses, which are still free.      *)
(***************************************************************************)
IInv ==
  /\ TypeOK /\ CounterLapses /\ AnswersAreTrue
  /\ \A r \in Requests : Sound(r)
  /\ \A m \in Mails, r \in Requests : owner[m] = r => req[r].mail = m /\ req[r].stage \in {"committed", "done"}
  /\ \A r \in pending : owner[req[r].mail] = Nil
  /\ \A r, q \in pending : req[r].mail = req[q].mail => r = q

LEMMA InitIInv == Init => IInv
<1> SUFFICES ASSUME Init PROVE IInv
  OBVIOUS
<1>1. PICK m \in Mails :
        req = [r \in Requests |-> [stage |-> "idle", mail |-> m, n |-> 0, guarded |-> FALSE,
                                   body |-> TRUE, ran |-> 0, status |-> Nil]]
  BY DEF Init
<1>2. \A r \in Requests : /\ req[r].stage = "idle" /\ req[r].body /\ req[r].ran = 0 /\ req[r].status = Nil
                          /\ req[r] \in Request
  BY <1>1 DEF Request, Stages
<1>3. req \in [Requests -> Request]
  BY <1>1, <1>2
<1>4. TypeOK
  <2>1. owner \in [Mails -> Requests \cup {Nil}] /\ pending = {}
    BY DEF Init
  <2>2. expiring \in BOOLEAN /\ expiryLost \in BOOLEAN /\ commitFirst \in BOOLEAN
    BY Zenon DEF Init
  <2>3. count \in Nat
    BY DEF Init
  <2>. QED BY <1>3, <2>1, <2>2, <2>3 DEF TypeOK
<1>5. CounterLapses /\ AnswersAreTrue
  BY <1>2, NilAssumption DEF Init, CounterLapses, AnswersAreTrue
<1>6. \A r \in Requests : Sound(r)
  BY <1>2 DEF Sound, Fresh
<1>. QED BY <1>4, <1>5, <1>6, NilAssumption DEF Init, IInv

-----------------------------------------------------------------------------
(***************************************************************************)
(* What becomes of the fields of a request on its way.                     *)
(***************************************************************************)
LEMMA ReceivedFields ==
  ASSUME NEW y \in Request, NEW m \in Mails
  PROVE  LET x == Received(y, m) IN
         /\ x \in Request /\ x.stage = "incr" /\ x.mail = m
         /\ x.n = y.n /\ x.guarded = y.guarded /\ x.body = y.body /\ x.ran = y.ran /\ x.status = y.status
<1>1. [y EXCEPT !.stage = "incr"] \in Request
  BY DEF Request, Stages
<1>2. \A z \in Request : [z EXCEPT !.mail = m] \in Request
  BY DEF Request
<1>3. Received(y, m) \in Request
  BY <1>1, <1>2 DEF Received
<1>4. LET x == Received(y, m) IN
       /\ x.stage = "incr" /\ x.mail = m
       /\ x.n = y.n /\ x.guarded = y.guarded /\ x.body = y.body /\ x.ran = y.ran /\ x.status = y.status
  BY DEF Received, Request
<1>. QED BY <1>3, <1>4

LEMMA CountedFields ==
  ASSUME NEW y \in Request, NEW s \in Stages, NEW k \in Nat
  PROVE  LET x == Counted(y, s, k) IN
         /\ x \in Request /\ x.stage = s /\ x.n = k
         /\ x.mail = y.mail /\ x.guarded = y.guarded /\ x.body = y.body /\ x.ran = y.ran /\ x.status = y.status
<1>1. [y EXCEPT !.stage = s] \in Request
  BY DEF Request, Stages
<1>2. \A z \in Request : [z EXCEPT !.n = k] \in Request
  BY DEF Request
<1>3. Counted(y, s, k) \in Request
  BY <1>1, <1>2 DEF Counted
<1>4. LET x == Counted(y, s, k) IN
       /\ x.stage = s /\ x.n = k
       /\ x.mail = y.mail /\ x.guarded = y.guarded /\ x.body = y.body /\ x.ran = y.ran /\ x.status = y.status
  BY DEF Counted, Request
<1>. QED BY <1>3, <1>4

LEMMA AdmittedFields ==
  ASSUME NEW y \in Request
  PROVE  LET x == Admitted(y) IN
         /\ x \in Request /\ x.stage = "app" /\ x.guarded = TRUE
         /\ x.mail = y.mail /\ x.n = y.n /\ x.body = y.body /\ x.ran = y.ran /\ x.status = y.status
<1>1. [y EXCEPT !.stage = "app"] \in Request
  BY DEF Request, Stages
<1>2. \A z \in Request, b \in BOOLEAN : [z EXCEPT !.guarded = b] \in Request
  BY DEF Request
<1>3. Admitted(y) \in Request
  BY <1>1, <1>2 DEF Admitted
<1>4. LET x == Admitted(y) IN
       /\ x.stage = "app" /\ x.guarded = TRUE
       /\ x.mail = y.mail /\ x.n = y.n /\ x.body = y.body /\ x.ran = y.ran /\ x.status = y.status
  BY DEF Admitted, Request
<1>. QED BY <1>3, <1>4

LEMMA MovedFields ==
  ASSUME NEW y \in Request, NEW s \in Stages
  PROVE  LET x == Moved(y, s) IN
         /\ x \in Request /\ x.stage = s
         /\ x.mail = y.mail /\ x.n = y.n /\ x.guarded = y.guarded /\ x.body = y.body /\ x.ran = y.ran /\ x.status = y.status
<1>1. [y EXCEPT !.stage = s] \in Request
  BY DEF Request, Stages
<1>2. Moved(y, s) \in Request
  BY <1>1 DEF Moved
<1>3. LET x == Moved(y, s) IN
       /\ x.stage = s
       /\ x.mail = y.mail /\ x.n = y.n /\ x.guarded = y.guarded /\ x.body = y.body /\ x.ran = y.ran /\ x.status = y.status
  BY DEF Moved, Request
<1>. QED BY <1>2, <1>3

LEMMA EnteredFields ==
  ASSUME NEW y \in Request
  PROVE  LET x == Entered(y) IN
         /\ x \in Request /\ x.stage = "exists" /\ x.body = FALSE /\ x.ran = y.ran + 1
         /\ x.mail = y.mail /\ x.n = y.n /\ x.guarded = y.guarded /\ x.status = y.status
<1>1. [y EXCEPT !.stage = "exists"] \in Request
  BY DEF Request, Stages
<1>2. \A z \in Request, b \in BOOLEAN : [z EXCEPT !.body = b] \in Request
  BY DEF Request
<1>3. \A z \in Request : [z EXCEPT !.ran = y.ran + 1] \in Request
  BY DEF Request
<1>4. Entered(y) \in Request
  BY <1>1, <1>2, <1>3 DEF Entered
<1>5. LET x == Entered(y) IN
       /\ x.stage = "exists" /\ x.body = FALSE /\ x.ran = y.ran + 1
       /\ x.mail = y.mail /\ x.n = y.n /\ x.guarded = y.guarded /\ x.status = y.status
  BY DEF Entered, Request
<1>. QED BY <1>4, <1>5

LEMMA ConfirmedFields ==
  ASSUME NEW y \in Request, NEW s \in Stages
  PROVE  LET x == Confirmed(y, s) IN
         /\ x \in Request /\ x.stage = s /\ x.status = 201
         /\ x.mail = y.mail /\ x.n = y.n /\ x.guarded = y.guarded /\ x.body = y.body /\ x.ran = y.ran
<1>1. [y EXCEPT !.stage = s] \in Request
  BY DEF Request, Stages
<1>2. \A z \in Request : [z EXCEPT !.status = 201] \in Request
  BY DEF Request
<1>3. Confirmed(y, s) \in Request
  BY <1>1, <1>2 DEF Confirmed
<1>4. LET x == Confirmed(y, s) IN
       /\ x.stage = s /\ x.status = 201
       /\ x.mail = y.mail /\ x.n = y.n /\ x.guarded = y.guarded /\ x.body = y.body /\ x.ran = y.ran
  BY DEF Confirmed, Request
<1>. QED BY <1>3, <1>4

LEMMA RerunFields ==
  ASSUME NEW y \in Request
  PROVE  LET x == Rerun(y) IN
         /\ x \in Request /\ x.stage = "app" /\ x.guarded = FALSE
         /\ x.mail = y.mail /\ x.n = y.n /\ x.body = y.body /\ x.ran = y.ran /\ x.status = y.status
<1>1. [y EXCEPT !.stage = "app"] \in Request
  BY DEF Request, Stages
<1>2. \A z \in Request, b \in BOOLEAN : [z EXCEPT !.guarded = b] \in Request
  BY DEF Request
<1>3. Rerun(y) \in Request
  BY <1>1, <1>2 DEF Rerun
<1>4. LET x == Rerun(y) IN
       /\ x.stage = "app" /\ x.guarded = FALSE
       /\ x.mail = y.mail /\ x.n = y.n /\ x.body = y.body /\ x.ran = y.ran /\ x.status = y.status
  BY DEF Rerun, Request
<1>. QED BY <1>3, <1>4

LEMMA AnsweredFields ==
  ASSUME NEW y \in Request, NEW v \in {409, 429, 500}
  PROVE  LET x == Answered(y, v) IN
         /\ x \in Request /\ x.stage = "done" /\ x.mail = y.mail /\ x.ran = y.ran
         /\ x.status = IF y.status = Nil THEN v ELSE y.status
<1>1. PICK w : w = IF y.status = Nil THEN v ELSE y.status
  OBVIOUS
<1>2. w \in {Nil, 201, 409, 429, 500}
  <2>1. y.status \in {Nil, 201, 409, 429, 500}
    BY DEF Request
  <2>. QED BY <1>1, <2>1
<1>3. Answered(y, v) = [y EXCEPT !.stage = "done", !.status = w]
  BY <1>1 DEF Answered
<1>4. [y EXCEPT !.stage = "done"] \in Request
  BY DEF Request, Stages
<1>5. \A z \in Request : [z EXCEPT !.status = w] \in Request
  BY <1>2 DEF Request
<1>6. Answered(y, v) \in Request
  BY <1>3, <1>4, <1>5
<1>7. LET x == Answered(y, v) IN x.stage = "done" /\ x.mail = y.mail /\ x.ran = y.ran /\ x.status = w
  BY <1>3 DEF Request
<1>. QED BY <1>1, <1>6, <1>7

-----------------------------------------------------------------------------
(* A step of r that is not its EXPIRE and leaves Redis alone.              *)
LEMMA CounterKept ==
  ASSUME IInv, NEW r \in Requests, NEW x, req' = [req EXCEPT ![r] = x], UNCHANGED redis,
         req[r].stage # "expire"
  PROVE  CounterLapses' /\ count' \in Nat /\ expiring' \in BOOLEAN /\ expiryLost' \in BOOLEAN
<1>1. \A q \in Requests \ {r} : req'[q] = req[q]
  BY DEF IInv, TypeOK
<1>2. UNCHANGED <<count, expiring, expiryLost>>
  BY DEF redis
<1>. QED BY <1>1, <1>2 DEF IInv, TypeOK, CounterLapses, At

(* A step of r that leaves the accounts alone and after which r is sound   *)
(* keeps everything in order.                                              *)
LEMMA QuietStep ==
  ASSUME IInv, NEW r \in Requests, NEW x \in Request, req' = [req EXCEPT ![r] = x],
         UNCHANGED <<owner, commitFirst>>, pending' = pending \ {r},
         count' \in Nat, expiring' \in BOOLEAN, expiryLost' \in BOOLEAN, CounterLapses',
         x.stage \notin {"written", "responded", "committed"},
         req[r].stage = "committed" => x.stage = "done" /\ x.mail = req[r].mail,
         req[r].stage # "done",
         Sound(r)',
         x.status = 201 /\ commitFirst => owner[x.mail] = r,
         x.status = 409 => owner[x.mail] \notin {Nil, r},
         x.status = 429 => x.ran = 0 /\ owner[x.mail] # r
  PROVE  IInv'
<1>1. req'[r] = x /\ \A q \in Requests \ {r} : req'[q] = req[q]
  BY DEF IInv, TypeOK
<1>2. AnswersAreTrue'
  BY <1>1 DEF IInv, AnswersAreTrue
<1>3. \A q \in Requests : Sound(q)'
  BY <1>1 DEF IInv, Sound
<1>4. \A m \in Mails, q \in Requests : owner'[m] = q => req'[q].mail = m /\ req'[q].stage \in {"committed", "done"}
  BY <1>1 DEF IInv
<1>5. /\ \A q \in pending' : owner'[req'[q].mail] = Nil
      /\ \A p, q \in pending' : req'[p].mail = req'[q].mail => p = q
  BY <1>1 DEF IInv, TypeOK
<1>6. TypeOK'
  <2>1. pending' \subseteq {q \in Requests : req'[q].stage \in {"written", "responded"}}
    BY <1>1 DEF IInv, TypeOK
  <2>2. req' \in [Requests -> Request]
    BY DEF IInv, TypeOK
  <2>. QED BY <2>1, <2>2 DEF IInv, TypeOK
<1>. QED BY <1>2, <1>3, <1>4, <1>5, <1>6 DEF IInv

(* The request goes on, with what it had behind it.                        *)
LEMMA GoOnStep ==
  ASSUME IInv, NEW r \in Requests, NEW x \in Request, req' = [req EXCEPT ![r] = x],
         UNCHANGED <<owner, commitFirst>>, pending' = pending \ {r},
         count' \in Nat, expiring' \in BOOLEAN, expiryLost' \in BOOLEAN, CounterLapses',
         req[r].stage \notin {"committed", "done"},
         \/ x.stage \in {"incr", "expire", "limit", "app"} /\ Fresh(x)
         \/ x.stage \in {"exists", "insert"} /\ ~x.body /\ x.ran = 1 /\ x.status = Nil
         \/ x.stage = "app" /\ ~x.body /\ x.ran = 1 /\ x.status \in {Nil, 201} /\ (x.status = 201 => ~commitFirst)
  PROVE  IInv'
<1>1. req'[r] = x
  BY DEF IInv, TypeOK
<1>2. Sound(r)'
  BY <1>1 DEF Sound
<1>3. x.status \in {Nil, 201} /\ (x.status = 201 => ~commitFirst)
  BY NilAssumption DEF Fresh
<1>4. x.stage \notin {"written", "responded", "committed"}
  OBVIOUS
<1>5. x.status \notin {409, 429} /\ ~(x.status = 201 /\ commitFirst)
  BY <1>3, NilAssumption
<1>6. req[r].stage = "committed" => x.stage = "done" /\ x.mail = req[r].mail
  OBVIOUS
<1>7. x.status = 409 => owner[x.mail] \notin {Nil, r}
  BY <1>5
<1>8. x.status = 429 => x.ran = 0 /\ owner[x.mail] # r
  BY <1>5
<1>9. x.status = 201 /\ commitFirst => owner[x.mail] = r
  BY <1>5
<1>. QED BY <1>2, <1>4, <1>6, <1>7, <1>8, <1>9, QuietStep

LEMMA ReceiveStep ==
  ASSUME IInv, NEW r \in Requests, Receive(r), UNCHANGED commitFirst
  PROVE  IInv'
<1>1. req[r] \in Request /\ req[r].stage = "idle" /\ Fresh(req[r])
  BY DEF IInv, TypeOK, Receive, At, Sound
<1>2. PICK m \in Mails : Go(r, Received(req[r], m))
  BY DEF Receive
<1>3. PICK x : x = Received(req[r], m)
  OBVIOUS
<1>4. x \in Request /\ x.stage = "incr" /\ Fresh(x) /\ req' = [req EXCEPT ![r] = x]
  BY <1>1, <1>2, <1>3, ReceivedFields DEF Fresh, Go
<1>5. pending' = pending \ {r} /\ UNCHANGED <<redis, owner>>
  BY <1>1 DEF IInv, TypeOK, Receive, db
<1>6. CounterLapses' /\ count' \in Nat /\ expiring' \in BOOLEAN /\ expiryLost' \in BOOLEAN
  BY <1>1, <1>4, <1>5, CounterKept
<1>7. req[r].stage \notin {"committed", "done"} /\ x.stage \in {"incr", "expire", "limit", "app"}
  BY <1>1, <1>4
<1>. QED BY <1>4, <1>5, <1>6, <1>7, GoOnStep

(* A request is answered: 409 when the address is taken, 429 before it has *)
(* reached the application, 500 otherwise.                                 *)
LEMMA AnswerStep ==
  ASSUME IInv, NEW r \in Requests, NEW v \in {409, 429, 500}, Go(r, Answered(req[r], v)),
         UNCHANGED <<redis, owner, commitFirst>>, pending' = pending \ {r},
         req[r].stage \notin {"idle", "incr", "expire", "done"},
         v = 409 => req[r].stage = "exists" /\ owner[req[r].mail] # Nil,
         v = 429 => req[r].stage = "limit"
  PROVE  IInv'
<1>1. req[r] \in Request /\ Sound(r) /\ req[r].mail \in Mails
  BY DEF IInv, TypeOK, Request
<1>3. PICK x : x = Answered(req[r], v)
  OBVIOUS
<1>4. /\ x \in Request /\ req' = [req EXCEPT ![r] = x]
      /\ x.stage = "done" /\ x.mail = req[r].mail /\ x.ran = req[r].ran
      /\ x.status = IF req[r].status = Nil THEN v ELSE req[r].status
  BY <1>1, <1>3, AnsweredFields DEF Go
<1>5. req'[r] = x
  BY <1>4 DEF IInv, TypeOK
<1>6. CounterLapses' /\ count' \in Nat /\ expiring' \in BOOLEAN /\ expiryLost' \in BOOLEAN
  BY <1>4, CounterKept
<1>7. Sound(r)'
  <2>1. x.ran <= 1
    BY <1>1, <1>4 DEF Sound, Fresh, Request, Stages
  <2>. QED BY <1>4, <1>5, <2>1 DEF Sound
<1>8. req[r].status # Nil => req[r].status = 201 /\ ~commitFirst
  BY <1>1 DEF Sound, Fresh, Request, Stages
<1>9. req[r].stage \notin {"committed", "done"} => owner[req[r].mail] # r
  BY <1>1 DEF IInv
<1>10. x.status = 201 /\ commitFirst => owner[x.mail] = r
  BY <1>4, <1>8
<1>11. x.status = 409 => owner[x.mail] \notin {Nil, r}
  BY <1>4, <1>8, <1>9
<1>12. x.status = 429 => x.ran = 0 /\ owner[x.mail] # r
  BY <1>1, <1>4, <1>8, <1>9 DEF Sound, Fresh
<1>13. req[r].stage = "committed" => x.stage = "done" /\ x.mail = req[r].mail
  BY <1>4
<1>. QED BY <1>4, <1>5, <1>6, <1>7, <1>10, <1>11, <1>12, <1>13, QuietStep

LEMMA IncrStep ==
  ASSUME IInv, NEW r \in Requests, Incr(r), UNCHANGED commitFirst
  PROVE  IInv'
<1>1. req[r] \in Request /\ req[r].stage = "incr" /\ Fresh(req[r]) /\ count \in Nat
  BY DEF IInv, TypeOK, Incr, At, Sound
<1>2. PICK s : s = IF count = 0 THEN "expire" ELSE "limit"
  OBVIOUS
<1>3. PICK x : x = Counted(req[r], s, count + 1)
  OBVIOUS
<1>4. x \in Request /\ x.stage = s /\ Fresh(x) /\ s \in {"expire", "limit"}
  <2>1. s \in {"expire", "limit"}
    BY <1>2
  <2>2. s \in Stages /\ count + 1 \in Nat
    BY <1>1, <2>1 DEF Stages
  <2>. QED BY <1>1, <1>3, <2>1, <2>2, CountedFields DEF Fresh
<1>5. req' = [req EXCEPT ![r] = x] /\ req'[r] = x /\ \A q \in Requests \ {r} : req'[q] = req[q]
  BY <1>2, <1>3 DEF Incr, Go, IInv, TypeOK
<1>6. UNCHANGED <<owner, expiring, expiryLost>> /\ count' = count + 1 /\ pending' = pending \ {r}
  BY <1>1 DEF Incr, db, IInv, TypeOK
<1>7. CounterLapses'
  <2>1. CASE count = 0
    BY <1>2, <1>4, <1>5, <2>1 DEF CounterLapses, At
  <2>2. CASE count > 0
    BY <1>1, <1>5, <1>6, <2>2 DEF IInv, CounterLapses, At
  <2>. QED BY <1>1, <2>1, <2>2
<1>8. count' \in Nat /\ expiring' \in BOOLEAN /\ expiryLost' \in BOOLEAN
  BY <1>1, <1>6 DEF IInv, TypeOK
<1>9. req[r].stage \notin {"committed", "done"} /\ x.stage \in {"incr", "expire", "limit", "app"}
  BY <1>1, <1>4
<1>. QED BY <1>4, <1>5, <1>6, <1>7, <1>8, <1>9, GoOnStep

LEMMA ExpireStep ==
  ASSUME IInv, NEW r \in Requests, Expire(r), UNCHANGED commitFirst
  PROVE  IInv'
<1>1. req[r] \in Request /\ req[r].stage = "expire" /\ Fresh(req[r])
  BY DEF IInv, TypeOK, Expire, At, Sound
<1>2. PICK x : x = Moved(req[r], "limit")
  OBVIOUS
<1>3. x \in Request /\ x.stage = "limit" /\ Fresh(x) /\ req' = [req EXCEPT ![r] = x]
  <2>1. "limit" \in Stages
    BY DEF Stages
  <2>. QED BY <1>1, <1>2, <2>1, MovedFields DEF Fresh, Expire, GoTo, Go
<1>4. pending' = pending \ {r} /\ UNCHANGED owner
  BY <1>1 DEF IInv, TypeOK, Expire, db
<1>5. CounterLapses' /\ count' \in Nat /\ expiring' \in BOOLEAN /\ expiryLost' \in BOOLEAN
  BY DEF IInv, TypeOK, CounterLapses, Expire
<1>6. req[r].stage \notin {"committed", "done"} /\ x.stage \in {"incr", "expire", "limit", "app"}
  BY <1>1, <1>3
<1>. QED BY <1>3, <1>4, <1>5, <1>6, GoOnStep

LEMMA CheckLimitStep ==
  ASSUME IInv, NEW r \in Requests, CheckLimit(r), UNCHANGED commitFirst
  PROVE  IInv'
<1>1. req[r] \in Request /\ req[r].stage = "limit" /\ Fresh(req[r])
  BY DEF IInv, TypeOK, CheckLimit, At, Sound
<1>2. pending' = pending \ {r} /\ UNCHANGED <<redis, owner>>
  BY <1>1 DEF IInv, TypeOK, CheckLimit, db
<1>3. CASE Go(r, Answered(req[r], 429))
  BY <1>1, <1>2, <1>3, AnswerStep
<1>4. CASE Go(r, Admitted(req[r]))
  <2>1. PICK x : x = Admitted(req[r])
    OBVIOUS
  <2>2. x \in Request /\ x.stage = "app" /\ Fresh(x) /\ req' = [req EXCEPT ![r] = x]
    BY <1>1, <1>4, <2>1, AdmittedFields DEF Fresh, Go
  <2>3. CounterLapses' /\ count' \in Nat /\ expiring' \in BOOLEAN /\ expiryLost' \in BOOLEAN
    BY <1>1, <1>2, <2>2, CounterKept
  <2>4. req[r].stage \notin {"committed", "done"} /\ x.stage \in {"incr", "expire", "limit", "app"}
    BY <1>1, <2>2
  <2>. QED BY <1>2, <2>2, <2>3, <2>4, GoOnStep
<1>. QED BY <1>3, <1>4 DEF CheckLimit

LEMMA RedisFailsStep ==
  ASSUME IInv, NEW r \in Requests, RedisFails(r), UNCHANGED commitFirst
  PROVE  IInv'
<1>1. req[r] \in Request /\ req[r].stage \in {"incr", "expire", "limit"} /\ Fresh(req[r])
  BY DEF IInv, TypeOK, RedisFails, At, Sound
<1>2. PICK x : x = Moved(req[r], "app")
  OBVIOUS
<1>3. x \in Request /\ x.stage = "app" /\ Fresh(x) /\ req' = [req EXCEPT ![r] = x]
  <2>1. "app" \in Stages
    BY DEF Stages
  <2>. QED BY <1>1, <1>2, <2>1, MovedFields DEF Fresh, RedisFails, GoTo, Go
<1>4. pending' = pending \ {r} /\ UNCHANGED owner
  BY <1>1 DEF IInv, TypeOK, RedisFails, db
<1>5. /\ count \in Nat /\ expiring \in BOOLEAN /\ expiryLost \in BOOLEAN /\ CounterLapses
      /\ \A q \in Requests \ {r} : req'[q] = req[q]
  BY <1>3 DEF IInv, TypeOK
<1>6. CounterLapses' /\ count' \in Nat /\ expiring' \in BOOLEAN /\ expiryLost' \in BOOLEAN
  <2>1. CASE req[r].stage # "expire" /\ UNCHANGED redis
    BY <1>3, <2>1, CounterKept
  <2>2. CASE /\ At(r, "incr") /\ UNCHANGED expiring
             /\ count' = count + 1 /\ expiryLost' = (expiryLost \/ count = 0)
    <3>1. count' \in Nat /\ expiring' \in BOOLEAN
      BY <1>5, <2>2
    <3>2. (expiryLost \/ count = 0) \in BOOLEAN
      OBVIOUS
    <3>3. CounterLapses'
      <4> SUFFICES ASSUME ~expiryLost' PROVE expiring' \/ \E q \in Requests : At(q, "expire")'
        BY DEF CounterLapses
      <4>1. count > 0 /\ ~expiryLost
        <5>1. ~expiryLost /\ count # 0
          BY <2>2, Zenon
        <5>. QED BY <1>5, <5>1
      <4>2. expiring \/ \E q \in Requests : At(q, "expire") /\ q # r
        BY <1>5, <2>2, <4>1 DEF CounterLapses, At
      <4>. QED BY <1>5, <2>2, <4>2 DEF At
    <3>. QED BY <2>2, <3>1, <3>2, <3>3, Zenon
  <2>3. CASE expiryLost' = TRUE /\ UNCHANGED <<count, expiring>>
    BY <1>5, <2>3 DEF CounterLapses
  <2>4. CASE expiring' = TRUE /\ UNCHANGED <<count, expiryLost>>
    BY <1>5, <2>4 DEF CounterLapses
  <2>. QED BY <2>1, <2>2, <2>3, <2>4 DEF RedisFails, At
<1>7. req[r].stage \notin {"committed", "done"} /\ x.stage \in {"incr", "expire", "limit", "app"}
  BY <1>1, <1>3
<1>. QED BY <1>3, <1>4, <1>6, <1>7, GoOnStep

LEMMA ParseStep ==
  ASSUME IInv, NEW r \in Requests, Parse(r), UNCHANGED commitFirst
  PROVE  IInv'
<1>1. req[r] \in Request /\ req[r].stage = "app" /\ Sound(r)
  BY DEF IInv, TypeOK, Parse, At
<1>2. pending' = pending \ {r} /\ UNCHANGED <<redis, owner>>
  BY <1>1 DEF IInv, TypeOK, Parse, db
<1>3. CASE ~req[r].body
  <2>1. Go(r, Answered(req[r], 500))
    BY <1>3 DEF Parse
  <2>. QED BY <1>1, <1>2, <2>1, AnswerStep
<1>4. CASE req[r].body
  <2>1. PICK x : x = Entered(req[r])
    OBVIOUS
  <2>2. Fresh(req[r])
    BY <1>1, <1>4 DEF Sound
  <2>3. /\ x \in Request /\ req' = [req EXCEPT ![r] = x]
        /\ x.stage = "exists" /\ ~x.body /\ x.ran = 1 /\ x.status = Nil
    <3>1. req[r].ran = 0 /\ req[r].status = Nil
      BY <2>2 DEF Fresh
    <3>2. req' = [req EXCEPT ![r] = x]
      BY <1>4, <2>1 DEF Parse, Go
    <3>3. /\ x \in Request /\ x.stage = "exists" /\ x.body = FALSE
          /\ x.ran = req[r].ran + 1 /\ x.status = req[r].status
      BY <1>1, <2>1, EnteredFields
    <3>. QED BY <3>1, <3>2, <3>3
  <2>4. CounterLapses' /\ count' \in Nat /\ expiring' \in BOOLEAN /\ expiryLost' \in BOOLEAN
    BY <1>1, <1>2, <2>3, CounterKept
  <2>5. req[r].stage \notin {"committed", "done"}
    BY <1>1
  <2>. QED BY <1>2, <2>3, <2>4, <2>5, GoOnStep
<1>. QED BY <1>3, <1>4

LEMMA ExistsStep ==
  ASSUME IInv, NEW r \in Requests, Exists(r), UNCHANGED commitFirst
  PROVE  IInv'
<1>1. req[r] \in Request /\ req[r].stage = "exists" /\ Sound(r)
  BY DEF IInv, TypeOK, Exists, At
<1>2. pending' = pending \ {r} /\ UNCHANGED <<redis, owner>>
  BY <1>1 DEF IInv, TypeOK, Exists, db
<1>3. CASE owner[req[r].mail] # Nil
  <2>1. Go(r, Answered(req[r], 409))
    BY <1>3 DEF Exists
  <2>. QED BY <1>1, <1>2, <1>3, <2>1, AnswerStep
<1>4. CASE owner[req[r].mail] = Nil
  <2>1. PICK x : x = Moved(req[r], "insert")
    OBVIOUS
  <2>2. /\ x \in Request /\ req' = [req EXCEPT ![r] = x]
        /\ x.stage = "insert" /\ ~x.body /\ x.ran = 1 /\ x.status = Nil
    <3>1. "insert" \in Stages
      BY DEF Stages
    <3>2. ~req[r].body /\ req[r].ran = 1 /\ req[r].status = Nil
      BY <1>1 DEF Sound
    <3>. QED BY <1>1, <1>4, <2>1, <3>1, <3>2, MovedFields DEF Exists, GoTo, Go
  <2>3. CounterLapses' /\ count' \in Nat /\ expiring' \in BOOLEAN /\ expiryLost' \in BOOLEAN
    BY <1>1, <1>2, <2>2, CounterKept
  <2>4. req[r].stage \notin {"committed", "done"}
    BY <1>1
  <2>. QED BY <1>2, <2>2, <2>3, <2>4, GoOnStep
<1>. QED BY <1>3, <1>4

(* An exception of the application.                                        *)
LEMMA RaiseStep ==
  ASSUME IInv, NEW r \in Requests, Go(r, Raised(req[r])),
         UNCHANGED <<redis, owner, commitFirst>>, pending' = pending \ {r},
         req[r].stage \in {"insert", "written", "responded"}
  PROVE  IInv'
<1>1. req[r] \in Request /\ Sound(r)
  BY DEF IInv, TypeOK
<1>2. CASE ~req[r].guarded
  <2>1. Go(r, Answered(req[r], 500))
    BY <1>2 DEF Raised
  <2>. QED BY <1>1, <2>1, AnswerStep
<1>3. CASE req[r].guarded
  <2>1. PICK x : x = Rerun(req[r])
    OBVIOUS
  <2>2. ~req[r].body /\ req[r].ran = 1 /\ req[r].status \in {Nil, 201} /\ (req[r].status = 201 => ~commitFirst)
    BY <1>1, NilAssumption DEF Sound
  <2>3. /\ x \in Request /\ req' = [req EXCEPT ![r] = x]
        /\ x.stage = "app" /\ x.body = req[r].body /\ x.ran = req[r].ran /\ x.status = req[r].status
    BY <1>1, <1>3, <2>1, RerunFields DEF Raised, Go
  <2>4. CounterLapses' /\ count' \in Nat /\ expiring' \in BOOLEAN /\ expiryLost' \in BOOLEAN
    BY <2>3, CounterKept
  <2>5. ~x.body /\ x.ran = 1 /\ x.status \in {Nil, 201} /\ (x.status = 201 => ~commitFirst)
    BY <2>2, <2>3
  <2>6. req[r].stage \notin {"committed", "done"}
    OBVIOUS
  <2>. QED BY <2>3, <2>4, <2>5, <2>6, GoOnStep
<1>. QED BY <1>2, <1>3

LEMMA TimeoutStep ==
  ASSUME IInv, NEW r \in Requests, Timeout(r), UNCHANGED commitFirst
  PROVE  IInv'
<1>1. /\ Go(r, Answered(req[r], 500)) /\ UNCHANGED <<redis, owner, commitFirst>> /\ pending' = pending \ {r}
      /\ req[r].stage \notin {"idle", "incr", "expire", "done"}
  BY DEF Timeout
<1>. QED BY <1>1, AnswerStep

LEMMA CommitFailsStep ==
  ASSUME IInv, NEW r \in Requests, CommitFails(r), UNCHANGED commitFirst
  PROVE  IInv'
<1>1. /\ Go(r, Raised(req[r])) /\ UNCHANGED <<redis, owner, commitFirst>> /\ pending' = pending \ {r}
      /\ req[r].stage \in {"insert", "written", "responded"}
  BY DEF CommitFails, Committing, At
<1>. QED BY <1>1, RaiseStep

LEMMA InsertStep ==
  ASSUME IInv, NEW r \in Requests, Insert(r), UNCHANGED commitFirst
  PROVE  IInv'
<1>1. req[r] \in Request /\ req[r].stage = "insert" /\ Sound(r) /\ r \notin pending
  BY DEF IInv, TypeOK, Insert, At
<1>2. UNCHANGED <<redis, owner>>
  BY DEF Insert
<1>3. CASE owner[req[r].mail] # Nil
  <2>1. Go(r, Raised(req[r])) /\ pending' = pending \ {r}
    BY <1>1, <1>3 DEF Insert
  <2>. QED BY <1>1, <1>2, <2>1, RaiseStep
<1>4. CASE owner[req[r].mail] = Nil
  <2>1. PICK x : x = Moved(req[r], "written")
    OBVIOUS
  <2>2. /\ x \in Request /\ req' = [req EXCEPT ![r] = x] /\ x.stage = "written" /\ x.mail = req[r].mail
        /\ x.body = req[r].body /\ x.ran = req[r].ran /\ x.status = req[r].status
    <3>1. "written" \in Stages
      BY DEF Stages
    <3>. QED BY <1>1, <1>4, <2>1, <3>1, MovedFields DEF Insert, GoTo, Go
  <2>3. pending' = pending \cup {r} /\ \A q \in pending : req[q].mail # req[r].mail
    BY <1>4 DEF Insert
  <2>4. req'[r] = x /\ \A q \in Requests \ {r} : req'[q] = req[q]
    BY <2>2 DEF IInv, TypeOK
  <2>5. CounterLapses' /\ count' \in Nat /\ expiring' \in BOOLEAN /\ expiryLost' \in BOOLEAN
    BY <1>1, <1>2, <2>2, CounterKept
  <2>6. TypeOK'
    <3>1. pending' \subseteq {q \in Requests : req'[q].stage \in {"written", "responded"}}
      BY <2>2, <2>3, <2>4 DEF IInv, TypeOK
    <3>2. req' \in [Requests -> Request]
      BY <2>2 DEF IInv, TypeOK
    <3>. QED BY <1>2, <2>5, <3>1, <3>2 DEF IInv, TypeOK
  <2>7. Sound(r)' /\ req'[r].status = Nil
    BY <1>1, <2>2, <2>3, <2>4 DEF Sound
  <2>8. \A q \in Requests : Sound(q)'
    BY <1>2, <2>3, <2>4, <2>7 DEF IInv, Sound
  <2>9. AnswersAreTrue'
    BY <1>2, <2>4, <2>7, NilAssumption DEF IInv, AnswersAreTrue
  <2>10. \A m \in Mails, q \in Requests : owner'[m] = q => req'[q].mail = m /\ req'[q].stage \in {"committed", "done"}
    BY <1>1, <1>2, <2>4 DEF IInv
  <2>11. /\ \A q \in pending' : owner'[req'[q].mail] = Nil
         /\ \A p, q \in pending' : req'[p].mail = req'[q].mail => p = q
    BY <1>2, <1>4, <2>2, <2>3, <2>4 DEF IInv, TypeOK
  <2>. QED BY <2>5, <2>6, <2>8, <2>9, <2>10, <2>11 DEF IInv
<1>. QED BY <1>3, <1>4

LEMMA RespondStep ==
  ASSUME IInv, NEW r \in Requests, Respond(r), UNCHANGED commitFirst
  PROVE  IInv'
<1>1. req[r] \in Request /\ req[r].stage = (IF commitFirst THEN "committed" ELSE "written") /\ Sound(r)
  BY DEF IInv, TypeOK, Respond, At
<1>2. UNCHANGED <<redis, owner, pending>>
  BY DEF Respond, db
<1>3. PICK s : s = IF commitFirst THEN "done" ELSE "responded"
  OBVIOUS
<1>4. PICK x : x = Confirmed(req[r], s)
  OBVIOUS
<1>5. /\ x \in Request /\ req' = [req EXCEPT ![r] = x] /\ x.stage = s /\ x.mail = req[r].mail
      /\ x.body = req[r].body /\ x.ran = req[r].ran /\ x.status = 201
  <2>1. s \in Stages
    BY <1>3 DEF Stages
  <2>. QED BY <1>1, <1>3, <1>4, <2>1, ConfirmedFields DEF Respond, Go
<1>6. req'[r] = x /\ \A q \in Requests \ {r} : req'[q] = req[q]
  BY <1>5 DEF IInv, TypeOK
<1>7. CounterLapses' /\ count' \in Nat /\ expiring' \in BOOLEAN /\ expiryLost' \in BOOLEAN
  BY <1>1, <1>2, <1>5, CounterKept
<1>8. r \in pending <=> ~commitFirst
  BY <1>1 DEF Sound, IInv, TypeOK
<1>9. TypeOK'
  <2>1. pending' \subseteq {q \in Requests : req'[q].stage \in {"written", "responded"}}
    BY <1>2, <1>3, <1>5, <1>6, <1>8 DEF IInv, TypeOK
  <2>2. req' \in [Requests -> Request]
    BY <1>5 DEF IInv, TypeOK
  <2>. QED BY <1>2, <1>7, <2>1, <2>2 DEF IInv, TypeOK
<1>10. Sound(r)'
  BY <1>1, <1>2, <1>3, <1>5, <1>6, <1>8 DEF Sound
<1>11. \A q \in Requests : Sound(q)'
  BY <1>2, <1>6, <1>10 DEF IInv, Sound
<1>12. commitFirst => owner[req[r].mail] = r
  BY <1>1 DEF Sound
<1>13. AnswersAreTrue'
  BY <1>2, <1>5, <1>6, <1>12 DEF IInv, AnswersAreTrue
<1>14. \A m \in Mails, q \in Requests : owner'[m] = q => req'[q].mail = m /\ req'[q].stage \in {"committed", "done"}
  BY <1>1, <1>2, <1>3, <1>5, <1>6 DEF IInv
<1>15. /\ \A q \in pending' : owner'[req'[q].mail] = Nil
       /\ \A p, q \in pending' : req'[p].mail = req'[q].mail => p = q
  BY <1>2, <1>5, <1>6 DEF IInv, TypeOK
<1>. QED BY <1>7, <1>9, <1>11, <1>13, <1>14, <1>15 DEF IInv

LEMMA CommitStep ==
  ASSUME IInv, NEW r \in Requests, Commit(r), UNCHANGED commitFirst
  PROVE  IInv'
<1>1. /\ req[r] \in Request /\ req[r].stage = (IF commitFirst THEN "written" ELSE "responded")
      /\ Sound(r) /\ r \in pending /\ req[r].mail \in Mails
  BY DEF IInv, TypeOK, Commit, Committing, At, Sound, Request
<1>2. /\ UNCHANGED <<redis, commitFirst>> /\ pending' = pending \ {r}
      /\ owner' = [owner EXCEPT ![req[r].mail] = r]
  BY DEF Commit
<1>3. PICK s : s = IF commitFirst THEN "committed" ELSE "done"
  OBVIOUS
<1>4. PICK x : x = Moved(req[r], s)
  OBVIOUS
<1>5. /\ x \in Request /\ req' = [req EXCEPT ![r] = x] /\ x.stage = s /\ x.mail = req[r].mail
      /\ x.body = req[r].body /\ x.ran = req[r].ran /\ x.status = req[r].status
  <2>1. s \in Stages
    BY <1>3 DEF Stages
  <2>. QED BY <1>1, <1>3, <1>4, <2>1, MovedFields DEF Commit, GoTo, Go
<1>6. req'[r] = x /\ \A q \in Requests \ {r} : req'[q] = req[q]
  BY <1>5 DEF IInv, TypeOK
<1>7. CounterLapses' /\ count' \in Nat /\ expiring' \in BOOLEAN /\ expiryLost' \in BOOLEAN
  BY <1>1, <1>2, <1>5, CounterKept
<1>8. /\ owner'[req[r].mail] = r /\ owner[req[r].mail] = Nil
      /\ \A m \in Mails : m # req[r].mail => owner'[m] = owner[m]
  BY <1>1, <1>2 DEF IInv, TypeOK
<1>9. TypeOK'
  <2>1. pending' \subseteq {q \in Requests : req'[q].stage \in {"written", "responded"}}
    BY <1>2, <1>6 DEF IInv, TypeOK
  <2>2. req' \in [Requests -> Request] /\ owner' \in [Mails -> Requests \cup {Nil}]
    BY <1>2, <1>5 DEF IInv, TypeOK
  <2>. QED BY <1>2, <1>7, <2>1, <2>2 DEF IInv, TypeOK
<1>10. Sound(r)'
  BY <1>1, <1>2, <1>3, <1>5, <1>6, <1>8 DEF Sound
<1>11. \A q \in Requests \ {r} : owner[req[q].mail] = q => owner'[req[q].mail] = q
  BY <1>8, NilAssumption DEF IInv, TypeOK, Request
<1>12. \A q \in Requests : Sound(q)'
  BY <1>2, <1>6, <1>10, <1>11 DEF IInv, Sound
<1>13. AnswersAreTrue'
  <2> SUFFICES ASSUME NEW q \in Requests
               PROVE  /\ req'[q].status = 201 /\ commitFirst => owner'[req'[q].mail] = q
                      /\ req'[q].status = 409 => owner'[req'[q].mail] \notin {Nil, q}
                      /\ req'[q].status = 429 => req'[q].ran = 0 /\ owner'[req'[q].mail] # q
    BY <1>2 DEF AnswersAreTrue
  <2>1. CASE q = r
    <3>1. CASE commitFirst
      <4>1. req[r].status = Nil
        BY <1>1, <3>1 DEF Sound
      <4>. QED BY <1>5, <1>6, <2>1, <3>1, <4>1, NilAssumption
    <3>2. CASE ~commitFirst
      <4>1. req[r].status = 201
        BY <1>1, <3>2 DEF Sound
      <4>. QED BY <1>5, <1>6, <2>1, <3>2, <4>1
    <3>. QED BY <3>1, <3>2
  <2>2. CASE q # r
    <3>1. req'[q] = req[q] /\ req[q].mail \in Mails
      BY <1>6, <2>2 DEF IInv, TypeOK, Request
    <3>2. owner'[req[q].mail] = owner[req[q].mail] \/ (owner'[req[q].mail] = r /\ owner[req[q].mail] = Nil)
      BY <1>8, <3>1
    <3>3. /\ req[q].status = 201 /\ commitFirst => owner[req[q].mail] = q
          /\ req[q].status = 409 => owner[req[q].mail] \notin {Nil, q}
          /\ req[q].status = 429 => req[q].ran = 0 /\ owner[req[q].mail] # q
      BY DEF IInv, AnswersAreTrue
    <3>. QED BY <2>2, <3>1, <3>2, <3>3, NilAssumption
  <2>. QED BY <2>1, <2>2
<1>14. \A m \in Mails, q \in Requests : owner'[m] = q => req'[q].mail = m /\ req'[q].stage \in {"committed", "done"}
  BY <1>1, <1>3, <1>5, <1>6, <1>8 DEF IInv
<1>15. \A q \in pending' : owner'[req'[q].mail] = Nil
  <2> SUFFICES ASSUME NEW q \in pending, q # r PROVE owner'[req'[q].mail] = Nil
    BY <1>2
  <2>1. q \in Requests /\ req[q].mail # req[r].mail /\ owner[req[q].mail] = Nil /\ req[q].mail \in Mails
    BY <1>1 DEF IInv, TypeOK, Request
  <2>. QED BY <1>6, <1>8, <2>1
<1>16. \A p, q \in pending' : req'[p].mail = req'[q].mail => p = q
  BY <1>2, <1>5, <1>6 DEF IInv, TypeOK
<1>. QED BY <1>7, <1>9, <1>12, <1>13, <1>14, <1>15, <1>16 DEF IInv

LEMMA NextIInv == IInv /\ [Next]_vars => IInv'
<1> SUFFICES ASSUME IInv, [Next]_vars PROVE IInv'
  OBVIOUS
<1>1. ASSUME UNCHANGED <<owner, pending, req, commitFirst>>, CounterLapses', count' \in Nat,
             expiring' \in BOOLEAN, expiryLost' \in BOOLEAN
      PROVE  IInv'
  BY <1>1 DEF IInv, TypeOK, AnswersAreTrue, Sound
<1>2. CASE Lapse /\ UNCHANGED commitFirst
  <2>1. count' = 0 /\ expiring' = FALSE /\ expiryLost' = expiryLost
    BY <1>2 DEF Lapse
  <2>2. CounterLapses'
    BY <2>1 DEF CounterLapses
  <2>3. expiryLost' \in BOOLEAN
    BY <2>1 DEF IInv, TypeOK
  <2>4. count' \in Nat /\ expiring' \in BOOLEAN
    BY <2>1
  <2>. QED BY <1>1, <1>2, <2>2, <2>3, <2>4 DEF Lapse, db
<1>3. CASE UNCHANGED vars
  <2>1. CounterLapses' /\ count' \in Nat /\ expiring' \in BOOLEAN /\ expiryLost' \in BOOLEAN
    BY <1>3 DEF vars, redis, CounterLapses, At, IInv, TypeOK
  <2>. QED BY <1>1, <1>3, <2>1 DEF vars, db
<1>4. ASSUME NEW r \in Requests, Receive(r) \/ Limiter(r) \/ App(r) \/ Timeout(r), UNCHANGED commitFirst
      PROVE  IInv'
  <2>1. CASE Limiter(r)
    BY <1>4, <2>1, IncrStep, ExpireStep, CheckLimitStep, RedisFailsStep DEF Limiter
  <2>2. CASE App(r)
    BY <1>4, <2>2, ParseStep, ExistsStep, InsertStep, RespondStep, CommitStep, CommitFailsStep DEF App
  <2>. QED BY <1>4, <2>1, <2>2, ReceiveStep, TimeoutStep
<1>. QED BY <1>2, <1>3, <1>4 DEF Next

LEMMA Invariance == Spec => []IInv
BY InitIInv, NextIInv, PTL DEF Spec

(* The records stay well formed, and only a request still at work has an   *)
(* uncommitted row, whatever times out or fails.                           *)
THEOREM RequestsTyped == Spec => []TypeOK
<1>1. IInv => TypeOK
  BY DEF IInv
<1>. QED BY <1>1, Invariance, PTL

(* For any number of overlapping requests, a counter that is not gone      *)
(* expires or is about to be made to, unless Redis failed on the INCR that *)
(* made it or on its EXPIRE.                                               *)
THEOREM CountersLapse == Spec => []CounterLapses
<1>1. IInv => CounterLapses
  BY DEF IInv
<1>. QED BY <1>1, Invariance, PTL

(* No client is told what is not so: 201 with the commit first, 409, 429.  *)
THEOREM AnswersTrue == Spec => []AnswersAreTrue
<1>1. IInv => AnswersAreTrue
  BY DEF IInv
<1>. QED BY <1>1, Invariance, PTL

(* The rate limiter's second run never enters the route again.             *)
THEOREM NeverRunTwice == Spec => []HandlerOnce
<1>1. IInv => HandlerOnce
  <2> SUFFICES ASSUME IInv, NEW r \in Requests PROVE req[r].ran <= 1
    BY DEF HandlerOnce
  <2>1. Sound(r) /\ req[r].stage \in Stages
    BY DEF IInv, TypeOK, Request
  <2>. QED BY <2>1 DEF Sound, Fresh, Stages
<1>. QED BY <1>1, Invariance, PTL

-----------------------------------------------------------------------------
(***************************************************************************)
(* The limit itself.  A window begins when the counter is gone; S is any   *)
(* set of requests that are not counted by then.                           *)
(***************************************************************************)
IsCounted(x) == x.stage \notin {"idle", "incr"}
WindowBegins(S) == count = 0 /\ \A r \in S : ~IsCounted(req[r])

\* the step does not end the window, and Redis answers the requests of S
InWindow(S) == ~Lapse /\ \A r \in S : ~RedisFails(r)

Served(S) == {r \in S : req[r].ran > 0}

(***************************************************************************)
(* INCR is atomic: it has given the requests of S different numbers, up to *)
(* the counter, and whoever got past the check has one within the limit.   *)
(***************************************************************************)
IsPast(x) == IsCounted(x) /\ x.stage \notin {"expire", "limit"} /\ (x.stage = "done" => x.ran > 0)

WInv(S) ==
  /\ \A r \in S : IsCounted(req[r]) => req[r].n \in 1 .. count
  /\ \A r \in S : IsPast(req[r]) => req[r].n <= Limit
  /\ \A r, q \in S : IsCounted(req[r]) /\ IsCounted(req[q]) /\ req[r].n = req[q].n => r = q

(* A step that leaves the number of its request alone.                     *)
Keeps(y, x) ==
  /\ x.n = y.n
  /\ IsCounted(x) => IsCounted(y)
  /\ IsPast(x) => IsPast(y) \/ y.n <= Limit

LEMMA KeepsWInv ==
  ASSUME IInv, NEW S \in SUBSET Requests, WInv(S), NEW r \in Requests, NEW x,
         req' = [req EXCEPT ![r] = x], count' \in {count, count + 1}, r \in S => Keeps(req[r], x)
  PROVE  WInv(S)'
<1>1. req'[r] = x /\ \A q \in Requests \ {r} : req'[q] = req[q]
  BY DEF IInv, TypeOK
<1>2. \A q \in S : Keeps(req[q], req'[q])
  BY <1>1 DEF Keeps
<1>3. \A q \in S : IsCounted(req'[q]) => req'[q].n \in 1 .. count'
  <2>1. count \in Nat
    BY DEF IInv, TypeOK
  <2>2. 1 .. count \subseteq 1 .. count'
    BY <2>1
  <2>. QED BY <1>2, <2>2 DEF WInv, Keeps
<1>4. \A q \in S : IsPast(req'[q]) => req'[q].n <= Limit
  BY <1>2 DEF WInv, Keeps
<1>5. \A p, q \in S : IsCounted(req'[p]) /\ IsCounted(req'[q]) /\ req'[p].n = req'[q].n => p = q
  BY <1>2 DEF WInv, Keeps
<1>. QED BY <1>3, <1>4, <1>5 DEF WInv

LEMMA IncrCounts ==
  ASSUME IInv, NEW S \in SUBSET Requests, WInv(S), NEW r \in Requests, Incr(r)
  PROVE  WInv(S)'
<1>1. PICK s : s = IF count = 0 THEN "expire" ELSE "limit"
  OBVIOUS
<1>2. PICK x : x = Counted(req[r], s, count + 1)
  OBVIOUS
<1>3. req[r] \in Request /\ count \in Nat
  BY DEF IInv, TypeOK
<1>4. s \in {"expire", "limit"} /\ s \in Stages
  BY <1>1 DEF Stages
<1>5. x.stage = s /\ x.n = count + 1
  BY <1>2, <1>3, <1>4, CountedFields
<1>6. /\ req'[r] = x /\ count' = count + 1
      /\ \A q \in Requests \ {r} : req'[q] = req[q]
  BY <1>1, <1>2 DEF Incr, Go, IInv, TypeOK
<1>7. \A q \in S : IsCounted(req[q]) => req[q].n \in 1 .. count
  BY DEF WInv
<1>8. \A q \in S : IsCounted(req'[q]) => req'[q].n \in 1 .. count'
  BY <1>3, <1>5, <1>6, <1>7
<1>9. ~IsPast(x)
  BY <1>4, <1>5 DEF IsPast
<1>10. \A q \in S : IsPast(req'[q]) => req'[q].n <= Limit
  BY <1>6, <1>9 DEF WInv
<1>11. \A q \in S \ {r} : IsCounted(req'[q]) => req'[q].n # req'[r].n
  BY <1>3, <1>5, <1>6, <1>7
<1>12. \A p, q \in S : IsCounted(req'[p]) /\ IsCounted(req'[q]) /\ req'[p].n = req'[q].n => p = q
  BY <1>6, <1>11 DEF WInv
<1>. QED BY <1>8, <1>10, <1>12 DEF WInv

(* What the other steps do to the record of their request.                 *)
LEMMA StepKeeps ==
  ASSUME IInv, NEW r \in Requests,
         Receive(r) \/ Expire(r) \/ CheckLimit(r) \/ App(r) \/ Timeout(r)
  PROVE  \E x : req' = [req EXCEPT ![r] = x] /\ Keeps(req[r], x) /\ UNCHANGED count
<1> DEFINE y == req[r]
<1>1. y \in Request /\ Sound(r)
  BY DEF IInv, TypeOK
<1>2. ASSUME NEW s \in Stages \ {"idle"}, GoTo(r, s), UNCHANGED count,
             IsCounted(y), IsPast(y) \/ s = "limit", y.stage # "done"
      PROVE  \E x : req' = [req EXCEPT ![r] = x] /\ Keeps(y, x) /\ UNCHANGED count
  <2>1. Moved(y, s).n = y.n /\ Moved(y, s).stage = s
    BY <1>1, MovedFields
  <2>. QED BY <1>2, <2>1 DEF GoTo, Go, Keeps, IsPast
<1>3. ASSUME NEW v \in {409, 429, 500}, Go(r, Answered(y, v)), UNCHANGED count,
             IsPast(y) \/ y.stage = "limit"
      PROVE  \E x : req' = [req EXCEPT ![r] = x] /\ Keeps(y, x) /\ UNCHANGED count
  <2>1. Answered(y, v).n = y.n
    BY <1>1 DEF Answered, Request
  <2>2. Answered(y, v).ran = y.ran /\ Answered(y, v).stage = "done"
    BY <1>1, AnsweredFields
  <2>3. y.stage = "limit" => y.ran = 0
    BY <1>1 DEF Sound, Fresh
  <2>4. IsCounted(y)
    BY <1>3 DEF IsPast, IsCounted
  <2>5. IsPast(Answered(y, v)) => IsPast(y)
    BY <1>3, <2>2, <2>3 DEF IsPast
  <2>. QED BY <1>3, <2>1, <2>4, <2>5 DEF Go, Keeps
<1>4. ASSUME NEW x, Go(r, x), UNCHANGED count, IsPast(y), x.n = y.n
      PROVE  \E z : req' = [req EXCEPT ![r] = z] /\ Keeps(y, z) /\ UNCHANGED count
  BY <1>4 DEF Go, Keeps, IsPast
<1>5. CASE Receive(r)
  <2>1. PICK m \in Mails : Go(r, Received(y, m))
    BY <1>5 DEF Receive
  <2>2. Received(y, m).n = y.n /\ Received(y, m).stage = "incr"
    BY <1>1, ReceivedFields
  <2>3. UNCHANGED count
    BY <1>5 DEF Receive, redis
  <2>. QED BY <2>1, <2>2, <2>3 DEF Go, Keeps, IsCounted, IsPast
<1>6. CASE Expire(r)
  BY <1>2, <1>6 DEF Expire, At, IsCounted, Stages
<1>7. CASE CheckLimit(r)
  <2>1. y.stage = "limit" /\ UNCHANGED count
    BY <1>7 DEF CheckLimit, At, redis
  <2>2. CASE y.n > Limit
    BY <1>3, <1>7, <2>1, <2>2 DEF CheckLimit
  <2>3. CASE ~(y.n > Limit)
    <3>1. Admitted(y).n = y.n /\ y.n <= Limit
      <4>1. y.n \in Nat
        BY <1>1 DEF Request
      <4>2. y.n <= Limit
        BY <2>3, <4>1, LimitAssumption
      <4>3. Admitted(y).n = y.n
        BY <1>1, AdmittedFields
      <4>. QED BY <4>2, <4>3
    <3>2. IsCounted(y)
      BY <2>1 DEF IsCounted
    <3>. QED BY <1>7, <2>1, <2>3, <3>1, <3>2 DEF CheckLimit, Go, Keeps
  <2>. QED BY <2>2, <2>3
<1>8. CASE App(r) \/ Timeout(r)
  <2>1. UNCHANGED count
    BY <1>8 DEF App, Timeout, Parse, Exists, Insert, Respond, Commit, CommitFails, redis
  <2>2. IsPast(y) /\ y.stage # "done"
    BY <1>8 DEF App, Timeout, Parse, Exists, Insert, Respond, Commit, CommitFails, Committing, At, IsPast, IsCounted
  <2>3. CASE Timeout(r)
    BY <1>3, <2>1, <2>2, <2>3 DEF Timeout
  <2>4. ASSUME Go(r, Raised(y))
        PROVE  \E x : req' = [req EXCEPT ![r] = x] /\ Keeps(y, x) /\ UNCHANGED count
    <3>1. Rerun(y).n = y.n
      BY <1>1, RerunFields
    <3>. QED BY <1>3, <1>4, <2>1, <2>2, <2>4, <3>1 DEF Raised
  <2>5. CASE Parse(r)
    <3>1. Entered(y).n = y.n
      BY <1>1, EnteredFields
    <3>. QED BY <1>3, <1>4, <2>1, <2>2, <2>5, <3>1 DEF Parse
  <2>6. CASE Exists(r)
    BY <1>2, <1>3, <2>1, <2>2, <2>6 DEF Exists, Stages, IsPast
  <2>7. CASE Insert(r)
    BY <1>2, <2>1, <2>2, <2>4, <2>7 DEF Insert, Stages, IsPast
  <2>8. CASE Respond(r)
    <3>1. PICK s \in Stages : Go(r, Confirmed(y, s))
      BY <2>8 DEF Respond, Stages
    <3>2. Confirmed(y, s).n = y.n
      BY <1>1, ConfirmedFields
    <3>. QED BY <1>4, <2>1, <2>2, <3>1, <3>2
  <2>9. CASE Commit(r)
    BY <1>2, <2>1, <2>2, <2>9 DEF Commit, Stages, IsPast
  <2>10. CASE CommitFails(r)
    BY <2>4, <2>10 DEF CommitFails
  <2>. QED BY <1>8, <2>3, <2>5, <2>6, <2>7, <2>8, <2>9, <2>10 DEF App
<1>. QED BY <1>5, <1>6, <1>7, <1>8

LEMMA NextWInv ==
  ASSUME NEW S \in SUBSET Requests
  PROVE  IInv /\ WInv(S) /\ [Next]_vars /\ [InWindow(S)]_vars => WInv(S)'
<1> SUFFICES ASSUME IInv, WInv(S), [Next]_vars, [InWindow(S)]_vars PROVE WInv(S)'
  OBVIOUS
<1>1. CASE UNCHANGED vars
  BY <1>1 DEF vars, redis, WInv, IsCounted, IsPast
<1>2. CASE Next /\ InWindow(S)
  <2>1. PICK r \in Requests : Receive(r) \/ Limiter(r) \/ App(r) \/ Timeout(r)
    BY <1>2 DEF Next, InWindow
  <2>2. CASE Incr(r)
    BY <2>2, IncrCounts
  <2>3. CASE RedisFails(r)
    <3>1. r \notin S
      BY <1>2, <2>3 DEF InWindow
    <3>2. count' \in {count, count + 1} /\ \E x : req' = [req EXCEPT ![r] = x]
      BY <2>3 DEF RedisFails, GoTo, Go, redis
    <3>. QED BY <3>1, <3>2, KeepsWInv
  <2>4. CASE Receive(r) \/ Expire(r) \/ CheckLimit(r) \/ App(r) \/ Timeout(r)
    BY <2>4, StepKeeps, KeepsWInv
  <2>. QED BY <2>1, <2>2, <2>3, <2>4 DEF Limiter
<1>. QED BY <1>1, <1>2

(* Their numbers map the requests served into 1 .. Limit, no two to one.   *)
LEMMA WInvBounds ==
  ASSUME NEW S \in SUBSET Requests, IInv, WInv(S)
  PROVE  IsFiniteSet(Served(S)) /\ Cardinality(Served(S)) <= Limit
<1>1. \A r \in S : req[r] \in Request /\ Sound(r)
  BY DEF IInv, TypeOK
<1>2. \A r \in Served(S) : IsCounted(req[r]) /\ IsPast(req[r])
  BY <1>1 DEF Served, Sound, Fresh, Request, Stages, IsCounted, IsPast
<1>3. \A r \in Served(S) : req[r].n \in 1 .. Limit
  BY <1>1, <1>2, LimitAssumption DEF WInv, Served, Request
<1>4. [r \in Served(S) |-> req[r].n] \in Injection(Served(S), 1 .. Limit)
  BY <1>2, <1>3 DEF Injection, IsInjective, WInv, Served
<1>5. IsFiniteSet(1 .. Limit) /\ Cardinality(1 .. Limit) = Limit
  BY FS_Interval, LimitAssumption
<1>. QED BY <1>4, <1>5, FS_Injection

(* Of the requests counted in one window at most Limit ever enter the      *)
(* route, however they overlap: from the moment the counter is gone, and   *)
(* until the window ends, as long as Redis answers these requests (those   *)
(* it fails pass uncounted or unchecked; the others may fail and time out  *)
(* as they like).  S has every request that is still to be counted.        *)
THEOREM LimitHoldsInWindow ==
  ASSUME NEW S \in SUBSET Requests
  PROVE  Spec => [](WindowBegins(S) /\ [][InWindow(S)]_vars => [](Cardinality(Served(S)) <= Limit))
<1>1. IInv /\ WindowBegins(S) => WInv(S)
  BY DEF WindowBegins, WInv, IsPast
<1>2. IInv /\ WInv(S) => Cardinality(Served(S)) <= Limit
  BY WInvBounds
<1>3. IInv /\ WInv(S) /\ [Next]_vars /\ [InWindow(S)]_vars => WInv(S)'
  BY NextWInv
<1>. QED BY <1>1, <1>2, <1>3, Invariance, PTL DEF Spec
=============================================================================
