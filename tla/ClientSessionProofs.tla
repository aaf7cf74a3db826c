------------------------- MODULE ClientSessionProofs -------------------------
(***************************************************************************)
(* ClientSession for any number of token pairs and of calls in flight:     *)
(* what overlapping refreshes, logins and logouts, answered in any order,  *)
(* leave in localStorage and in the table.                                 *)
(***************************************************************************)
EXTENDS ClientSession, TLAPS

(***************************************************************************)
(* What the stage of a call says about the rest of it.                     *)
(***************************************************************************)
Shape(r) ==
  /\ r.alone => r.stage \in {"revoke", "withdraw", "written"}
  /\ r.kind = "logout" => r.stage \in {"logout", "withdraw", "written", "bye", "failed"}
  /\ r.stage \in {"logout", "withdraw", "bye"} => r.kind = "logout"
  /\ r.stage = "idle" => r.rt = Nil /\ r.new = Nil
  /\ r.stage = "login" => r.rt = Nil
  /\ r.stage \in {"rotate", "revoke", "logout"} => r.rt # Nil
  /\ r.stage \in {"logout", "withdraw"} => r.new = Nil
  /\ r.stage = "written" => (r.new = Nil <=> r.kind = "logout")
  /\ r.stage = "granted" => r.new # Nil

(* an issued pair is known to its call only, until the answer arrives       *)
Unseen ==
  \A c \in Calls : call[c].new # Nil =>
    /\ call[c].new # refresh /\ record[call[c].new] # "revoked"
    /\ \A d \in Calls : call[d].rt # call[c].new /\ (d # c => call[d].new # call[c].new)
    /\ \A x \in open : x.old # call[c].new

(* a token that is being revoked is one the table has                       *)
Known ==
  /\ \A c \in Calls : call[c].stage \in {"revoke", "withdraw", "written"} /\ call[c].rt # Nil
                        => record[call[c].rt] # "none"
  /\ \A x \in open : x.old # Nil => record[x.old] # "none"

(* the answer to c is on its way, or will be, whatever the database does    *)
Won(c) == call[c].stage \in {"granted", "bye"} \/ (At(c, "written") /\ Txn(c) \notin open)

(* whoever revokes the token the browser has will tell it                   *)
Told ==
  ~torn /\ refresh # Nil =>
    /\ \A x \in open : x.old = refresh =>
         \/ Waiting(x)
         \/ call[x.call].stage \in {"granted", "bye"} /\ call[x.call].rt = refresh
    /\ record[refresh] = "revoked" => \E c \in Calls : Won(c) /\ call[c].rt = refresh

(***************************************************************************)
(* With the commit before the answer, what the browser has is in the table *)
(* and what it has not been told of is not.                                *)
(***************************************************************************)
CommittedFirst ==
  commitFirst =>
    /\ \A x \in open : Waiting(x) /\ (x.new # Nil => record[x.new] = "none")
    /\ refresh # Nil => record[refresh] # "none"
    /\ \A c \in Calls : Won(c) /\ call[c].new # Nil => record[call[c].new] # "none"
    /\ \A c \in Calls : call[c].kind = "logout" /\ call[c].stage # "failed" =>
         /\ call[c].rt # Nil /\ record[call[c].rt] # "none"
         /\ Won(c) => record[call[c].rt] = "revoked"

(* nobody else has come near the token of a call that is alone              *)
Undisturbed(c) ==
  call[c].alone =>
    /\ \A x \in open : x.old = Nil \/ (At(c, "written") /\ x = Txn(c))
    /\ \A d \in Calls \ {c} : call[d].stage \in {"revoke", "withdraw"} => call[d].rt = Nil
    /\ At(c, "revoke") => record[call[c].rt] = "valid"
    /\ At(c, "written") /\ Txn(c) \in open /\ call[c].kind # "logout" /\ call[c].rt # Nil
         => record[call[c].rt] = "valid"

IInv ==
  /\ TypeOK
  /\ \A c \in Calls : Shape(call[c])
  /\ Unseen /\ Known /\ Told /\ CommittedFirst
  /\ \A c \in Calls : Undisturbed(c)

-----------------------------------------------------------------------------
LEMMA IdleFields ==
  /\ Idle \in Call
  /\ Idle.kind = "api" /\ Idle.stage = "idle" /\ Idle.rt = Nil /\ Idle.new = Nil
  /\ Idle.retried = FALSE /\ Idle.alone = FALSE
BY DEF Idle, Call

LEMMA InitIInv == Init => IInv
<1> SUFFICES ASSUME Init PROVE IInv
  OBVIOUS
<1>1. \A c \in Calls : call[c] = Idle
  BY DEF Init
<1>2. TypeOK
  BY IdleFields DEF Init, TypeOK, ServerTypeOK
<1>3. open = {} /\ refresh = Nil
  BY DEF Init
<1>. QED BY <1>1, <1>2, <1>3, IdleFields
     DEF IInv, Shape, Unseen, Known, Told, CommittedFirst, Undisturbed, Won, At

(* a transaction as a record                                                *)
LEMMA TxnFields ==
  ASSUME NEW c
  PROVE  Txn(c).call = c /\ Txn(c).old = call[c].rt /\ Txn(c).new = call[c].new
BY DEF Txn

(***************************************************************************)
(* A call of the browser that goes on without having written anything, and *)
(* without getting tokens: it only forgets, or sends the token the browser *)
(* has.                                                                    *)
(***************************************************************************)
LEMMA TurnStep ==
  ASSUME IInv, NEW c \in Calls, NEW r \in Call,
         call' = [call EXCEPT ![c] = r], UNCHANGED <<record, open, commitFirst, access, refresh, torn>>,
         Shape(r), ~r.alone,
         r.new \in {call[c].new, Nil}, r.rt \in {call[c].rt, Nil, refresh},
         call[c].stage \notin {"written", "granted", "bye"},
         r.stage \notin {"revoke", "written", "granted", "bye"},
         r.stage = "withdraw" => r.rt = Nil,
         commitFirst /\ r.kind = "logout" => r.stage = "failed" \/ (r.stage = "logout" /\ r.rt = refresh)
  PROVE  IInv'
<1>1. TypeOK'
  BY DEF IInv, TypeOK, ServerTypeOK
<1>2. \A d \in Calls : call'[d] = IF d = c THEN r ELSE call[d]
  BY DEF IInv, TypeOK, ServerTypeOK
<1>3. \A d \in Calls : Shape(call'[d])
  BY <1>2 DEF IInv
<1>4. \A d \in Calls : d # c => Txn(d)' = Txn(d)
  BY <1>2 DEF Txn
<1>5. \A x \in open : x.call \in Calls /\ (Waiting(x) => x.call # c)
  BY DEF IInv, TypeOK, ServerTypeOK, Waiting, At
<1>6. \A x \in open : Waiting(x) => Waiting(x)'
  BY <1>2, <1>4, <1>5 DEF Waiting, At
<1>7. /\ \A d \in Calls : d # c => Won(d)' = Won(d)
      /\ ~Won(c) /\ ~Won(c)'
  BY <1>2, <1>4 DEF Won, At
<1>8. Unseen'
  BY <1>2 DEF IInv, Unseen
<1>9. Known'
  BY <1>2 DEF IInv, Known
<1>10. Told'
  <2>1. \A x \in open : call[x.call].stage \in {"granted", "bye"} => call'[x.call] = call[x.call]
    BY <1>2, <1>5
  <2>. QED BY <1>2, <1>6, <1>7, <2>1 DEF IInv, Told
<1>11. CommittedFirst'
  BY <1>2, <1>6, <1>7 DEF IInv, CommittedFirst, Shape
<1>12. \A d \in Calls : Undisturbed(d)'
  BY <1>2, <1>4 DEF IInv, Undisturbed, At
<1>. QED BY <1>1, <1>3, <1>8, <1>9, <1>10, <1>11, <1>12 DEF IInv

(* a request is refused, times out, or is answered                          *)
LEMMA AnswerFields ==
  ASSUME NEW r \in Call, NEW st \in {"request", "denied", "refused", "failed", "granted", "bye"}
  PROVE  LET n == [r EXCEPT !.stage = st, !.alone = FALSE] IN
         /\ n \in Call /\ n.stage = st /\ n.alone = FALSE
         /\ n.kind = r.kind /\ n.rt = r.rt /\ n.new = r.new
BY DEF Call, ServerStages, AnswerStages

LEMMA Answered ==
  ASSUME TypeOK, NEW c \in Calls,
         NEW st \in {"request", "denied", "refused", "failed", "granted", "bye"}, Answer(c, st)
  PROVE  \E r \in Call : /\ call' = [call EXCEPT ![c] = r]
                         /\ r.stage = st /\ r.alone = FALSE
                         /\ r.kind = call[c].kind /\ r.rt = call[c].rt /\ r.new = call[c].new
<1> DEFINE n == [call[c] EXCEPT !.stage = st, !.alone = FALSE]
<1>1. call[c] \in Call
  BY DEF TypeOK, ServerTypeOK
<1>2. /\ n \in Call /\ n.stage = st /\ n.alone = FALSE
      /\ n.kind = call[c].kind /\ n.rt = call[c].rt /\ n.new = call[c].new
  BY <1>1, AnswerFields
<1>3. call' = [call EXCEPT ![c] = n]
  BY DEF Answer, Go
<1> HIDE DEF n
<1>. QED BY <1>2, <1>3

(* the answer to a transaction                                              *)
LEMMA RespondStep ==
  ASSUME IInv, NEW c \in Calls, Respond(c), Keep
  PROVE  IInv'
<1>0. /\ call[c].stage = "written" /\ (commitFirst => Txn(c) \notin open)
      /\ UNCHANGED <<record, open, commitFirst, access, refresh, torn>>
      /\ Shape(call[c])
  BY DEF Respond, At, Keep, browser, IInv
<1>a. PICK st \in {"granted", "bye"} : st = IF call[c].kind = "logout" THEN "bye" ELSE "granted"
  OBVIOUS
<1>b. PICK r \in Call : /\ call' = [call EXCEPT ![c] = r]
                       /\ r.stage = st /\ r.alone = FALSE
                       /\ r.kind = call[c].kind /\ r.rt = call[c].rt /\ r.new = call[c].new
  BY <1>a, Answered DEF Respond, IInv
<1>1. TypeOK'
  BY <1>0, <1>b DEF IInv, TypeOK, ServerTypeOK
<1>2. \A d \in Calls : call'[d] = IF d = c THEN r ELSE call[d]
  BY <1>b DEF IInv, TypeOK, ServerTypeOK
<1>c. Shape(r)
  BY <1>0, <1>a, <1>b DEF Shape
<1>3. \A d \in Calls : Shape(call'[d])
  BY <1>2, <1>c DEF IInv
<1>4. \A d \in Calls : Txn(d)' = Txn(d)
  BY <1>2, <1>b DEF Txn
<1>5. ASSUME NEW x \in open, Waiting(x)
      PROVE  \/ Waiting(x)'
             \/ /\ ~commitFirst /\ call'[x.call].stage \in {"granted", "bye"}
                /\ call'[x.call].rt = x.old
  <2>1. x.call \in Calls
    BY DEF IInv, TypeOK, ServerTypeOK
  <2>2. CASE x.call = c
    BY <1>0, <1>2, <1>a, <1>b, <1>5, <2>2, TxnFields DEF Waiting
  <2>3. CASE x.call # c
    BY <1>2, <1>4, <1>5, <2>1, <2>3 DEF Waiting, At
  <2>. QED BY <2>2, <2>3
<1>6. ASSUME NEW x \in open, call[x.call].stage \in {"granted", "bye"}
      PROVE  call'[x.call] = call[x.call]
  BY <1>0, <1>2, <1>6 DEF IInv, TypeOK, ServerTypeOK
<1>7. /\ \A d \in Calls : Won(d) => Won(d)'
      /\ commitFirst => \A d \in Calls : Won(d)' => Won(d)
  BY <1>0, <1>2, <1>4, <1>a, <1>b DEF Won, At
<1>8. Unseen'
  BY <1>0, <1>2, <1>b DEF IInv, Unseen
<1>9. Known'
  BY <1>0, <1>2, <1>a, <1>b DEF IInv, Known
<1>10. Told'
  <2>1. \A d \in Calls : call'[d].rt = call[d].rt
    BY <1>2, <1>b
  <2>. QED BY <1>0, <1>5, <1>6, <1>7, <2>1 DEF IInv, Told
<1>11. CommittedFirst'
  <2>1. \A d \in Calls : /\ call'[d].rt = call[d].rt /\ call'[d].new = call[d].new
                         /\ call'[d].kind = call[d].kind
                         /\ call'[d].stage # "failed" => call[d].stage # "failed"
    BY <1>0, <1>2, <1>b
  <2>. QED BY <1>0, <1>5, <1>7, <2>1 DEF IInv, CommittedFirst
<1>12. \A d \in Calls : Undisturbed(d)'
  BY <1>0, <1>2, <1>4, <1>a, <1>b DEF IInv, Undisturbed, At
<1>. QED BY <1>1, <1>3, <1>8, <1>9, <1>10, <1>11, <1>12 DEF IInv

(* a transaction reads its row                                              *)
LEMMA EnterFields ==
  ASSUME TypeOK, NEW c \in Calls, NEW st \in {"revoke", "withdraw"}, Enter(c, st)
  PROVE  /\ call' \in [Calls -> Call]
         /\ \A d \in Calls : /\ call'[d].kind = call[d].kind
                             /\ call'[d].rt = call[d].rt /\ call'[d].new = call[d].new
                             /\ call'[d].stage = IF d = c THEN st ELSE call[d].stage
                             /\ d # c => call'[d].alone = FALSE
         /\ call'[c].alone => /\ open = {}
                              /\ \A d \in Calls \ {c} : call[d].stage \notin {"revoke", "withdraw"}
<1> DEFINE others == {d \in Calls \ {c} : call[d].stage \in {"revoke", "withdraw", "written"}}
<1>1. PICK a \in BOOLEAN : a <=> (others = {} /\ open = {})
  BY Zenon
<1>2. call \in [Calls -> Call]
  BY DEF TypeOK, ServerTypeOK
<1> DEFINE own == [call[c] EXCEPT !.stage = st, !.alone = others = {} /\ open = {}]
<1>3. own = [call[c] EXCEPT !.stage = st, !.alone = a]
  <2>1. (others = {} /\ open = {}) = a
    BY <1>1, Zenon
  <2> HIDE DEF others
  <2>. QED BY <2>1
<1>4. /\ own \in Call /\ own.stage = st /\ own.alone = a
      /\ own.kind = call[c].kind /\ own.rt = call[c].rt /\ own.new = call[c].new
  <2> HIDE DEF own
  <2>. QED BY <1>2, <1>3 DEF Call, ServerStages
<1>5. ASSUME NEW d \in Calls
      PROVE  LET n == [call[d] EXCEPT !.alone = FALSE] IN
             /\ n \in Call /\ n.alone = FALSE /\ n.stage = call[d].stage
             /\ n.kind = call[d].kind /\ n.rt = call[d].rt /\ n.new = call[d].new
  BY <1>2 DEF Call
<1>6. call' = [d \in Calls |-> IF d = c THEN own ELSE [call[d] EXCEPT !.alone = FALSE]]
  BY DEF Enter
<1>7. a => open = {} /\ \A d \in Calls \ {c} : call[d].stage \notin {"revoke", "withdraw"}
  BY <1>1
<1> HIDE DEF own, others
<1>8. call'[c] = own /\ \A d \in Calls : d # c => call'[d] = [call[d] EXCEPT !.alone = FALSE]
  BY <1>6
<1>9. call' \in [Calls -> Call]
  BY <1>4, <1>5, <1>6
<1>. QED BY <1>4, <1>5, <1>7, <1>8, <1>9

LEMMA EnterStep ==
  ASSUME IInv, NEW c \in Calls, NEW st \in {"revoke", "withdraw"}, Enter(c, st),
         UNCHANGED <<record, open, commitFirst, access, refresh, torn>>,
         call[c].stage = IF st = "revoke" THEN "rotate" ELSE "logout",
         IF st = "revoke" THEN record[call[c].rt] = "valid" ELSE record[call[c].rt] # "none"
  PROVE  IInv'
<1>0. /\ call' \in [Calls -> Call]
      /\ \A d \in Calls : /\ call'[d].kind = call[d].kind
                          /\ call'[d].rt = call[d].rt /\ call'[d].new = call[d].new
                          /\ call'[d].stage = IF d = c THEN st ELSE call[d].stage
                          /\ d # c => call'[d].alone = FALSE
      /\ call'[c].alone => /\ open = {}
                           /\ \A d \in Calls \ {c} : call[d].stage \notin {"revoke", "withdraw"}
  BY EnterFields DEF IInv
<1>1. TypeOK'
  BY <1>0 DEF IInv, TypeOK, ServerTypeOK
<1>3. ASSUME NEW d \in Calls PROVE Shape(call'[d])
  <2>1. Shape(call[d])
    BY DEF IInv
  <2>. QED BY <1>0, <2>1 DEF Shape
<1>4. \A d \in Calls : Txn(d)' = Txn(d)
  BY <1>0 DEF Txn
<1>5. \A x \in open : x.call \in Calls
  BY DEF IInv, TypeOK, ServerTypeOK
<1>6. \A x \in open : Waiting(x) => Waiting(x)'
  BY <1>0, <1>4, <1>5 DEF Waiting, At
<1>7. \A d \in Calls : Won(d)' <=> Won(d)
  BY <1>0, <1>4 DEF Won, At
<1>8. Unseen'
  BY <1>0 DEF IInv, Unseen
<1>9. Known'
  BY <1>0 DEF IInv, Known
<1>10. Told'
  <2>1. \A x \in open : call[x.call].stage \in {"granted", "bye"} =>
            call'[x.call].stage = call[x.call].stage /\ call'[x.call].rt = call[x.call].rt
    BY <1>0, <1>5
  <2>. QED BY <1>0, <1>6, <1>7, <2>1 DEF IInv, Told
<1>11. CommittedFirst'
  BY <1>0, <1>6, <1>7 DEF IInv, CommittedFirst
<1>12. \A d \in Calls : Undisturbed(d)'
  BY <1>0, <1>4 DEF IInv, Undisturbed, At
<1>. QED BY <1>1, <1>3, <1>8, <1>9, <1>10, <1>11, <1>12 DEF IInv

(***************************************************************************)
(* localStorage is cleared, or the page goes away.                         *)
(***************************************************************************)
LEMMA DropStep ==
  ASSUME IInv, NEW c \in Calls, Drop, UNCHANGED <<record, open, commitFirst>>,
         \/ call' = call
         \/ Go(c, Idle) /\ call[c].stage # "written"
  PROVE  IInv'
<1>0. access' = Nil /\ refresh' = Nil /\ torn' = FALSE
  BY DEF Drop
<1>2. \A d \in Calls : call'[d] = call[d] \/ (d = c /\ call'[d] = Idle /\ call[c].stage # "written")
  BY DEF IInv, TypeOK, ServerTypeOK, Go
<1>1. TypeOK'
  BY <1>0, IdleFields DEF IInv, TypeOK, ServerTypeOK, Go
<1>3. \A d \in Calls : Shape(call'[d])
  BY <1>2, IdleFields DEF IInv, Shape
<1>4. \A d \in Calls : call'[d] = call[d] => Txn(d)' = Txn(d)
  BY DEF Txn
<1>5. \A x \in open : x.call \in Calls
  BY DEF IInv, TypeOK, ServerTypeOK
<1>6. \A x \in open : Waiting(x) => Waiting(x)'
  BY <1>2, <1>4, <1>5 DEF Waiting, At
<1>7. \A d \in Calls : Won(d)' => Won(d) /\ call'[d] = call[d]
  BY <1>2, <1>4, IdleFields DEF Won, At
<1>8. Unseen'
  BY <1>0, <1>2, IdleFields DEF IInv, Unseen
<1>9. Known'
  BY <1>2, IdleFields DEF IInv, Known
<1>10. Told'
  BY <1>0 DEF Told
<1>11. CommittedFirst'
  BY <1>0, <1>2, <1>6, <1>7, IdleFields DEF IInv, CommittedFirst
<1>12. \A d \in Calls : Undisturbed(d)'
  BY <1>2, <1>4, IdleFields DEF IInv, Undisturbed, At
<1>. QED BY <1>1, <1>3, <1>8, <1>9, <1>10, <1>11, <1>12 DEF IInv

LEMMA UnloadStep ==
  ASSUME IInv, NEW c \in Calls, Unload(c)
  PROVE  IInv'
<1>0. /\ call' = [call EXCEPT ![c] = Idle] /\ call[c].stage \in AnswerStages
      /\ UNCHANGED <<record, open, commitFirst, access, refresh>>
      /\ torn' = (torn \/ (call[c].stage \in {"granted", "bye"} /\ refresh # Nil /\ call[c].rt = refresh))
  BY DEF Unload, Go, server
<1>a. call[c].stage # "written"
  BY <1>0 DEF AnswerStages
<1>b. torn' \in BOOLEAN
  BY <1>0, Zenon
<1>1. TypeOK'
  BY <1>0, <1>b, IdleFields DEF IInv, TypeOK, ServerTypeOK
<1>2. \A d \in Calls : call'[d] = IF d = c THEN Idle ELSE call[d]
  BY <1>0 DEF IInv, TypeOK, ServerTypeOK
<1>3. \A d \in Calls : Shape(call'[d])
  BY <1>2, IdleFields DEF IInv, Shape
<1>4. \A d \in Calls : d # c => Txn(d)' = Txn(d)
  BY <1>2 DEF Txn
<1>5. \A x \in open : x.call \in Calls
  BY DEF IInv, TypeOK, ServerTypeOK
<1>6. \A x \in open : Waiting(x) => Waiting(x)'
  BY <1>0, <1>a, <1>2, <1>4, <1>5 DEF Waiting, At
<1>7. \A d \in Calls : /\ d # c => (Won(d)' <=> Won(d))
                       /\ Won(d)' => d # c
                       /\ Won(c) => call[c].stage \in {"granted", "bye"}
  BY <1>0, <1>a, <1>2, <1>4, IdleFields DEF Won, At
<1>8. Unseen'
  BY <1>0, <1>2, IdleFields DEF IInv, Unseen
<1>9. Known'
  BY <1>0, <1>2, IdleFields DEF IInv, Known
<1>10. Told'
  <2> SUFFICES ASSUME ~torn', refresh # Nil
               PROVE  /\ \A x \in open : x.old = refresh =>
                           \/ Waiting(x)'
                           \/ call'[x.call].stage \in {"granted", "bye"} /\ call'[x.call].rt = refresh
                      /\ record[refresh] = "revoked" => \E d \in Calls : Won(d)' /\ call'[d].rt = refresh
    BY <1>0 DEF Told
  <2>1. ~torn /\ ~(call[c].stage \in {"granted", "bye"} /\ call[c].rt = refresh)
    BY <1>0
  <2>. QED BY <1>2, <1>5, <1>6, <1>7, <2>1 DEF IInv, Told
<1>11. CommittedFirst'
  BY <1>0, <1>2, <1>6, <1>7, IdleFields DEF IInv, CommittedFirst
<1>12. \A d \in Calls : Undisturbed(d)'
  BY <1>0, <1>2, <1>4, IdleFields DEF IInv, Undisturbed, At
<1>. QED BY <1>1, <1>3, <1>8, <1>9, <1>10, <1>11, <1>12 DEF IInv

-----------------------------------------------------------------------------
(* tokens arrive                                                            *)
LEMMA GrantedStep ==
  ASSUME IInv, NEW c \in Calls, OnGranted(c)
  PROVE  IInv'
<1>0. /\ call[c].stage = "granted" /\ Shape(call[c]) /\ call[c] \in Call
      /\ access' = call[c].new /\ refresh' = call[c].new /\ torn' = FALSE
      /\ UNCHANGED <<record, open, commitFirst>>
  BY DEF OnGranted, At, Store, server, IInv, TypeOK, ServerTypeOK
<1>a. call[c].new # Nil /\ call[c].new \in Pairs
  BY <1>0 DEF Shape, Call
<1>b. PICK r \in Call : /\ call' = [call EXCEPT ![c] = r]
                       /\ r.stage \in {"login", "request"} /\ r.kind \in {"login", "api"}
                       /\ r.rt = Nil /\ r.new = Nil /\ r.alone = FALSE
  <2>1. PICK k \in {"login", "api"}, st \in {"login", "request"}, a \in BOOLEAN :
          call' = [call EXCEPT ![c] = [Idle EXCEPT !.kind = k, !.stage = st, !.retried = a]]
    <3>1. PICK a \in BOOLEAN : a = (call[c].rt # Nil)
      BY Zenon
    <3>2. PICK b \in BOOLEAN : b = (call[c].rt # Nil /\ call[c].kind = "login")
      BY Zenon
    <3>3. call' = [call EXCEPT ![c] =
                     [Idle EXCEPT !.kind = IF b THEN "login" ELSE "api",
                                  !.stage = IF b THEN "login" ELSE "request", !.retried = a]]
      BY <3>1, <3>2, Zenon DEF OnGranted, Go
    <3>. QED BY <3>3
  <2> DEFINE n == [Idle EXCEPT !.kind = k, !.stage = st, !.retried = a]
  <2>2. /\ n \in Call /\ n.stage = st /\ n.kind = k
        /\ n.rt = Nil /\ n.new = Nil /\ n.alone = FALSE
    BY IdleFields DEF Call, ServerStages
  <2>3. call' = [call EXCEPT ![c] = n]
    BY <2>1
  <2> HIDE DEF n
  <2>. QED BY <2>2, <2>3
<1>1. TypeOK'
  BY <1>0, <1>a, <1>b DEF IInv, TypeOK, ServerTypeOK
<1>2. \A d \in Calls : call'[d] = IF d = c THEN r ELSE call[d]
  BY <1>b DEF IInv, TypeOK, ServerTypeOK
<1>3. \A d \in Calls : Shape(call'[d])
  BY <1>2, <1>b DEF IInv, Shape
<1>4. \A d \in Calls : d # c => Txn(d)' = Txn(d)
  BY <1>2 DEF Txn
<1>5. \A x \in open : x.call \in Calls
  BY DEF IInv, TypeOK, ServerTypeOK
<1>6. \A x \in open : Waiting(x) => Waiting(x)'
  BY <1>0, <1>2, <1>4, <1>5 DEF Waiting, At
<1>7. Won(c) /\ \A d \in Calls : Won(d)' => d # c /\ Won(d)
  BY <1>0, <1>b, <1>2, <1>4 DEF Won, At
<1>8. Unseen'
  BY <1>0, <1>a, <1>b, <1>2 DEF IInv, Unseen
<1>9. Known'
  BY <1>0, <1>b, <1>2 DEF IInv, Known
<1>10. Told'
  <2>1. record[refresh'] # "revoked" /\ \A x \in open : x.old # refresh'
    BY <1>0, <1>a DEF IInv, Unseen
  <2>. QED BY <1>0, <2>1 DEF Told
<1>11. CommittedFirst'
  BY <1>0, <1>a, <1>b, <1>2, <1>6, <1>7 DEF IInv, CommittedFirst
<1>12. \A d \in Calls : Undisturbed(d)'
  BY <1>0, <1>b, <1>2, <1>4 DEF IInv, Undisturbed, At
<1>. QED BY <1>1, <1>3, <1>8, <1>9, <1>10, <1>11, <1>12 DEF IInv

-----------------------------------------------------------------------------
(***************************************************************************)
(* A transaction writes and waits for its commit.                          *)
(***************************************************************************)
(* what is in use is not given out again                                    *)
LEMMA HeldIsNotFree ==
  ASSUME TypeOK
  PROVE  /\ refresh \notin Free
         /\ \A d \in Calls : call[d].rt \notin Free /\ call[d].new \notin Free
         /\ \A x \in open : x.old \notin Free /\ x.new \notin Free
<1>1. ASSUME NEW d \in Calls PROVE {call[d].rt, call[d].new} \subseteq Held
  <2>1. {call[d].rt, call[d].new} \in {{call[e].rt, call[e].new} : e \in Calls}
    OBVIOUS
  <2>. QED BY <2>1 DEF Held
<1>2. ASSUME NEW x \in open PROVE {x.old, x.new} \subseteq Held
  <2>1. {x.old, x.new} \in {{y.old, y.new} : y \in open}
    OBVIOUS
  <2>2. {x.old, x.new} \subseteq UNION {{y.old, y.new} : y \in open}
    BY <2>1, Zenon
  <2>. QED BY <2>2, Zenon DEF Held
<1>3. Free \cap Held = {} /\ refresh \notin Free
  BY DEF Free
<1> HIDE DEF Free, Held
<1>. QED BY <1>1, <1>2, <1>3

LEMMA IssueStep ==
  ASSUME IInv, NEW c \in Calls, Issue(c, Free), call[c].stage \in {"login", "revoke"},
         ~Locked(call[c].rt), UNCHANGED <<access, refresh, torn>>
  PROVE  IInv'
<1>a. PICK p \in Free :
        /\ call' = [call EXCEPT ![c] = [call[c] EXCEPT !.stage = "written", !.new = p]]
        /\ record' = [q \in Pairs |-> IF q \in Free THEN "none" ELSE record[q]]
        /\ open' = open \cup {[call |-> c, old |-> call[c].rt, new |-> p]}
  BY DEF Issue, Go
<1>0. /\ p \in Pairs /\ p # Nil /\ Shape(call[c]) /\ call[c] \in Call
      /\ UNCHANGED <<commitFirst, access, refresh, torn>>
  BY PairsAssumption DEF Free, IInv, TypeOK, ServerTypeOK, Issue
<1>b. PICK r \in Call : /\ call' = [call EXCEPT ![c] = r]
                       /\ r.stage = "written" /\ r.new = p
                       /\ r.rt = call[c].rt /\ r.kind = call[c].kind /\ r.alone = call[c].alone
  <2> DEFINE n == [call[c] EXCEPT !.stage = "written", !.new = p]
  <2>1. /\ n \in Call /\ n.stage = "written" /\ n.new = p
        /\ n.rt = call[c].rt /\ n.kind = call[c].kind /\ n.alone = call[c].alone
    BY <1>0 DEF Call, ServerStages
  <2>2. call' = [call EXCEPT ![c] = n]
    BY <1>a
  <2> HIDE DEF n
  <2>. QED BY <2>1, <2>2
<1>c. PICK y : /\ y = [call |-> c, old |-> call[c].rt, new |-> p]
               /\ y \in [call : Calls, old : Pairs \cup {Nil}, new : Pairs \cup {Nil}]
               /\ y.call = c /\ y.old = call[c].rt /\ y.new = p
               /\ open' = open \cup {y}
  BY <1>0, <1>a DEF Call
<1>d. /\ record' \in [Pairs -> {"none", "valid", "revoked"}]
      /\ \A q \in Pairs : record'[q] = IF q \in Free THEN "none" ELSE record[q]
  BY <1>a DEF IInv, TypeOK, ServerTypeOK
<1>e. /\ refresh \notin Free
      /\ \A d \in Calls : call[d].rt \notin Free /\ call[d].new \notin Free
      /\ \A x \in open : x.old \notin Free /\ x.new \notin Free
  BY HeldIsNotFree DEF IInv
<1>f. /\ refresh # Nil => refresh \in Pairs
      /\ \A d \in Calls : /\ call[d].rt # Nil => call[d].rt \in Pairs
                          /\ call[d].new # Nil => call[d].new \in Pairs
      /\ \A x \in open : /\ x.call \in Calls
                         /\ x.old # Nil => x.old \in Pairs
                         /\ x.new # Nil => x.new \in Pairs
  BY DEF IInv, TypeOK, ServerTypeOK, Call
<1>g. call[c].kind # "logout" /\ (call[c].stage = "login" => call[c].rt = Nil /\ ~call[c].alone)
  BY <1>0 DEF Shape
<1>1. TypeOK'
  BY <1>0, <1>b, <1>c, <1>d DEF IInv, TypeOK, ServerTypeOK
<1>2. \A d \in Calls : call'[d] = IF d = c THEN r ELSE call[d]
  BY <1>b DEF IInv, TypeOK, ServerTypeOK
<1>h. Shape(r)
  BY <1>0, <1>b, <1>g DEF Shape
<1>3. \A d \in Calls : Shape(call'[d])
  BY <1>2, <1>h DEF IInv
<1>4. Txn(c)' = y /\ \A d \in Calls : d # c => Txn(d)' = Txn(d) /\ Txn(d) # y
  BY <1>2, <1>b, <1>c, TxnFields DEF Txn
<1>5. \A x \in open : Waiting(x) => x.call # c
  BY DEF Waiting, At
<1>6. Waiting(y)' /\ \A x \in open : Waiting(x) => Waiting(x)'
  BY <1>2, <1>b, <1>c, <1>4, <1>5, <1>f DEF Waiting, At
<1>7. ~Won(c) /\ ~Won(c)' /\ \A d \in Calls : d # c => (Won(d)' <=> Won(d))
  BY <1>2, <1>b, <1>c, <1>4 DEF Won, At
<1>8. Unseen'
  <2> SUFFICES ASSUME NEW d \in Calls, call'[d].new # Nil
               PROVE  /\ call'[d].new # refresh /\ record'[call'[d].new] # "revoked"
                      /\ \A e \in Calls : /\ call'[e].rt # call'[d].new
                                          /\ e # d => call'[e].new # call'[d].new
                      /\ \A x \in open' : x.old # call'[d].new
    BY <1>0 DEF Unseen
  <2>1. CASE d = c
    BY <1>0, <1>b, <1>c, <1>d, <1>e, <1>2, <2>1
  <2>2. CASE d # c
    BY <1>b, <1>c, <1>d, <1>e, <1>f, <1>2, <2>2 DEF IInv, Unseen
  <2>. QED BY <2>1, <2>2
<1>9. Known'
  BY <1>b, <1>c, <1>d, <1>e, <1>f, <1>g, <1>2 DEF IInv, Known
<1>10. Told'
  <2>1. \A x \in open : call[x.call].stage \in {"granted", "bye"} => call'[x.call] = call[x.call]
    BY <1>2, <1>f
  <2>. QED BY <1>0, <1>b, <1>c, <1>d, <1>e, <1>f, <1>2, <1>6, <1>7, <2>1 DEF IInv, Told
<1>11. CommittedFirst'
  BY <1>0, <1>b, <1>c, <1>d, <1>e, <1>f, <1>g, <1>2, <1>6, <1>7 DEF IInv, CommittedFirst
<1>12. ASSUME NEW d \in Calls PROVE Undisturbed(d)'
  <2>1. Undisturbed(d)
    BY DEF IInv
  <2>2. CASE d = c
    BY <1>b, <1>c, <1>d, <1>e, <1>f, <1>g, <1>2, <1>4, <2>1, <2>2 DEF Undisturbed, At
  <2>3. CASE d # c
    <3>1. call[d].alone => y.old = Nil
      BY <1>0, <1>c, <1>g, <2>1, <2>3 DEF Undisturbed
    <3> SUFFICES ASSUME call[d].alone PROVE Undisturbed(d)'
      BY <1>2, <2>3 DEF Undisturbed
    <3>2. /\ \A x \in open : x.old = Nil \/ (At(d, "written") /\ x = Txn(d))
          /\ \A e \in Calls \ {d} : call[e].stage \in {"revoke", "withdraw"} => call[e].rt = Nil
          /\ At(d, "revoke") => record[call[d].rt] = "valid"
          /\ At(d, "written") /\ Txn(d) \in open /\ call[d].kind # "logout" /\ call[d].rt # Nil
               => record[call[d].rt] = "valid"
      BY <2>1 DEF Undisturbed
    <3>3. At(d, "written")' = At(d, "written") /\ At(d, "revoke")' = At(d, "revoke")
      BY <1>2, <2>3 DEF At
    <3>4. (\A x \in open : x.old = Nil \/ (At(d, "written") /\ x = Txn(d)))'
      BY <1>c, <1>4, <2>3, <3>1, <3>2, <3>3
    <3>5. (\A e \in Calls \ {d} : call[e].stage \in {"revoke", "withdraw"} => call[e].rt = Nil)'
      BY <1>b, <1>2, <3>2
    <3>6. call'[d] = call[d] /\ (call[d].rt # Nil => record'[call[d].rt] = record[call[d].rt])
      BY <1>d, <1>e, <1>f, <1>2, <2>3
    <3>7. (At(d, "revoke") => record[call[d].rt] = "valid")'
      <4>1. At(d, "revoke") => call[d].rt # Nil
        BY DEF IInv, Shape, At
      <4>. QED BY <3>2, <3>3, <3>6, <4>1
    <3>8. (At(d, "written") /\ Txn(d) \in open /\ call[d].kind # "logout" /\ call[d].rt # Nil
               => record[call[d].rt] = "valid")'
      BY <1>c, <1>4, <2>3, <3>2, <3>3, <3>6
    <3>. QED BY <3>4, <3>5, <3>7, <3>8 DEF Undisturbed
  <2>. QED BY <2>2, <2>3
<1>. QED BY <1>1, <1>3, <1>8, <1>9, <1>10, <1>11, <1>12 DEF IInv

LEMMA WithdrawStep ==
  ASSUME IInv, NEW c \in Calls, Withdraw(c), Keep
  PROVE  IInv'
<1>0. /\ call[c].stage = "withdraw" /\ ~Locked(call[c].rt)
      /\ UNCHANGED <<record, commitFirst, access, refresh, torn>>
      /\ Shape(call[c]) /\ call[c] \in Call
  BY DEF Withdraw, At, Keep, browser, IInv, TypeOK, ServerTypeOK
<1>g. call[c].kind = "logout" /\ call[c].new = Nil
  BY <1>0 DEF Shape
<1>b. PICK r \in Call : /\ call' = [call EXCEPT ![c] = r]
                       /\ r.stage = "written" /\ r.new = Nil
                       /\ r.rt = call[c].rt /\ r.kind = "logout" /\ r.alone = call[c].alone
  <2> DEFINE n == [call[c] EXCEPT !.stage = "written"]
  <2>1. /\ n \in Call /\ n.stage = "written" /\ n.new = Nil
        /\ n.rt = call[c].rt /\ n.kind = "logout" /\ n.alone = call[c].alone
    BY <1>0, <1>g DEF Call, ServerStages
  <2>2. call' = [call EXCEPT ![c] = n]
    BY DEF Withdraw, Go
  <2> HIDE DEF n
  <2>. QED BY <2>1, <2>2
<1>c. PICK y : /\ y = Txn(c)
               /\ y \in [call : Calls, old : Pairs \cup {Nil}, new : Pairs \cup {Nil}]
               /\ y.call = c /\ y.old = call[c].rt /\ y.new = Nil
               /\ open' = open \cup {y}
  BY <1>0, <1>g DEF Call, Withdraw, Txn
<1>f. \A x \in open : x.call \in Calls
  BY DEF IInv, TypeOK, ServerTypeOK
<1>1. TypeOK'
  BY <1>0, <1>b, <1>c DEF IInv, TypeOK, ServerTypeOK
<1>2. \A d \in Calls : call'[d] = IF d = c THEN r ELSE call[d]
  BY <1>b DEF IInv, TypeOK, ServerTypeOK
<1>h. Shape(r)
  BY <1>0, <1>b DEF Shape
<1>3. \A d \in Calls : Shape(call'[d])
  BY <1>2, <1>h DEF IInv
<1>4. Txn(c)' = y /\ \A d \in Calls : d # c => Txn(d)' = Txn(d) /\ Txn(d) # y
  BY <1>2, <1>b, <1>c, <1>g, TxnFields DEF Txn
<1>5. \A x \in open : Waiting(x) => x.call # c
  BY <1>0 DEF Waiting, At
<1>6. Waiting(y)' /\ \A x \in open : Waiting(x) => Waiting(x)'
  BY <1>2, <1>b, <1>c, <1>4, <1>5, <1>f DEF Waiting, At
<1>7. ~Won(c) /\ ~Won(c)' /\ \A d \in Calls : d # c => (Won(d)' <=> Won(d))
  BY <1>0, <1>2, <1>b, <1>c, <1>4 DEF Won, At
<1>8. Unseen'
  BY <1>0, <1>b, <1>c, <1>2 DEF IInv, Unseen
<1>9. Known'
  BY <1>0, <1>b, <1>c, <1>2 DEF IInv, Known
<1>10. Told'
  <2>1. \A x \in open : call[x.call].stage \in {"granted", "bye"} => call'[x.call] = call[x.call]
    BY <1>0, <1>2, <1>f
  <2>. QED BY <1>0, <1>b, <1>c, <1>2, <1>6, <1>7, <2>1 DEF IInv, Told
<1>11. CommittedFirst'
  BY <1>0, <1>b, <1>c, <1>g, <1>2, <1>6, <1>7 DEF IInv, CommittedFirst
<1>12. ASSUME NEW d \in Calls PROVE Undisturbed(d)'
  <2>1. Undisturbed(d)
    BY DEF IInv
  <2>2. CASE d = c
    BY <1>0, <1>b, <1>c, <1>2, <1>4, <2>1, <2>2 DEF Undisturbed, At
  <2>3. CASE d # c
    <3> SUFFICES ASSUME call[d].alone PROVE Undisturbed(d)'
      BY <1>2, <2>3 DEF Undisturbed
    <3>1. y.old = Nil
      BY <1>0, <1>c, <2>1, <2>3 DEF Undisturbed
    <3>. QED BY <1>0, <1>b, <1>c, <1>2, <1>4, <2>1, <2>3, <3>1 DEF Undisturbed, At
  <2>. QED BY <2>2, <2>3
<1>. QED BY <1>1, <1>3, <1>8, <1>9, <1>10, <1>11, <1>12 DEF IInv

-----------------------------------------------------------------------------
(***************************************************************************)
(* The end of a transaction.                                               *)
(***************************************************************************)
LEMMA CommitOpen ==
  ASSUME IInv, NEW x \in open, Commit(x), Keep
  PROVE  IInv'
<1>0. /\ commitFirst \/ ~Waiting(x)
      /\ open' = open \ {x}
      /\ UNCHANGED <<call, commitFirst, access, refresh, torn>>
  BY DEF Commit, Keep, browser
<1>a. /\ record' \in [Pairs -> {"none", "valid", "revoked"}]
      /\ \A q \in Pairs : record'[q] = IF q = x.old THEN "revoked"
                                       ELSE IF q = x.new THEN "valid" ELSE record[q]
  BY DEF Commit, IInv, TypeOK, ServerTypeOK
<1>f. /\ refresh # Nil => refresh \in Pairs
      /\ \A d \in Calls : /\ call[d].rt # Nil => call[d].rt \in Pairs
                          /\ call[d].new # Nil => call[d].new \in Pairs
      /\ \A z \in open : /\ z.call \in Calls
                         /\ z.old # Nil => z.old \in Pairs
                         /\ z.new # Nil => z.new \in Pairs
  BY DEF IInv, TypeOK, ServerTypeOK, Call
<1>1. TypeOK'
  BY <1>0, <1>a DEF IInv, TypeOK, ServerTypeOK
<1>3. \A d \in Calls : Shape(call'[d])
  BY <1>0 DEF IInv
<1>4. \A d \in Calls : Txn(d)' = Txn(d)
  BY <1>0 DEF Txn
<1>6. \A z \in open : Waiting(z)' <=> Waiting(z)
  BY <1>0, <1>4, <1>f DEF Waiting, At
<1>7. \A d \in Calls : Won(d)' <=> Won(d) \/ (At(d, "written") /\ Txn(d) = x)
  BY <1>0, <1>4 DEF Won, At
<1>8. Unseen'
  BY <1>0, <1>a, <1>f DEF IInv, Unseen
<1>9. Known'
  BY <1>0, <1>a, <1>f DEF IInv, Known
<1>10. Told'
  <2> SUFFICES ASSUME ~torn, refresh # Nil
               PROVE  /\ \A z \in open \ {x} : z.old = refresh =>
                           \/ Waiting(z)
                           \/ call[z.call].stage \in {"granted", "bye"} /\ call[z.call].rt = refresh
                      /\ record'[refresh] = "revoked" => \E d \in Calls : Won(d)' /\ call[d].rt = refresh
    BY <1>0, <1>6 DEF Told
  <2>1. /\ \A z \in open : z.old = refresh =>
             \/ Waiting(z)
             \/ call[z.call].stage \in {"granted", "bye"} /\ call[z.call].rt = refresh
        /\ record[refresh] = "revoked" => \E d \in Calls : Won(d) /\ call[d].rt = refresh
    BY DEF IInv, Told
  <2>2. CASE x.old = refresh
    <3>1. CASE Waiting(x)
      <4>1. At(x.call, "written") /\ Txn(x.call) = x /\ x.call \in Calls
        BY <1>f, <3>1 DEF Waiting
      <4>2. call[x.call].rt = refresh
        BY <2>2, <4>1, TxnFields
      <4>. QED BY <1>7, <2>1, <4>1, <4>2
    <3>2. CASE call[x.call].stage \in {"granted", "bye"} /\ call[x.call].rt = refresh
      BY <1>7, <1>f, <2>1, <3>2 DEF Won
    <3>. QED BY <2>1, <2>2, <3>1, <3>2
  <2>3. CASE x.old # refresh
    BY <1>7, <1>a, <1>f, <2>1, <2>3
  <2>. QED BY <2>2, <2>3
<1>11. CommittedFirst'
  <2> SUFFICES ASSUME commitFirst PROVE CommittedFirst'
    BY <1>0 DEF CommittedFirst
  <2>1. /\ \A z \in open : Waiting(z) /\ (z.new # Nil => record[z.new] = "none")
        /\ refresh # Nil => record[refresh] # "none"
        /\ \A c \in Calls : Won(c) /\ call[c].new # Nil => record[call[c].new] # "none"
        /\ \A c \in Calls : call[c].kind = "logout" /\ call[c].stage # "failed" =>
             /\ call[c].rt # Nil /\ record[call[c].rt] # "none"
             /\ Won(c) => record[call[c].rt] = "revoked"
    BY DEF IInv, CommittedFirst
  <2>2. ASSUME NEW z \in open, z # x, z.new # Nil PROVE record'[z.new] = "none"
    <3>1. z.new # x.old
      BY <1>f, <2>1, <2>2 DEF IInv, Known
    <3>2. z.new # x.new
      <4>1. Txn(z.call) = z /\ Txn(x.call) = x
        BY <2>1 DEF Waiting
      <4>2. z.call # x.call
        BY <2>2, <4>1
      <4>3. call[z.call].new = z.new /\ call[x.call].new = x.new
        BY <4>1, TxnFields
      <4>. QED BY <1>f, <2>2, <4>2, <4>3 DEF IInv, Unseen
    <3>. QED BY <1>a, <1>f, <2>1, <2>2, <3>1, <3>2
  <2>3. refresh # Nil => record'[refresh] # "none"
    BY <1>a, <1>f, <2>1
  <2>4. ASSUME NEW c \in Calls, Won(c)', call[c].new # Nil PROVE record'[call[c].new] # "none"
    <3>1. CASE Won(c)
      BY <1>a, <1>f, <2>1, <2>4, <3>1
    <3>2. CASE Txn(c) = x
      <4>1. call[c].new = x.new
        BY <3>2, TxnFields
      <4>. QED BY <1>a, <1>f, <2>4, <4>1
    <3>. QED BY <1>7, <2>4, <3>1, <3>2
  <2>5. ASSUME NEW c \in Calls, call[c].kind = "logout", call[c].stage # "failed"
        PROVE  /\ call[c].rt # Nil /\ record'[call[c].rt] # "none"
               /\ Won(c)' => record'[call[c].rt] = "revoked"
    <3>1. call[c].rt # Nil /\ record[call[c].rt] # "none" /\ call[c].rt # x.new
      BY <1>f, <2>1, <2>5
    <3>2. CASE Txn(c) = x
      <4>1. call[c].rt = x.old
        BY <3>2, TxnFields
      <4>. QED BY <1>a, <1>f, <3>1, <4>1
    <3>3. CASE Txn(c) # x
      BY <1>7, <1>a, <1>f, <2>1, <2>5, <3>1, <3>3
    <3>. QED BY <3>2, <3>3
  <2>. QED BY <1>0, <1>6, <2>1, <2>2, <2>3, <2>4, <2>5 DEF CommittedFirst
<1>12. ASSUME NEW d \in Calls PROVE Undisturbed(d)'
  <2>1. Undisturbed(d) /\ Shape(call[d])
    BY DEF IInv
  <2> SUFFICES ASSUME call[d].alone PROVE Undisturbed(d)'
    BY <1>0 DEF Undisturbed
  <2>2. \A z \in open : z.old = Nil \/ (At(d, "written") /\ z = Txn(d))
    BY <2>1 DEF Undisturbed
  <2>3. At(d, "revoke")' => record'[call[d].rt] = "valid"
    <3> SUFFICES ASSUME At(d, "revoke") PROVE record'[call[d].rt] = "valid"
      BY <1>0 DEF At
    <3>1. x.old = Nil /\ call[d].rt # Nil /\ record[call[d].rt] = "valid"
      BY <2>1, <2>2 DEF Undisturbed, Shape, At
    <3>. QED BY <1>a, <1>f, <3>1
  <2>4. At(d, "written") /\ Txn(d) \in open /\ Txn(d) # x /\ call[d].kind # "logout" /\ call[d].rt # Nil
          => record'[call[d].rt] = "valid"
    BY <1>a, <1>f, <2>1, <2>2 DEF Undisturbed
  <2>. QED BY <1>0, <1>4, <2>1, <2>3, <2>4 DEF Undisturbed, At
<1>. QED BY <1>1, <1>3, <1>8, <1>9, <1>10, <1>11, <1>12 DEF IInv

(* a commit fails: a client that waits for it is told, one that does not    *)
(* has been answered before                                                 *)
LEMMA CommitFailsOpen ==
  ASSUME IInv, NEW x \in open, CommitFails(x), Keep
  PROVE  IInv'
<1>0. /\ commitFirst \/ ~Waiting(x)
      /\ open' = open \ {x}
      /\ UNCHANGED <<record, commitFirst, access, refresh, torn>>
      /\ x.call \in Calls
  BY DEF CommitFails, Keep, browser, IInv, TypeOK, ServerTypeOK
<1>a. /\ call' \in [Calls -> Call]
      /\ \A d \in Calls : /\ call'[d].kind = call[d].kind
                          /\ call'[d].rt = call[d].rt /\ call'[d].new = call[d].new
                          /\ \/ call'[d] = call[d] /\ ~(Waiting(x) /\ d = x.call)
                             \/ /\ Waiting(x) /\ d = x.call
                                /\ call'[d].stage = "failed" /\ call'[d].alone = FALSE
  <2>0. call \in [Calls -> Call]
    BY DEF IInv, TypeOK, ServerTypeOK
  <2>1. CASE Waiting(x)
    <3>1. PICK r \in Call : /\ call' = [call EXCEPT ![x.call] = r]
                           /\ r.stage = "failed" /\ r.alone = FALSE /\ r.kind = call[x.call].kind
                           /\ r.rt = call[x.call].rt /\ r.new = call[x.call].new
      BY <1>0, <2>1, Answered DEF CommitFails, IInv
    <3>. QED BY <1>0, <2>0, <2>1, <3>1
  <2>2. CASE ~Waiting(x)
    <3>1. call' = call
      BY <2>2 DEF CommitFails
    <3>. QED BY <2>0, <2>2, <3>1
  <2>. QED BY <2>1, <2>2
<1>b. Waiting(x) => call[x.call].stage = "written" /\ Txn(x.call) = x
  BY DEF Waiting, At
<1>1. TypeOK'
  BY <1>0, <1>a DEF IInv, TypeOK, ServerTypeOK
<1>3. ASSUME NEW d \in Calls PROVE Shape(call'[d])
  <2>1. Shape(call[d])
    BY DEF IInv
  <2>. QED BY <1>a, <1>b, <2>1 DEF Shape
<1>4. \A d \in Calls : Txn(d)' = Txn(d)
  BY <1>a DEF Txn
<1>5. \A z \in open : z.call \in Calls
  BY DEF IInv, TypeOK, ServerTypeOK
<1>6. ASSUME NEW z \in open', Waiting(z) PROVE Waiting(z)'
  <2>1. z.call \in Calls /\ At(z.call, "written") /\ Txn(z.call) = z /\ z # x
    BY <1>0, <1>5, <1>6 DEF Waiting
  <2>2. ~(Waiting(x) /\ z.call = x.call)
    BY <1>b, <2>1
  <2>3. call'[z.call] = call[z.call]
    BY <1>a, <2>1, <2>2
  <2>. QED BY <1>4, <2>1, <2>3 DEF Waiting, At
<1>7. \A d \in Calls : /\ call[d].stage \in {"granted", "bye"} => call'[d] = call[d]
                       /\ Won(d) => Won(d)'
                       /\ Won(d)' /\ commitFirst => Won(d)
  <2> SUFFICES ASSUME NEW d \in Calls
               PROVE  /\ call[d].stage \in {"granted", "bye"} => call'[d] = call[d]
                      /\ Won(d) => Won(d)'
                      /\ Won(d)' /\ commitFirst => Won(d)
    OBVIOUS
  <2>1. Txn(d)' = Txn(d)
    BY <1>4
  <2>2. CASE Waiting(x) /\ d = x.call
    <3>1. call[d].stage = "written" /\ Txn(d) \in open /\ call'[d].stage = "failed"
      BY <1>a, <1>b, <2>2
    <3>. QED BY <3>1 DEF Won, At
  <2>3. CASE ~(Waiting(x) /\ d = x.call)
    <3>1. call'[d] = call[d]
      BY <1>a, <2>3
    <3>2. At(d, "written") /\ Txn(d) = x => ~commitFirst
      <4>1. Txn(d).call = d
        BY TxnFields
      <4>. QED BY <1>0, <2>3, <4>1 DEF Waiting
    <3>. QED BY <1>0, <2>1, <3>1, <3>2 DEF Won, At
  <2>. QED BY <2>2, <2>3
<1>8. Unseen'
  BY <1>0, <1>a DEF IInv, Unseen
<1>9. Known'
  BY <1>0, <1>a DEF IInv, Known
<1>10. Told'
  BY <1>0, <1>a, <1>5, <1>6, <1>7 DEF IInv, Told
<1>11. CommittedFirst'
  BY <1>0, <1>a, <1>6, <1>7 DEF IInv, CommittedFirst
<1>12. ASSUME NEW d \in Calls PROVE Undisturbed(d)'
  <2> SUFFICES ASSUME call'[d].alone PROVE Undisturbed(d)'
    BY DEF Undisturbed
  <2>1. call'[d] = call[d] /\ Txn(d)' = Txn(d) /\ Undisturbed(d)
    BY <1>a, <1>4 DEF IInv
  <2>2. \A e \in Calls : call'[e].rt = call[e].rt
                         /\ (call'[e].stage \in {"revoke", "withdraw"} => call[e].stage \in {"revoke", "withdraw"})
    BY <1>a
  <2>. QED BY <1>0, <2>1, <2>2 DEF Undisturbed, At
<1>. QED BY <1>1, <1>3, <1>8, <1>9, <1>10, <1>11, <1>12 DEF IInv

-----------------------------------------------------------------------------
(***************************************************************************)
(* The actions.                                                            *)
(***************************************************************************)
(* the call of c ends and the tokens stay                                   *)
LEMMA ForgetStep ==
  ASSUME IInv, NEW c \in Calls, Go(c, Idle),
         UNCHANGED <<record, open, commitFirst, access, refresh, torn>>,
         call[c].stage \notin {"written", "granted", "bye"}
  PROVE  IInv'
<1>1. /\ Idle \in Call /\ ~Idle.alone /\ Idle.new = Nil /\ Idle.rt = Nil
      /\ Idle.stage = "idle" /\ Idle.kind = "api" /\ Shape(Idle)
  BY IdleFields DEF Shape
<1>2. call' = [call EXCEPT ![c] = Idle]
  BY DEF Go
<1> HIDE DEF Idle
<1>. QED BY <1>1, <1>2, TurnStep

(* an answer without tokens                                                 *)
LEMMA AnswerStep ==
  ASSUME IInv, NEW c \in Calls, NEW st \in {"request", "denied", "refused", "failed"}, Answer(c, st),
         UNCHANGED <<record, open, commitFirst, access, refresh, torn>>,
         call[c].stage \notin {"written", "granted", "bye"},
         call[c].kind = "logout" => st = "failed"
  PROVE  IInv'
<1>1. PICK r \in Call : /\ call' = [call EXCEPT ![c] = r]
                       /\ r.stage = st /\ r.alone = FALSE /\ r.kind = call[c].kind
                       /\ r.rt = call[c].rt /\ r.new = call[c].new
  <2> DEFINE n == [call[c] EXCEPT !.stage = st, !.alone = FALSE]
  <2>1. call[c] \in Call
    BY DEF IInv, TypeOK, ServerTypeOK
  <2>2. /\ n \in Call /\ n.stage = st /\ n.alone = FALSE
        /\ n.kind = call[c].kind /\ n.rt = call[c].rt /\ n.new = call[c].new
    BY <2>1 DEF Call, ServerStages, AnswerStages
  <2>3. call' = [call EXCEPT ![c] = n]
    BY DEF Answer, Go
  <2> HIDE DEF n
  <2>. QED BY <2>2, <2>3
<1>2. Shape(r)
  BY <1>1 DEF Shape
<1>. QED BY <1>1, <1>2, TurnStep

(* get_current_user and login                                               *)
LEMMA AuthenticateStep ==
  ASSUME IInv, NEW c \in Calls, Authenticate(c, access) \/ Login(c, Free), Keep
  PROVE  IInv'
<1>0. UNCHANGED <<access, refresh, torn>> /\ Shape(call[c])
  BY DEF Keep, browser, IInv
<1>1. CASE Authenticate(c, access)
  <2>1. /\ call[c].stage = "request" /\ UNCHANGED <<record, open, commitFirst>>
        /\ Go(c, Idle) \/ Answer(c, "denied")
    BY <1>1 DEF Authenticate, At
  <2>2. call[c].kind # "logout"
    BY <1>0, <2>1 DEF Shape
  <2>. QED BY <1>0, <2>1, <2>2, ForgetStep, AnswerStep
<1>2. CASE Login(c, Free)
  <2>1. call[c].stage = "login" /\ call[c].kind # "logout" /\ call[c].rt = Nil
    BY <1>0, <1>2 DEF Login, At, Shape
  <2>2. CASE Issue(c, Free)
    BY <1>0, <2>1, <2>2, IssueStep DEF Locked
  <2>3. CASE Answer(c, "denied") /\ UNCHANGED <<record, open, commitFirst>>
    BY <1>0, <2>1, <2>3, AnswerStep
  <2>. QED BY <1>2, <2>2, <2>3 DEF Login
<1>. QED BY <1>1, <1>2

(* refresh_access_token                                                     *)
LEMMA RefreshStep ==
  ASSUME IInv, NEW c \in Calls, FindToken(c) \/ Rotate(c, Free), Keep
  PROVE  IInv'
<1>0. UNCHANGED <<access, refresh, torn>> /\ Shape(call[c])
  BY DEF Keep, browser, IInv
<1>1. CASE FindToken(c)
  <2>1. call[c].stage = "rotate" /\ UNCHANGED <<record, open, commitFirst>> /\ call[c].kind # "logout"
    BY <1>0, <1>1 DEF FindToken, At, Shape
  <2>2. CASE IsValid(call[c].rt) /\ Enter(c, "revoke")
    BY <1>0, <2>1, <2>2, EnterStep DEF IsValid
  <2>3. CASE Answer(c, "refused")
    BY <1>0, <2>1, <2>3, AnswerStep
  <2>. QED BY <1>1, <2>2, <2>3 DEF FindToken
<1>2. CASE Rotate(c, Free)
  BY <1>0, <1>2, IssueStep DEF Rotate, At
<1>. QED BY <1>1, <1>2

(* the token of a logout, found or not                                      *)
LEMMA FindLogoutStep ==
  ASSUME IInv, NEW c \in Calls, FindLogout(c), Keep
  PROVE  IInv'
<1>0. /\ call[c].stage = "logout" /\ Shape(call[c]) /\ call[c] \in Call
      /\ UNCHANGED <<record, open, commitFirst, access, refresh, torn>>
  BY DEF FindLogout, At, Keep, browser, IInv, TypeOK, ServerTypeOK
<1>1. CASE record[call[c].rt] # "none"
  BY <1>0, <1>1, EnterStep DEF FindLogout
<1>2. CASE record[call[c].rt] = "none"
  <2>1. ~commitFirst
    BY <1>0, <1>2 DEF IInv, CommittedFirst, Shape
  <2> DEFINE n == [call[c] EXCEPT !.stage = "withdraw", !.rt = Nil]
  <2>2. /\ n \in Call /\ n.stage = "withdraw" /\ n.rt = Nil /\ n.kind = call[c].kind
        /\ n.new = call[c].new /\ n.alone = call[c].alone
    BY <1>0 DEF Call, ServerStages
  <2>3. call' = [call EXCEPT ![c] = n]
    BY <1>2 DEF FindLogout, Go
  <2>4. Shape(n) /\ ~n.alone
    BY <1>0, <2>2 DEF Shape
  <2> HIDE DEF n
  <2>. QED BY <1>0, <2>1, <2>2, <2>3, <2>4, TurnStep
<1>. QED BY <1>1, <1>2

(* the timeout                                                              *)
LEMMA CancelStep ==
  ASSUME IInv, NEW c \in Calls, Timeout(c)
  PROVE  IInv'
<1>1. /\ call[c].stage \notin {"written", "granted", "bye"} /\ Answer(c, "failed")
      /\ UNCHANGED <<record, open, commitFirst, access, refresh, torn>>
  BY DEF Timeout, Cancel, Keep, browser, ServerStages
<1>. QED BY <1>1, AnswerStep

(* a 401                                                                    *)
LEMMA DeniedStep ==
  ASSUME IInv, NEW c \in Calls, OnDenied(c)
  PROVE  IInv'
<1>0. /\ call[c].stage = "denied" /\ Shape(call[c]) /\ call[c] \in Call
      /\ UNCHANGED <<record, open, commitFirst>>
      /\ refresh # Nil => refresh \in Pairs
  BY DEF OnDenied, At, server, IInv, TypeOK, ServerTypeOK
<1>1. CASE /\ refresh # Nil /\ Keep
           /\ Go(c, [call[c] EXCEPT !.stage = "rotate", !.rt = refresh, !.retried = TRUE])
  <2> DEFINE n == [call[c] EXCEPT !.stage = "rotate", !.rt = refresh, !.retried = TRUE]
  <2>2. /\ n \in Call /\ n.stage = "rotate" /\ n.rt = refresh /\ n.kind = call[c].kind
        /\ n.new = call[c].new /\ n.alone = call[c].alone
    BY <1>0, <1>1 DEF Call, ServerStages
  <2>3. call' = [call EXCEPT ![c] = n] /\ UNCHANGED <<access, refresh, torn>>
    BY <1>1 DEF Go, Keep, browser
  <2>4. Shape(n) /\ ~n.alone /\ n.kind # "logout"
    BY <1>0, <1>1, <2>2 DEF Shape
  <2> HIDE DEF n
  <2>. QED BY <1>0, <2>2, <2>3, <2>4, TurnStep
<1>2. CASE Go(c, Idle) /\ Drop
  BY <1>0, <1>2, DropStep
<1>3. CASE Go(c, Idle) /\ Keep
  BY <1>0, <1>3, ForgetStep DEF Keep, browser
<1>. QED BY <1>1, <1>2, <1>3 DEF OnDenied, Reject

(* the other answers that end a call                                        *)
LEMMA RefusedStep ==
  ASSUME IInv, NEW c \in Calls, OnRefused(c) \/ OnFailed(c) \/ OnBye(c)
  PROVE  IInv'
<1>1. /\ call[c].stage \in {"refused", "failed", "bye"} /\ UNCHANGED <<record, open, commitFirst>>
      /\ Go(c, Idle) /\ (Drop \/ (Keep /\ call[c].stage = "failed"))
  BY DEF OnRefused, OnFailed, OnBye, Reject, At, server
<1>2. CASE Drop
  BY <1>1, <1>2, DropStep
<1>3. CASE Keep /\ call[c].stage = "failed"
  BY <1>1, <1>3, ForgetStep DEF Keep, browser
<1>. QED BY <1>1, <1>2, <1>3

(* a page is loaded, a user logs in or out                                  *)
LEMMA UserActs ==
  ASSUME IInv, NEW c \in Calls, StartApi(c) \/ StartLogin(c) \/ StartLogout(c)
  PROVE  IInv'
<1>0. /\ call[c].stage = "idle" /\ Shape(call[c])
      /\ UNCHANGED <<record, open, commitFirst>>
      /\ refresh # Nil => refresh \in Pairs
  BY DEF StartApi, StartLogin, StartLogout, Rested, At, server, IInv, TypeOK, ServerTypeOK
<1>a. call[c].kind # "logout"
  BY <1>0 DEF Shape
<1>1. CASE StartApi(c)
  BY <1>0, <1>a, <1>1, AnswerStep DEF StartApi, Keep, browser
<1>2. CASE StartLogin(c)
  <2> DEFINE n == [Idle EXCEPT !.kind = "login", !.stage = "login"]
  <2>1. /\ n \in Call /\ n.stage = "login" /\ n.kind = "login"
        /\ n.rt = Nil /\ n.new = Nil /\ n.alone = FALSE
    BY IdleFields DEF Call, ServerStages
  <2>2. call' = [call EXCEPT ![c] = n] /\ UNCHANGED <<access, refresh, torn>>
    BY <1>2 DEF StartLogin, Go, Keep, browser
  <2>3. Shape(n)
    BY <2>1 DEF Shape
  <2> HIDE DEF n
  <2>. QED BY <1>0, <2>1, <2>2, <2>3, TurnStep
<1>3. CASE StartLogout(c)
  <2>1. CASE refresh # Nil
    <3> DEFINE n == [Idle EXCEPT !.kind = "logout", !.stage = "logout", !.rt = refresh]
    <3>1. /\ n \in Call /\ n.stage = "logout" /\ n.kind = "logout"
          /\ n.rt = refresh /\ n.new = Nil /\ n.alone = FALSE
      BY <1>0, <2>1, IdleFields DEF Call, ServerStages
    <3>2. call' = [call EXCEPT ![c] = n] /\ UNCHANGED <<access, refresh, torn>>
      BY <1>3, <2>1 DEF StartLogout, Go, Keep, browser
    <3>3. Shape(n)
      BY <2>1, <3>1 DEF Shape
    <3> HIDE DEF n
    <3>. QED BY <1>0, <3>1, <3>2, <3>3, TurnStep
  <2>2. CASE refresh = Nil
    BY <1>0, <1>3, <2>2, DropStep DEF StartLogout
  <2>. QED BY <2>1, <2>2
<1>. QED BY <1>1, <1>2, <1>3

LEMMA NextIInv == IInv /\ [Next]_vars => IInv'
<1> SUFFICES ASSUME IInv, [Next]_vars PROVE IInv'
  OBVIOUS
<1>1. ASSUME NEW c \in Calls, ServerStep(c) PROVE IInv'
  BY <1>1, AuthenticateStep, RefreshStep, FindLogoutStep, WithdrawStep, RespondStep DEF ServerStep
<1>2. ASSUME NEW c \in Calls, PageStep(c) PROVE IInv'
  BY <1>2, DeniedStep, RefusedStep, GrantedStep DEF PageStep
<1>3. ASSUME NEW c \in Calls, UserStep(c) PROVE IInv'
  BY <1>3, UserActs, UnloadStep DEF UserStep
<1>4. ASSUME NEW x \in open, CommitStep(x) PROVE IInv'
  BY <1>4, CommitOpen, CommitFailsOpen DEF CommitStep
<1>5. CASE UNCHANGED vars
  <2>1. UNCHANGED <<record, open, call, commitFirst, access, refresh, torn>>
    BY <1>5 DEF vars, server, browser
  <2>2. \A c \in Calls : Txn(c)' = Txn(c)
    BY <2>1 DEF Txn
  <2>3. /\ \A x \in open : Waiting(x)' = Waiting(x)
        /\ \A c \in Calls : Won(c)' = Won(c) /\ Undisturbed(c)' = Undisturbed(c)
    BY <2>1 DEF Waiting, Won, Undisturbed, At, Txn
  <2>4. TypeOK' /\ Unseen' /\ Known' /\ \A c \in Calls : Shape(call'[c])
    BY <2>1 DEF IInv, TypeOK, ServerTypeOK, Unseen, Known
  <2>5. Told' /\ CommittedFirst'
    BY <2>1, <2>3 DEF IInv, Told, CommittedFirst
  <2>. QED BY <2>1, <2>3, <2>4, <2>5 DEF IInv
<1>. QED BY <1>1, <1>2, <1>3, <1>4, <1>5, CancelStep DEF Next

\* the invariant above holds of both ends of the session in every state
LEMMA Invariance == Spec => []IInv
BY InitIInv, NextIInv, PTL DEF Spec

-----------------------------------------------------------------------------
(***************************************************************************)
(* Records of pairs, transactions and calls stay of their types; the       *)
(* browser holds pairs that were issued or none.                           *)
(***************************************************************************)
THEOREM SessionTyped == Spec => []TypeOK
<1>1. IInv => TypeOK
  BY DEF IInv
<1>. QED BY <1>1, Invariance, PTL

(***************************************************************************)
(* Whatever refreshes, logins and logouts overlap and whichever commits    *)
(* fail, once nothing is in flight localStorage does not hold a refresh    *)
(* token that was used up or withdrawn, unless an answer was lost.         *)
(***************************************************************************)
THEOREM BrowserKeepsUsable == Spec => []NoRevokedTokenKept
<1>1. IInv => NoRevokedTokenKept
  <2> SUFFICES ASSUME IInv, Quiet, refresh # Nil, ~torn PROVE record[refresh] # "revoked"
    BY DEF NoRevokedTokenKept
  <2>1. \A c \in Calls : ~Won(c)
    BY DEF Quiet, Won, At
  <2>. QED BY <2>1 DEF IInv, Told
<1>. QED BY <1>1, Invariance, PTL

(***************************************************************************)
(* When the commit comes before the answer, a logout that succeeds has     *)
(* withdrawn its refresh token.                                            *)
(***************************************************************************)
THEOREM LogoutWithdraws == Spec => []LogoutEndsSession
<1>1. IInv => LogoutEndsSession
  <2> SUFFICES ASSUME IInv, NEW c \in Calls, call[c].stage = "bye", commitFirst
               PROVE  record[call[c].rt] # "valid"
    BY DEF LogoutEndsSession, At
  <2>1. call[c].kind = "logout" /\ Won(c)
    BY DEF IInv, Shape, Won
  <2>. QED BY <2>1 DEF IInv, CommittedFirst
<1>. QED BY <1>1, Invariance, PTL

(***************************************************************************)
(* Rotation: a refresh that no other transaction overlaps gives new tokens *)
(* only for a token that was never used or withdrawn before.               *)
(***************************************************************************)
THEOREM RotatesOnce == Spec => []ReplayRefused
<1>1. IInv => ReplayRefused
  <2> SUFFICES ASSUME IInv, NEW x \in open, x.old # Nil, x.new # Nil, Waiting(x), call[x.call].alone
               PROVE  record[x.old] = "valid"
    BY DEF ReplayRefused
  <2>1. /\ x.call \in Calls /\ At(x.call, "written") /\ Txn(x.call) = x
    BY DEF Waiting, IInv, TypeOK, ServerTypeOK
  <2>2. call[x.call].rt = x.old /\ call[x.call].new = x.new
    BY <2>1, TxnFields
  <2>3. call[x.call].kind # "logout"
    BY <2>1, <2>2 DEF IInv, Shape, At
  <2>. QED BY <2>1, <2>2, <2>3 DEF IInv, Undisturbed
<1>. QED BY <1>1, Invariance, PTL
=============================================================================
