----------------------------- MODULE SessionProofs -----------------------------
(***************************************************************************)
(* Session, for any number of users, signins and requests: the rows of the *)
(* refresh_token table, who may be refused, and expired tokens.            *)
(***************************************************************************)
EXTENDS Session, TLAPS

(* Whoever inserted a row of a user was a signin of that user, and its     *)
(* statement was executed.                                                 *)
Inserted == \A r \in rows : caller[r.id] = r.user /\ at[r.id] \in {"done", "lost"}

(* The row that a signin is about to update is there, unless it was        *)
(* deleted after it was found.                                             *)
FoundIsThere == \A s \in Signins : at[s] = "update" /\ s \notin crossed => HasRow(caller[s])

(* A request that came too late is refused when it is authenticated.       *)
LateIsExpired ==
  \A q \in late : bearer[q] \in expired /\ pc[q] \in {"asked", "refused"}

Table == OneRowPerUser /\ TokensStayWithUsers /\ ConflictHasRival /\ Inserted /\ FoundIsThere

Inv == TypeOK /\ Table /\ LateIsExpired

LEMMA InitInv == Init => Inv
BY SessionAssumption
   DEF Init, Inv, TypeOK, Table, OneRowPerUser, TokensStayWithUsers, ConflictHasRival,
       Inserted, FoundIsThere, LateIsExpired, Requests

LEMMA TypeStep == TypeOK /\ [Next]_vars => TypeOK'
<1> SUFFICES ASSUME TypeOK, [Next]_vars PROVE TypeOK'
  OBVIOUS
<1> USE DEF TypeOK, requests
<1>1. ASSUME NEW s \in Signins, SigninStep(s) PROVE TypeOK'
  <2>1. CASE FindToken(s)
    BY <2>1 DEF FindToken
  <2>2. CASE UpdateToken(s)
    <3>1. \A r \in rows : Renewed(r, s) \in Rows
      BY DEF Renewed, Rows
    <3> QED BY <2>2, <3>1 DEF UpdateToken, Answers
  <2>3. CASE SaveToken(s)
    <3>1. [id |-> s, user |-> caller[s], token |-> s] \in Rows
      BY DEF Rows
    <3> QED BY <2>3, <3>1 DEF SaveToken, Answers
  <2> QED BY <1>1, <2>1, <2>2, <2>3 DEF SigninStep
<1>2. ASSUME NEW s \in Signins,
             VerifyPassword(s) \/ RefusePassword(s) \/ AbortSignin(s) \/ Expire(s)
      PROVE  TypeOK'
  BY <1>2 DEF VerifyPassword, RefusePassword, AbortSignin, Expire
<1>3. ASSUME NEW q \in Requests, RequestStep(q) \/ Present(q) \/ AbortRequest(q)
      PROVE  TypeOK'
  BY <1>3 DEF RequestStep, Present, WithoutHeader, AbortRequest, Authenticate, Admit, DeleteToken
<1>4. CASE RestartService
  BY <1>4 DEF RestartService
<1>5. CASE UNCHANGED vars
  BY <1>5 DEF vars
<1> QED BY <1>1, <1>2, <1>3, <1>4, <1>5 DEF Next

(* The two statements that write a row, and the one that deletes rows.     *)
LEMMA UpdateKeepsTable ==
  ASSUME TypeOK, Table, NEW s \in Signins, UpdateToken(s) PROVE Table'
<1>1. /\ at[s] = "update" /\ UNCHANGED <<caller, crossed>>
      /\ at' \in [Signins -> {"new", "signed", "refused", "update", "insert", "done",
                              "lost", "conflict", "failed"}]
      /\ at'[s] \in {"done", "lost"} /\ \A t \in Signins \ {s} : at'[t] = at[t]
  BY DEF UpdateToken, Answers, TypeOK
<1>2. rows' = {Renewed(r, s) : r \in rows}
  BY DEF UpdateToken
<1>3. \A r \in rows : /\ Renewed(r, s).user = r.user /\ Renewed(r, s).id = r.id
                      /\ Renewed(r, s).token = IF r.user = caller[s] THEN s ELSE r.token
  BY DEF Renewed, TypeOK, Rows
<1>4. OneRowPerUser'
  BY <1>2, <1>3 DEF Table, OneRowPerUser
<1>5. TokensStayWithUsers'
  BY <1>1, <1>2, <1>3 DEF Table, TokensStayWithUsers
<1>6. ConflictHasRival'
  BY <1>1 DEF Table, ConflictHasRival
<1>7. Inserted'
  <2>1. \A r \in rows : r.id \in Signins
    BY DEF TypeOK, Rows
  <2> QED BY <1>1, <1>2, <1>3, <2>1 DEF Table, Inserted
<1>8. FoundIsThere'
  BY <1>1, <1>2, <1>3 DEF Table, FoundIsThere, HasRow
<1> QED BY <1>4, <1>5, <1>6, <1>7, <1>8 DEF Table

LEMMA SaveKeepsTable ==
  ASSUME TypeOK, Table, NEW s \in Signins, SaveToken(s) PROVE Table'
<1>1. at[s] = "insert" /\ UNCHANGED <<caller, crossed>>
  BY DEF SaveToken
<1>2. \A r \in rows : r.id \in Signins
  BY DEF TypeOK, Rows
<1>3. CASE UserFree(caller[s])
  <2>1. /\ rows' = rows \cup {[id |-> s, user |-> caller[s], token |-> s]}
        /\ at'[s] \in {"done", "lost"} /\ \A t \in Signins \ {s} : at'[t] = at[t]
    BY <1>3 DEF SaveToken, Answers, TypeOK
  <2>2. OneRowPerUser'
    BY <1>3, <2>1 DEF Table, OneRowPerUser, UserFree
  <2>3. TokensStayWithUsers' /\ Inserted'
    BY <1>1, <1>2, <2>1 DEF Table, TokensStayWithUsers, Inserted
  <2>4. ConflictHasRival' /\ FoundIsThere'
    BY <1>1, <2>1 DEF Table, ConflictHasRival, FoundIsThere, HasRow
  <2> QED BY <2>2, <2>3, <2>4 DEF Table
<1>4. CASE ~ UserFree(caller[s])
  <2>1. at' = [at EXCEPT ![s] = "conflict"] /\ UNCHANGED rows
    BY <1>4 DEF SaveToken
  <2>2. PICK r \in rows : r.user = caller[s]
    BY <1>4 DEF UserFree
  <2>3. /\ r.id \in Signins \ {s} /\ caller[r.id] = caller[s]
        /\ at[r.id] \in {"done", "lost"}
    BY <1>1, <1>2, <2>2 DEF Table, Inserted
  <2>4. ConflictHasRival'
    BY <1>1, <2>1, <2>3 DEF Table, ConflictHasRival, TypeOK
  <2>5. OneRowPerUser' /\ TokensStayWithUsers' /\ Inserted' /\ FoundIsThere'
    BY <1>1, <1>2, <2>1
       DEF Table, TypeOK, OneRowPerUser, TokensStayWithUsers, Inserted, FoundIsThere, HasRow
  <2> QED BY <2>4, <2>5 DEF Table
<1> QED BY <1>3, <1>4

LEMMA DeleteKeepsTable ==
  ASSUME TypeOK, Table, NEW q \in Requests, DeleteToken(q) PROVE Table'
<1> DEFINE u == caller[bearer[q]]
<1>1. /\ rows' = {r \in rows : r.user # u} /\ UNCHANGED <<caller, at>>
      /\ crossed' = crossed \cup {s \in Signins : caller[s] = u /\ at[s] = "update"}
  BY DEF DeleteToken
<1> HIDE DEF u
<1>2. OneRowPerUser' /\ TokensStayWithUsers' /\ ConflictHasRival' /\ Inserted'
  BY <1>1 DEF Table, OneRowPerUser, TokensStayWithUsers, ConflictHasRival, Inserted
<1>3. FoundIsThere'
  BY <1>1 DEF Table, FoundIsThere, HasRow
<1> QED BY <1>2, <1>3 DEF Table

(* Steps of a signin that write no row.                                    *)
LEMMA ReadKeepsTable ==
  ASSUME TypeOK, Table, NEW s \in Signins,
         \/ FindToken(s) \/ VerifyPassword(s) \/ RefusePassword(s) \/ AbortSignin(s)
  PROVE  Table'
<1>1. /\ at[s] \notin {"done", "lost"} /\ at'[s] \notin {"conflict"}
      /\ at'[s] = "update" => HasRow(caller[s])
      /\ \A t \in Signins \ {s} : at'[t] = at[t]
      /\ UNCHANGED <<caller, rows, crossed>>
  BY DEF FindToken, VerifyPassword, RefusePassword, AbortSignin, Running, TypeOK
<1>2. \A r \in rows : r.id \in Signins
  BY DEF TypeOK, Rows
<1>3. OneRowPerUser' /\ TokensStayWithUsers' /\ Inserted'
  BY <1>1, <1>2 DEF Table, OneRowPerUser, TokensStayWithUsers, Inserted
<1>4. ConflictHasRival' /\ FoundIsThere'
  BY <1>1 DEF Table, ConflictHasRival, FoundIsThere, HasRow
<1> QED BY <1>3, <1>4 DEF Table

LEMMA TableStep == TypeOK /\ Table /\ [Next]_vars => Table'
<1> SUFFICES ASSUME TypeOK, Table, [Next]_vars PROVE Table'
  OBVIOUS
<1>1. ASSUME UNCHANGED <<caller, at, rows, crossed>> PROVE Table'
  BY <1>1 DEF Table, OneRowPerUser, TokensStayWithUsers, ConflictHasRival, Inserted,
              FoundIsThere, HasRow
<1>2. ASSUME NEW s \in Signins,
             SigninStep(s) \/ VerifyPassword(s) \/ RefusePassword(s) \/ AbortSignin(s)
      PROVE  Table'
  BY <1>2, UpdateKeepsTable, SaveKeepsTable, ReadKeepsTable DEF SigninStep
<1>3. ASSUME NEW s \in Signins, Expire(s) PROVE Table'
  BY <1>1, <1>3 DEF Expire
<1>4. ASSUME NEW q \in Requests, RequestStep(q) \/ Present(q) \/ AbortRequest(q)
      PROVE  Table'
  BY <1>1, <1>4, DeleteKeepsTable DEF RequestStep, Authenticate, Admit, Present, AbortRequest
<1>5. CASE RestartService
  <2>1. /\ UNCHANGED <<caller, rows, crossed>>
        /\ \A s \in Signins : at'[s] = at[s] \/ (Running(s) /\ at'[s] = "failed")
    BY <1>5 DEF RestartService
  <2>2. \A r \in rows : r.id \in Signins
    BY DEF TypeOK, Rows
  <2>3. OneRowPerUser' /\ TokensStayWithUsers' /\ Inserted'
    BY <2>1, <2>2 DEF Table, OneRowPerUser, TokensStayWithUsers, Inserted, Running
  <2>4. ConflictHasRival' /\ FoundIsThere'
    BY <2>1 DEF Table, ConflictHasRival, FoundIsThere, HasRow, Running
  <2> QED BY <2>3, <2>4 DEF Table
<1>6. CASE UNCHANGED vars
  BY <1>1, <1>6 DEF vars
<1> QED BY <1>2, <1>3, <1>4, <1>5, <1>6 DEF Next

LEMMA LateStep == TypeOK /\ LateIsExpired /\ [Next]_vars => LateIsExpired'
<1> SUFFICES ASSUME TypeOK, LateIsExpired, [Next]_vars PROVE LateIsExpired'
  OBVIOUS
<1> USE DEF TypeOK, LateIsExpired
<1>1. ASSUME NEW s \in Signins, UNCHANGED requests,
             expired' = expired \/ expired' = expired \cup {s}
      PROVE  LateIsExpired'
  BY <1>1 DEF requests
<1>2. ASSUME NEW s \in Signins, SigninStep(s) \/ VerifyPassword(s) \/ RefusePassword(s)
                                  \/ AbortSignin(s) \/ Expire(s)
      PROVE  LateIsExpired'
  BY <1>1, <1>2 DEF SigninStep, FindToken, UpdateToken, SaveToken, VerifyPassword,
                    RefusePassword, AbortSignin, Expire
<1>3. ASSUME NEW q \in Requests, RequestStep(q) \/ AbortRequest(q) PROVE LateIsExpired'
  BY <1>3 DEF RequestStep, Authenticate, Accepted, Admit, DeleteToken, AbortRequest
<1>4. ASSUME NEW q \in Requests, Present(q) PROVE LateIsExpired'
  BY <1>4 DEF Present, WithoutHeader
<1>5. CASE RestartService
  BY <1>5 DEF RestartService
<1>6. CASE UNCHANGED vars
  BY <1>6 DEF vars
<1> QED BY <1>2, <1>3, <1>4, <1>5, <1>6 DEF Next

LEMMA InvStep == Inv /\ [Next]_vars => Inv'
BY TypeStep, TableStep, LateStep DEF Inv

LEMMA SessionInvariant == Spec => []Inv
<1> QED BY InitInv, InvStep, PTL DEF Spec

(* Every variable has its type, and requests under way bear tokens.        *)
THEOREM TypeCorrect == Spec => []TypeOK
BY SessionInvariant, PTL DEF Inv

(* Overlapping signins leave at most one row for each user.                *)
THEOREM OneRow == Spec => []OneRowPerUser
BY SessionInvariant, PTL DEF Inv, Table

(* A user's row holds a token that was signed for that user.               *)
THEOREM OwnToken == Spec => []TokensStayWithUsers
BY SessionInvariant, PTL DEF Inv, Table

(* Only an overlapping signin of the same user makes a signin conflict.    *)
THEOREM RivalStored == Spec => []ConflictHasRival
BY SessionInvariant, PTL DEF Inv, Table

(* No request is run that came with an expired token.                      *)
THEOREM LateIsRefused == Spec => []ExpiredIsRefused
<1>1. Inv => ExpiredIsRefused
  BY DEF Inv, LateIsExpired, ExpiredIsRefused
<1> QED BY <1>1, SessionInvariant, PTL

(* An answered signin's refresh token is the stored one, unless the row it *)
(* had found was deleted.                                                  *)
THEOREM AnswerStored == Spec => AnsweredIsStored
<1> DEFINE A == \A s \in Signins :
                  at[s] # "done" /\ at'[s] = "done" /\ s \notin crossed =>
                    \E r \in rows' : r.user = caller[s] /\ r.token = s
<1>1. ASSUME Inv, Next PROVE A
  <2> SUFFICES ASSUME NEW s \in Signins, at[s] # "done", at'[s] = "done", s \notin crossed
               PROVE  \E r \in rows' : r.user = caller[s] /\ r.token = s
    OBVIOUS
  <2>1. UpdateToken(s) \/ SaveToken(s)
    BY <1>1 DEF Inv, TypeOK, Next, SigninStep, FindToken, UpdateToken, SaveToken,
                VerifyPassword, RefusePassword, AbortSignin, Expire, RequestStep,
                Authenticate, Admit, DeleteToken, Present, AbortRequest, RestartService
  <2>2. CASE UpdateToken(s)
    <3>1. PICK r \in rows : r.user = caller[s]
      BY <1>1, <2>2 DEF Inv, Table, FoundIsThere, HasRow, UpdateToken
    <3>2. Renewed(r, s).user = caller[s] /\ Renewed(r, s).token = s
      BY <1>1, <3>1 DEF Renewed, Inv, TypeOK, Rows
    <3>3. Renewed(r, s) \in rows'
      BY <2>2 DEF UpdateToken
    <3> QED BY <3>2, <3>3
  <2>3. CASE SaveToken(s)
    <3>1. UserFree(caller[s])
      BY <1>1, <2>3 DEF SaveToken, Inv, TypeOK
    <3> DEFINE new == [id |-> s, user |-> caller[s], token |-> s]
    <3>2. new \in rows'
      BY <2>3, <3>1 DEF SaveToken
    <3>3. new.user = caller[s] /\ new.token = s
      OBVIOUS
    <3> QED BY <3>2, <3>3
  <2> QED BY <2>1, <2>2, <2>3
<1>2. Inv /\ [Next]_vars => [A]_vars
  BY <1>1
<1> QED BY <1>2, SessionInvariant, PTL DEF Spec, AnsweredIsStored
==============================================================================
