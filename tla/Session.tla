-------------------------------- MODULE Session --------------------------------
(***************************************************************************)
(* Sign-in and sign-out of the authentication service, and the requests    *)
(* that present an access token: to its own signout route, or to another   *)
(* service, whose guard asks GET /profile about it.  Both tokens of a      *)
(* signin are named by the signin.  The refresh_token table is read and    *)
(* written in separate statements, and no access check looks at it.        *)
(***************************************************************************)
CONSTANTS Users, Signins, Signouts, Calls, None, Faults

Requests == Signouts \cup Calls

ASSUME SessionAssumption ==
  /\ Signouts \cap Calls = {}
  /\ None \notin Signins
  /\ Faults \subseteq {"abort", "answer", "restart"}

VARIABLES
  caller,   \* the user of each signin               (fixed by the caller)
  at,       \* where each signin is
  rows,     \* the refresh_token table
  expired,  \* the signins whose access token expired
  bearer,   \* the token each request presented
  pc,       \* where each request is
  crossed,  \* history: signins whose row was deleted after they found it
  late      \* history: requests that came with an expired token

requests == <<bearer, pc, late>>
vars == <<caller, at, rows, expired, bearer, pc, crossed, late>>

Rows == [id : Signins, user : Users, token : Signins]

Init ==
  /\ caller \in [Signins -> Users]
  /\ at = [s \in Signins |-> "new"]
  /\ rows = {}
  /\ expired = {}
  /\ bearer = [q \in Requests |-> None]
  /\ pc = [q \in Requests |-> "new"]
  /\ crossed = {}
  /\ late = {}

-------------------------------------------------------------------------------
(* Both tokens are signed as soon as the password is verified.             *)
VerifyPassword(s) ==
  /\ at[s] = "new"
  /\ at' = [at EXCEPT ![s] = "signed"]
  /\ UNCHANGED <<caller, rows, expired, crossed, requests>>

(* No user has the email, or the password is another.                      *)
RefusePassword(s) ==
  /\ at[s] = "new"
  /\ at' = [at EXCEPT ![s] = "refused"]
  /\ UNCHANGED <<caller, rows, expired, crossed, requests>>

(* Mutant: the row of any user will do.                                    *)
HasRow_OfAny(u) == rows # {}
HasRow(u) == \E r \in rows : r.user = u

FindToken(s) ==
  /\ at[s] = "signed"
  /\ at' = [at EXCEPT ![s] = IF HasRow(caller[s]) THEN "update" ELSE "insert"]
  /\ UNCHANGED <<caller, rows, expired, crossed, requests>>

(* A statement that was executed is answered, or its answer is lost.       *)
Answers == {"done"} \cup (IF "answer" \in Faults THEN {"lost"} ELSE {})

(* Mutant: no criterion.                                                   *)
Renewed_All(r, s) == [r EXCEPT !.token = s]
Renewed(r, s) == IF r.user = caller[s] THEN [r EXCEPT !.token = s] ELSE r

(* An UPDATE that matches no row is no error: the signin is answered.      *)
UpdateToken(s) ==
  /\ at[s] = "update"
  /\ at' \in {[at EXCEPT ![s] = a] : a \in Answers}
  /\ rows' = {Renewed(r, s) : r \in rows}
  /\ UNCHANGED <<caller, expired, crossed, requests>>

(* Mutants: no unique join column; unique for all users together.          *)
UserFree_Always(u) == TRUE
UserFree_Empty(u) == rows = {}
UserFree(u) == \A r \in rows : r.user # u

SaveToken(s) ==
  /\ at[s] = "insert"
  /\ IF UserFree(caller[s])
     THEN /\ at' \in {[at EXCEPT ![s] = a] : a \in Answers}
          /\ rows' = rows \cup {[id |-> s, user |-> caller[s], token |-> s]}
     ELSE at' = [at EXCEPT ![s] = "conflict"] /\ UNCHANGED rows
  /\ UNCHANGED <<caller, expired, crossed, requests>>

Running(s) == at[s] \in {"signed", "update", "insert"}

(* A statement of the signin fails.                                        *)
AbortSignin(s) ==
  /\ "abort" \in Faults
  /\ Running(s)
  /\ at' = [at EXCEPT ![s] = "failed"]
  /\ UNCHANGED <<caller, rows, expired, crossed, requests>>

(* Ten minutes passed since the token was signed.                          *)
Expire(s) ==
  /\ at[s] \notin {"new", "refused"}
  /\ expired' = expired \cup {s}
  /\ UNCHANGED <<caller, at, rows, crossed, requests>>

-------------------------------------------------------------------------------
(* Mutant: a missing header is left to the authentication service.         *)
WithoutHeader_Asked == "asked"
WithoutHeader == "refused"

(* A request arrives with the access token of an answered signin, or with  *)
(* no usable header.                                                       *)
Present(q) ==
  /\ pc[q] = "new"
  /\ \/ /\ pc' = [pc EXCEPT ![q] = WithoutHeader]
        /\ UNCHANGED <<bearer, late>>
     \/ \E s \in Signins :
          /\ at[s] = "done"
          /\ pc' = [pc EXCEPT ![q] = "asked"]
          /\ bearer' = [bearer EXCEPT ![q] = s]
          /\ late' = IF s \in expired THEN late \cup {q} ELSE late
  /\ UNCHANGED <<caller, at, rows, expired, crossed>>

(* Mutant: ignoreExpiration.                                               *)
Accepted_Always(s) == TRUE
Accepted(s) == s \notin expired

(* AccessGuard, of the signout and the profile routes: users are active    *)
(* and are never deleted, so the token's user is found.                    *)
Authenticate(q) ==
  /\ pc[q] = "asked"
  /\ pc' = [pc EXCEPT ![q] = IF ~ Accepted(bearer[q]) THEN "refused"
                            ELSE IF q \in Calls THEN "profile" ELSE "admitted"]
  /\ UNCHANGED <<caller, at, rows, expired, bearer, crossed, late>>

(* The other service has the profile, and runs the request as its user.    *)
Admit(q) ==
  /\ pc[q] = "profile"
  /\ pc' = [pc EXCEPT ![q] = "admitted"]
  /\ UNCHANGED <<caller, at, rows, expired, bearer, crossed, late>>

DeleteToken(q) ==
  /\ q \in Signouts
  /\ pc[q] = "admitted"
  /\ pc' = [pc EXCEPT ![q] = "done"]
  /\ LET u == caller[bearer[q]]
     IN  /\ rows' = {r \in rows : r.user # u}
         /\ crossed' = crossed \cup {s \in Signins : caller[s] = u /\ at[s] = "update"}
  /\ UNCHANGED <<caller, at, expired, bearer, late>>

(* GET /profile is not answered, or a statement fails: 401 or 500.         *)
AbortRequest(q) ==
  /\ "abort" \in Faults
  /\ pc[q] \in {"asked", "profile"} \/ (q \in Signouts /\ pc[q] = "admitted")
  /\ pc' = [pc EXCEPT ![q] = "refused"]
  /\ UNCHANGED <<caller, at, rows, expired, bearer, crossed, late>>

(* The authentication service restarts; other services notice only if they *)
(* wait for a profile.                                                     *)
RestartService ==
  /\ "restart" \in Faults
  /\ at' = [s \in Signins |-> IF Running(s) THEN "failed" ELSE at[s]]
  /\ pc' = [q \in Requests |-> IF \/ pc[q] = "asked"
                                  \/ q \in Signouts /\ pc[q] = "admitted"
                               THEN "refused" ELSE pc[q]]
  /\ UNCHANGED <<caller, rows, expired, bearer, crossed, late>>

SigninStep(s) == FindToken(s) \/ UpdateToken(s) \/ SaveToken(s)
RequestStep(q) == Authenticate(q) \/ Admit(q) \/ DeleteToken(q)

Next ==
  \/ \E s \in Signins :
       SigninStep(s) \/ VerifyPassword(s) \/ RefusePassword(s) \/ AbortSignin(s) \/ Expire(s)
  \/ \E q \in Requests : RequestStep(q) \/ Present(q) \/ AbortRequest(q)
  \/ RestartService

Spec == Init /\ [][Next]_vars

-------------------------------------------------------------------------------
(* Every variable has its type; a request under way bears a token.         *)
TypeOK ==
  /\ caller \in [Signins -> Users]
  /\ at \in [Signins -> {"new", "signed", "refused", "update", "insert", "done",
                         "lost", "conflict", "failed"}]
  /\ rows \subseteq Rows
  /\ expired \subseteq Signins
  /\ bearer \in [Requests -> Signins \cup {None}]
  /\ pc \in [Requests -> {"new", "asked", "profile", "admitted", "done", "refused"}]
  /\ \A q \in Requests : pc[q] \notin {"new", "refused"} => bearer[q] \in Signins
  /\ crossed \subseteq Signins
  /\ late \subseteq Requests

(* A user has at most one row, although signins look for it and insert it  *)
(* in separate statements, and several may run at once.                    *)
OneRowPerUser == \A x, y \in rows : x.user = y.user => x = y

(* The token in a user's row was signed for that user.                     *)
TokensStayWithUsers == \A r \in rows : caller[r.token] = r.user

(* A signin with the right password is refused by the table only if        *)
(* another signin of the same user stored its token.                       *)
ConflictHasRival ==
  \A s \in Signins : at[s] = "conflict" =>
    \E t \in Signins \ {s} : caller[t] = caller[s] /\ at[t] \in {"done", "lost"}

(* The refresh token a signin answers with is the stored one at that       *)
(* moment, unless a sign-out deleted the row the signin had found.         *)
AnsweredIsStored ==
  [][\A s \in Signins : at[s] # "done" /\ at'[s] = "done" /\ s \notin crossed =>
       \E r \in rows' : r.user = caller[s] /\ r.token = s]_vars

(* A request that came with an expired token is never run, in whatever     *)
(* order the guard's question, the expiry and the answer happen.           *)
ExpiredIsRefused == \A q \in late : pc[q] \notin {"profile", "admitted", "done"}
==============================================================================
