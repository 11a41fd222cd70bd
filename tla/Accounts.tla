-------------------------------- MODULE Accounts --------------------------------
(***************************************************************************)
(* The users table under concurrent administrators, the start-up that       *)
(* inserts the default administrator, and the login rate limiter of one     *)
(* server process (services/auth_service.py, api/v1/routes/auth.py and      *)
(* users.py, core/rate_limit.py).                                           *)
(*                                                                         *)
(* A request is a coroutine; its steps are cut where the code awaits the    *)
(* database, so that the requests of several clients interleave.  Sessions  *)
(* do not expire what they have read (db/session.py), hence a request goes  *)
(* on with the rows it loaded.  A token is good for anybody it was issued   *)
(* to: whoever may act, may act at any time.  Passwords, names and the      *)
(* addresses of clients are left out: a login is right or wrong.            *)
(***************************************************************************)
EXTENDS Integers, Sequences, FiniteSets

CONSTANTS
  User,        \* ids, never used twice
  Email,
  Tried,       \* the emails clients log in with
  AdminEmail,  \* settings.admin_email
  Request,     \* requests that can be in flight together
  Change,      \* the bodies of PUT /users/{id}: some fields of a row
  Limit,       \* settings.login_rate_limit_attempts
  Window       \* the window of the limiter, in ticks

Role == {"admin", "user"}

Row == [email : Email, role : Role, active : BOOLEAN]

ASSUME AccountsAssumption ==
  /\ AdminEmail \in Email
  /\ Tried \subseteq Email
  /\ IsFiniteSet(Request) /\ Request # {}
  /\ Limit \in Nat \ {0}
  /\ Window \in Nat \ {0}
  /\ \A change \in Change :
       /\ DOMAIN change \subseteq {"email", "role", "active"}
       /\ "email" \in DOMAIN change => change["email"] \in Email
       /\ "role" \in DOMAIN change => change["role"] \in Role
       /\ "active" \in DOMAIN change => change["active"] \in BOOLEAN

VARIABLES
  users,   \* the rows: a set of rows of at most one element for each id
  spent,   \* ids whose row has been deleted
  ages,    \* for each of them, the ages of the failed logins in the window
  request  \* for each request, where it is and what it has read

vars == <<users, spent, ages, request>>

Idle == [at |-> "idle"]

(* What a request remembers across an await. *)
LoginState == [at : {"login"}, email : Tried]

AdminState == [at : {"admitted"}, by : User, own : Row]

CreateState == [at : {"creating"}, email : Email, role : Role]

UpdateState == [at : {"loaded", "checked"}, target : User, read : Row, change : Change]

BootState == [at : {"booting"}]

RequestState ==
  {Idle} \cup LoginState \cup AdminState \cup CreateState \cup UpdateState \cup BootState

(***************************************************************************)
(* The users table.                                                        *)
(***************************************************************************)

Taken(email) == \E u \in User : \E row \in users[u] : row.email = email

(* The unique index on the email, seen by the row of u. *)
TakenByOther(email, u) ==
  \E v \in User \ {u} : \E row \in users[v] : row.email = email

(* get_current_user and _require_admin. *)
MayAct(row) == row.active /\ row.role = "admin"

ActiveAdmin(u) == \E row \in users[u] : MayAct(row)

Unused == {u \in User : users[u] = {} /\ u \notin spent}

(* The new row has a new id; which one makes no difference. *)
Inserted(email, role) ==
  LET id == CHOOSE u \in Unused : TRUE
  IN [users EXCEPT ![id] = {[email |-> email, role |-> role, active |-> TRUE]}]

(* SQLAlchemy writes the attributes that differ from what was loaded. *)
Written(change, read) == {f \in DOMAIN change : change[f] # read[f]}

(* Variant: the whole row that was loaded is written back. *)
Merged_WholeRow(row, change, read) ==
  [f \in DOMAIN row |-> IF f \in Written(change, read) THEN change[f] ELSE read[f]]

Merged(row, change, read) ==
  [f \in DOMAIN row |-> IF f \in Written(change, read) THEN change[f] ELSE row[f]]

(***************************************************************************)
(* The limiter.                                                            *)
(***************************************************************************)

(* Variant: the comparison lets one more through. *)
Limited_OneMore(email) == Len(ages[email]) > Limit

Limited(email) == Len(ages[email]) >= Limit

(* The attempts of a window, one tick later: the oldest come first, and     *)
(* they are dropped up to the first one after the cutoff.                    *)
Aged(window) ==
  LET live == {n \in 1 .. Len(window) : window[n] + 1 < Window}
      kept == IF live = {} THEN 0
              ELSE Len(window) + 1 - CHOOSE n \in live : \A m \in live : n <= m
  IN [n \in 1 .. kept |-> window[Len(window) - kept + n] + 1]

(***************************************************************************)
(* Actions.                                                                *)
(***************************************************************************)

Init ==
  /\ users = [u \in User |-> {}]
  /\ spent = {}
  /\ ages = [e \in Tried |-> <<>>]
  /\ request = [r \in Request |-> Idle]

Becomes(r, state) == request' = [request EXCEPT ![r] = state]

(* ensure_default_admin looks for the row of the configured email; two       *)
(* processes may start together.                                            *)
BeginBoot(r) ==
  /\ request[r] = Idle
  /\ ~Taken(AdminEmail)
  /\ Becomes(r, [at |-> "booting"])
  /\ UNCHANGED <<users, spent, ages>>

(* Its insertion commits, or start-up fails on the unique index. *)
InsertAdmin(r) ==
  /\ request[r].at = "booting"
  /\ Unused # {}
  /\ IF Taken(AdminEmail)
     THEN users' = users
     ELSE users' = Inserted(AdminEmail, "admin")
  /\ Becomes(r, Idle)
  /\ UNCHANGED <<spent, ages>>

(* Variant: a refused attempt counts, in the place of the oldest. *)
BeginLogin_Renews(r, email) ==
  /\ request[r] = Idle
  /\ IF Limited(email)
     THEN /\ ages' = [ages EXCEPT ![email] = Append(Tail(@), 0)]
          /\ UNCHANGED request
     ELSE /\ Becomes(r, [at |-> "login", email |-> email])
          /\ UNCHANGED ages
  /\ UNCHANGED <<users, spent>>

(* POST /login passes the limiter; a refused attempt leaves no trace. *)
BeginLogin(r, email) ==
  /\ request[r] = Idle
  /\ ~Limited(email)
  /\ Becomes(r, [at |-> "login", email |-> email])
  /\ UNCHANGED <<users, spent, ages>>

(* authenticate has read the row: a success forgets the failures. *)
EndLogin(r, right) ==
  LET email == request[r].email
      success == right /\ \E u \in User, row \in Row :
                            row \in users[u] /\ row.email = email /\ row.active
  IN
  /\ request[r].at = "login"
  /\ ages' = [ages EXCEPT ![email] = IF success THEN <<>> ELSE Append(@, 0)]
  /\ Becomes(r, Idle)
  /\ UNCHANGED <<users, spent>>

(* A request with the token of u, active and an administrator when it is read. *)
Admit(r, u) ==
  /\ request[r] = Idle
  /\ \E row \in users[u] :
       /\ MayAct(row)
       /\ Becomes(r, [at |-> "admitted", by |-> u, own |-> row])
  /\ UNCHANGED <<users, spent, ages>>

(* POST /users: the email is free, or the answer is 409. *)
CheckNew(r, email, role) ==
  /\ request[r].at = "admitted"
  /\ Becomes(r, IF Taken(email) THEN Idle
                ELSE [at |-> "creating", email |-> email, role |-> role])
  /\ UNCHANGED <<users, spent, ages>>

(* Variant: without the unique index. *)
CreateUser_NoIndex(r) ==
  /\ request[r].at = "creating"
  /\ Unused # {}
  /\ users' = Inserted(request[r].email, request[r].role)
  /\ Becomes(r, Idle)
  /\ UNCHANGED <<spent, ages>>

CreateUser(r) ==
  /\ request[r].at = "creating"
  /\ Unused # {}
  /\ IF Taken(request[r].email)
     THEN users' = users
     ELSE users' = Inserted(request[r].email, request[r].role)
  /\ Becomes(r, Idle)
  /\ UNCHANGED <<spent, ages>>

(* PUT /users/{id}: the row as the session sees it; the row of the           *)
(* administrator himself is the one read at admission.                       *)
LoadUser(r, target, change) ==
  /\ request[r].at = "admitted"
  /\ \E row \in users[target] :
       Becomes(r, [at |-> "loaded", target |-> target, change |-> change,
                   read |-> IF target = request[r].by THEN request[r].own ELSE row])
  /\ UNCHANGED <<users, spent, ages>>

(* A change of email is checked against the other rows. *)
CheckEmail(r) ==
  LET s == request[r] IN
  /\ s.at = "loaded"
  /\ "email" \in DOMAIN s.change
  /\ Becomes(r, IF TakenByOther(s.change["email"], s.target) THEN Idle
                ELSE [s EXCEPT !.at = "checked"])
  /\ UNCHANGED <<users, spent, ages>>

(* The UPDATE finds its row and keeps the index, or the request fails. *)
UpdateUser(r) ==
  LET s == request[r] IN
  /\ \/ s.at = "checked"
     \/ s.at = "loaded" /\ "email" \notin DOMAIN s.change
  /\ IF "email" \in Written(s.change, s.read) /\ TakenByOther(s.change["email"], s.target)
     THEN users' = users
     ELSE users' = [users EXCEPT ![s.target] = {Merged(row, s.change, s.read) : row \in @}]
  /\ Becomes(r, Idle)
  /\ UNCHANGED <<spent, ages>>

(* DELETE /users/{id}, never of one's own row; deleting what is gone is 404. *)
DeleteUser(r, target) ==
  /\ request[r].at = "admitted"
  /\ target # request[r].by
  /\ users[target] # {}
  /\ users' = [users EXCEPT ![target] = {}]
  /\ spent' = spent \cup {target}
  /\ Becomes(r, Idle)
  /\ UNCHANGED ages

(* The client goes, the answer is an error, or a listing: nothing changes. *)
EndRequest(r) ==
  /\ request[r].at \notin {"idle", "login"}
  /\ Becomes(r, Idle)
  /\ UNCHANGED <<users, spent, ages>>

(* The limiter lives in the process, as its requests do. *)
Restart ==
  /\ ages' = [e \in Tried |-> <<>>]
  /\ request' = [r \in Request |-> Idle]
  /\ UNCHANGED <<users, spent>>

Tick ==
  /\ ages' = [e \in Tried |-> Aged(ages[e])]
  /\ UNCHANGED <<users, spent, request>>

RequestStep(r) ==
  \/ BeginBoot(r)
  \/ InsertAdmin(r)
  \/ \E email \in Tried : BeginLogin(r, email)
  \/ \E right \in BOOLEAN : EndLogin(r, right)
  \/ \E u \in User : Admit(r, u)
  \/ \E email \in Email, role \in Role : CheckNew(r, email, role)
  \/ CreateUser(r)
  \/ \E target \in User, change \in Change : LoadUser(r, target, change)
  \/ CheckEmail(r)
  \/ UpdateUser(r)
  \/ \E target \in User : DeleteUser(r, target)
  \/ EndRequest(r)

Next ==
  \/ \E r \in Request : RequestStep(r)
  \/ Restart
  \/ Tick

Spec == Init /\ [][Next]_vars

(* Time goes by. *)
FairSpec == Spec /\ WF_vars(Tick)

(***************************************************************************)
(* Properties.                                                             *)
(***************************************************************************)

(* Every variable has its type, and no two rows share an email, whatever     *)
(* creations, changes of email and start-ups overlap.                        *)
TypeOK ==
  /\ users \in [User -> {{}} \cup {{row} : row \in Row}]
  /\ \A u, v \in User : \A a \in users[u], b \in users[v] : a.email = b.email => u = v
  /\ spent \subseteq {u \in User : users[u] = {}}
  /\ ages \in [Tried -> Seq(0 .. Window - 1)]
  /\ request \in [Request -> RequestState]

Attempting(email) == {r \in Request : request[r].at = "login" /\ request[r].email = email}

(* The check of the limiter and the record of a failure are an await apart:  *)
(* simultaneous attempts may exceed the limit, by no more than all but one   *)
(* of the requests that can be in flight.                                    *)
AttemptsBounded ==
  \A e \in Tried :
    Len(ages[e]) + Cardinality(Attempting(e)) < Limit + Cardinality(Request)

(* Nobody is locked out for good: refused attempts do not extend the window. *)
LockoutEnds == \A e \in Tried : []<>~Limited(e)

(* Two updates of one account compose: a row changes only in the fields the  *)
(* request carries, though the request has read it earlier.                  *)
UpdatesCompose ==
  [][\A u \in User : \A old \in users[u], new \in users'[u] :
       old # new =>
         \E r \in Request :
           /\ request[r].at \in {"loaded", "checked"} /\ request'[r] = Idle
           /\ request[r].target = u
           /\ \A f \in DOMAIN old :
                old[f] # new[f] => f \in DOMAIN request[r].change
                                     /\ new[f] = request[r].change[f]]_vars
================================================================================
