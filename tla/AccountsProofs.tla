----------------------------- MODULE AccountsProofs -----------------------------
(***************************************************************************)
(* Theorems about Accounts, for any number of accounts, emails and requests  *)
(* in flight and any limit and window of the login limiter.                 *)
(***************************************************************************)
EXTENDS Accounts, FiniteSetTheorems, TLAPS

(***************************************************************************)
(* Rows.                                                                   *)
(***************************************************************************)

OneRow == {{}} \cup {{row} : row \in Row}

UsersType == users \in [User -> OneRow]

RequestType == request \in [Request -> RequestState]

RowsType == UsersType /\ RequestType

(* No two rows share an email.                                               *)
EmailsUnique ==
  \A u, v \in User : \A a \in users[u], b \in users[v] : a.email = b.email => u = v

SpentGone == spent \subseteq {u \in User : users[u] = {}}

LEMMA RowFields ==
  ASSUME NEW row \in Row
  PROVE  /\ DOMAIN row = {"email", "role", "active"}
         /\ row.email \in Email /\ row.role \in Role /\ row.active \in BOOLEAN
         /\ row["email"] = row.email /\ row["role"] = row.role /\ row["active"] = row.active
BY DEF Row

LEMMA RowOf ==
  ASSUME UsersType, NEW u \in User, NEW row \in users[u]
  PROVE  row \in Row /\ users[u] = {row}
BY DEF UsersType, OneRow

LEMMA MergedType ==
  ASSUME NEW row \in Row, NEW change \in Change, NEW read
  PROVE  Merged(row, change, read) \in Row
<1> DEFINE m == Merged(row, change, read)
<1>1. /\ DOMAIN m = {"email", "role", "active"} /\ m = [f \in DOMAIN m |-> m[f]]
      /\ \A f \in {"email", "role", "active"} :
           m[f] = IF f \in Written(change, read) THEN change[f] ELSE row[f]
  BY RowFields DEF Merged
<1>2. m["email"] \in Email /\ m["role"] \in Role /\ m["active"] \in BOOLEAN
  <2>1. /\ "email" \in DOMAIN change => change["email"] \in Email
        /\ "role" \in DOMAIN change => change["role"] \in Role
        /\ "active" \in DOMAIN change => change["active"] \in BOOLEAN
    BY AccountsAssumption
  <2>2. \A f : f \in Written(change, read) => f \in DOMAIN change
    BY DEF Written
  <2>3. QED
    BY <1>1, <2>1, <2>2, RowFields
<1> HIDE DEF m
<1>3. m \in Row
  BY <1>1, <1>2 DEF Row
<1>4. QED
  BY <1>3 DEF m

LEMMA MergedEmail ==
  ASSUME NEW row \in Row, NEW change, NEW read
  PROVE  Merged(row, change, read).email =
           IF "email" \in Written(change, read) THEN change["email"] ELSE row.email
BY DEF Row, Merged

(* What a request remembers, by where it is.                                  *)
LEMMA RequestFields ==
  ASSUME RequestType, NEW r \in Request
  PROVE  /\ request[r].at = "login" => request[r].email \in Tried
         /\ request[r].at = "admitted" => request[r].by \in User /\ request[r].own \in Row
         /\ request[r].at = "creating" => request[r].email \in Email /\ request[r].role \in Role
         /\ request[r].at \in {"loaded", "checked"} =>
              /\ request[r].target \in User /\ request[r].read \in Row
              /\ request[r].change \in Change
<1>1. request[r] \in RequestState
  BY DEF RequestType
<1>2. CASE request[r] = Idle
  BY <1>2 DEF Idle
<1>3. CASE request[r] \in LoginState
  BY <1>3 DEF LoginState
<1>4. CASE request[r] \in AdminState
  BY <1>4 DEF AdminState
<1>5. CASE request[r] \in CreateState
  BY <1>5 DEF CreateState
<1>6. CASE request[r] \in UpdateState
  BY <1>6 DEF UpdateState
<1>7. CASE request[r] \in BootState
  BY <1>7 DEF BootState
<1>8. QED
  BY <1>1, <1>2, <1>3, <1>4, <1>5, <1>6, <1>7 DEF RequestState

LEMMA BecomesType ==
  ASSUME RequestType, NEW r \in Request, NEW s \in RequestState, Becomes(r, s)
  PROVE  RequestType'
BY DEF RequestType, Becomes

LEMMA RequestStepType ==
  ASSUME RowsType, NEW r \in Request, RequestStep(r)
  PROVE  RequestType'
<1> USE DEF RowsType
<1>0. Idle \in RequestState
  BY DEF RequestState
<1>1. CASE BeginBoot(r)
  <2>1. [at |-> "booting"] \in RequestState
    BY DEF RequestState, BootState
  <2>2. QED
    BY <1>1, <2>1, BecomesType DEF BeginBoot
<1>2. CASE InsertAdmin(r) \/ CreateUser(r) \/ UpdateUser(r) \/ EndRequest(r)
  BY <1>0, <1>2, BecomesType DEF InsertAdmin, CreateUser, UpdateUser, EndRequest
<1>3. ASSUME NEW email \in Tried, BeginLogin(r, email)
      PROVE  RequestType'
  <2>1. [at |-> "login", email |-> email] \in RequestState
    BY DEF RequestState, LoginState
  <2>2. QED
    BY <1>3, <2>1, BecomesType DEF BeginLogin
<1>4. ASSUME NEW right \in BOOLEAN, EndLogin(r, right)
      PROVE  RequestType'
  BY <1>0, <1>4, BecomesType DEF EndLogin
<1>5. ASSUME NEW u \in User, Admit(r, u)
      PROVE  RequestType'
  <2>1. PICK row \in users[u] : Becomes(r, [at |-> "admitted", by |-> u, own |-> row])
    BY <1>5 DEF Admit
  <2>2. [at |-> "admitted", by |-> u, own |-> row] \in RequestState
    BY RowOf DEF RequestState, AdminState
  <2>3. QED
    BY <2>1, <2>2, BecomesType
<1>6. ASSUME NEW email \in Email, NEW role \in Role, CheckNew(r, email, role)
      PROVE  RequestType'
  <2>1. [at |-> "creating", email |-> email, role |-> role] \in RequestState
    BY DEF RequestState, CreateState
  <2>2. QED
    BY <1>0, <1>6, <2>1, BecomesType DEF CheckNew
<1>7. ASSUME NEW target \in User, NEW change \in Change, LoadUser(r, target, change)
      PROVE  RequestType'
  <2>1. request[r].own \in Row
    BY <1>7, RequestFields DEF LoadUser
  <2>2. PICK row \in users[target] :
          Becomes(r, [at |-> "loaded", target |-> target, change |-> change,
                      read |-> IF target = request[r].by THEN request[r].own ELSE row])
    BY <1>7 DEF LoadUser
  <2>3. row \in Row
    BY RowOf
  <2>4. [at |-> "loaded", target |-> target, change |-> change,
         read |-> IF target = request[r].by THEN request[r].own ELSE row] \in RequestState
    BY <2>1, <2>3 DEF RequestState, UpdateState
  <2>5. QED
    BY <2>2, <2>4, BecomesType
<1>8. CASE CheckEmail(r)
  <2>1. request[r] \in RequestState /\ request[r].at = "loaded"
    BY <1>8 DEF CheckEmail, RequestType
  <2>2. request[r] \in UpdateState
    BY <2>1 DEF RequestState, Idle, LoginState, AdminState, CreateState, BootState
  <2>3. [request[r] EXCEPT !.at = "checked"] \in RequestState
    BY <2>2 DEF RequestState, UpdateState
  <2>4. QED
    BY <1>0, <1>8, <2>3, BecomesType DEF CheckEmail
<1>9. ASSUME NEW target \in User, DeleteUser(r, target)
      PROVE  RequestType'
  BY <1>0, <1>9, BecomesType DEF DeleteUser
<1>10. QED
  BY <1>1, <1>2, <1>3, <1>4, <1>5, <1>6, <1>7, <1>8, <1>9 DEF RequestStep

(***************************************************************************)
(* What a step does to the users table: nothing, an insertion, an update or   *)
(* a deletion.                                                              *)
(***************************************************************************)

Inserts ==
  \E id \in Unused, email \in Email, role \in Role :
    /\ ~Taken(email)
    /\ users' = [users EXCEPT ![id] = {[email |-> email, role |-> role, active |-> TRUE]}]

Updates(r) ==
  LET s == request[r] IN
  /\ s.at \in {"loaded", "checked"}
  /\ request'[r] = Idle
  /\ ~("email" \in Written(s.change, s.read) /\ TakenByOther(s.change["email"], s.target))
  /\ users' = [users EXCEPT ![s.target] = {Merged(row, s.change, s.read) : row \in @}]

Deletes(r) ==
  \E target \in User :
    /\ request[r].at = "admitted" /\ request'[r] = Idle
    /\ target # request[r].by
    /\ users' = [users EXCEPT ![target] = {}]

LEMMA InsertedIs ==
  ASSUME NEW email \in Email, NEW role \in Role, ~Taken(email), Unused # {},
         users' = Inserted(email, role)
  PROVE  Inserts
<1>1. (CHOOSE u \in Unused : TRUE) \in Unused
  OBVIOUS
<1>2. QED
  BY <1>1 DEF Inserts, Inserted

LEMMA TableStep ==
  ASSUME RowsType, NEW r \in Request, RequestStep(r)
  PROVE  /\ \/ users' = users
            \/ Inserts
            \/ Updates(r)
            \/ Deletes(r)
         /\ spent \subseteq spent'
         /\ \A u \in spent' \ spent : u \in User /\ users'[u] = {}
         /\ \A h \in Request \ {r} : request'[h] = request[h]
<1> USE DEF RowsType
<1>0. /\ \A h \in Request \ {r} : \A s : Becomes(r, s) => request'[h] = request[h]
      /\ Becomes(r, Idle) => request'[r] = Idle
  BY DEF Becomes, RequestType
<1>1. CASE InsertAdmin(r)
  <2>1. AdminEmail \in Email /\ "admin" \in Role
    BY AccountsAssumption DEF Role
  <2>2. QED
    BY <1>0, <1>1, <2>1, InsertedIs DEF InsertAdmin
<1>2. CASE CreateUser(r)
  <2>1. request[r].email \in Email /\ request[r].role \in Role
    BY <1>2, RequestFields DEF CreateUser
  <2>2. QED
    BY <1>0, <1>2, <2>1, InsertedIs DEF CreateUser
<1>3. CASE UpdateUser(r)
  BY <1>0, <1>3 DEF UpdateUser, Updates
<1>4. ASSUME NEW target \in User, DeleteUser(r, target)
      PROVE  /\ Deletes(r) /\ spent \subseteq spent'
             /\ \A u \in spent' \ spent : u \in User /\ users'[u] = {}
             /\ \A h \in Request \ {r} : request'[h] = request[h]
  <2>1. spent' = spent \cup {target} /\ users' = [users EXCEPT ![target] = {}]
    BY <1>4 DEF DeleteUser
  <2>2. users'[target] = {}
    BY <2>1 DEF UsersType
  <2>3. Deletes(r)
    BY <1>0, <1>4 DEF DeleteUser, Deletes
  <2>4. QED
    BY <1>0, <1>4, <2>1, <2>2, <2>3 DEF DeleteUser
<1>5. CASE \/ BeginBoot(r) \/ CheckEmail(r) \/ EndRequest(r)
           \/ \E email \in Tried : BeginLogin(r, email)
           \/ \E right \in BOOLEAN : EndLogin(r, right)
           \/ \E u \in User : Admit(r, u)
           \/ \E email \in Email, role \in Role : CheckNew(r, email, role)
           \/ \E target \in User, change \in Change : LoadUser(r, target, change)
  BY <1>0, <1>5 DEF BeginBoot, CheckEmail, EndRequest, BeginLogin, EndLogin, Admit, CheckNew,
                    LoadUser
<1>6. QED
  BY <1>1, <1>2, <1>3, <1>4, <1>5 DEF RequestStep

LEMMA TableStepKeeps ==
  ASSUME RowsType, EmailsUnique, SpentGone, NEW r \in Request, RequestStep(r)
  PROVE  UsersType' /\ EmailsUnique' /\ SpentGone'
<1>1. /\ users' = users \/ Inserts \/ Updates(r) \/ Deletes(r)
      /\ \A u \in spent' \ spent : u \in User /\ users'[u] = {}
  BY TableStep
<1>2. CASE users' = users
  BY <1>1, <1>2 DEF RowsType, UsersType, EmailsUnique, SpentGone
<1>3. CASE Inserts
  <2>1. PICK id \in Unused, email \in Email, role \in Role :
          /\ ~Taken(email)
          /\ users' = [users EXCEPT ![id] = {[email |-> email, role |-> role, active |-> TRUE]}]
    BY <1>3 DEF Inserts
  <2> DEFINE new == [email |-> email, role |-> role, active |-> TRUE]
  <2>2. new \in Row /\ new.email = email
    BY DEF Row
  <2>3. id \in User /\ id \notin spent
    BY DEF Unused
  <2> HIDE DEF new
  <2>4. users' = [users EXCEPT ![id] = {new}]
    BY <2>1 DEF new
  <2>5. /\ users'[id] = {new} /\ \A v \in User \ {id} : users'[v] = users[v]
    BY <2>3, <2>4 DEF RowsType, UsersType
  <2>6. UsersType'
    BY <2>2, <2>3, <2>4 DEF RowsType, UsersType, OneRow
  <2>7. EmailsUnique'
    BY <2>1, <2>2, <2>3, <2>5 DEF EmailsUnique, Taken
  <2>8. SpentGone'
    BY <1>1, <2>3, <2>5 DEF SpentGone
  <2>9. QED
    BY <2>6, <2>7, <2>8
<1>4. CASE Updates(r)
  <2> DEFINE s == request[r]
             t == s.target
             change == s.change
             read == s.read
             updated == {Merged(row, change, read) : row \in users[t]}
  <2>1. t \in User /\ change \in Change
    BY <1>4, RequestFields DEF Updates, RowsType
  <2>2. users' = [users EXCEPT ![t] = updated]
    BY <1>4 DEF Updates
  <2>3. ~("email" \in Written(change, read) /\ TakenByOther(change["email"], t))
    BY <1>4 DEF Updates
  <2>4. updated \in OneRow
    <3>1. CASE users[t] = {}
      BY <3>1 DEF OneRow
    <3>2. ASSUME NEW row \in users[t]
          PROVE  updated \in OneRow
      <4>1. row \in Row /\ users[t] = {row}
        BY <2>1, RowOf DEF RowsType
      <4>2. updated = {Merged(row, change, read)}
        BY <4>1
      <4>3. Merged(row, change, read) \in Row
        BY <2>1, <4>1, MergedType
      <4>4. QED
        BY <4>2, <4>3 DEF OneRow
    <3>3. QED
      BY <3>1, <3>2
  <2>5. \A a \in updated :
          \/ \E row \in users[t] : a.email = row.email
          \/ ~TakenByOther(a.email, t)
    <3> SUFFICES ASSUME NEW row \in users[t]
                 PROVE  LET a == Merged(row, change, read) IN
                        a.email = row.email \/ ~TakenByOther(a.email, t)
      OBVIOUS
    <3>1. row \in Row
      BY <2>1, RowOf DEF RowsType
    <3>2. Merged(row, change, read).email =
            IF "email" \in Written(change, read) THEN change["email"] ELSE row.email
      BY <3>1, MergedEmail
    <3>3. QED
      BY <2>3, <3>2
  <2> HIDE DEF updated, t
  <2>6. users'[t] = updated /\ \A v \in User \ {t} : users'[v] = users[v]
    BY <2>1, <2>2 DEF RowsType, UsersType
  <2>7. UsersType'
    BY <2>1, <2>2, <2>4 DEF RowsType, UsersType
  <2>8. EmailsUnique'
    <3> SUFFICES ASSUME NEW u \in User, NEW v \in User, u # v,
                        NEW a \in users'[u], NEW b \in users'[v], a.email = b.email
                 PROVE  FALSE
      BY DEF EmailsUnique
    <3>1. CASE u = t
      <4>1. a \in updated /\ b \in users[v] /\ v \in User \ {t}
        BY <2>6, <3>1
      <4>2. TakenByOther(a.email, t)
        BY <4>1 DEF TakenByOther
      <4>3. PICK row \in users[t] : row.email = b.email
        BY <2>5, <4>1, <4>2
      <4>4. QED
        BY <2>1, <4>1, <4>3 DEF EmailsUnique
    <3>2. CASE v = t
      <4>1. b \in updated /\ a \in users[u] /\ u \in User \ {t}
        BY <2>6, <3>2
      <4>2. TakenByOther(b.email, t)
        BY <4>1 DEF TakenByOther
      <4>3. PICK row \in users[t] : row.email = a.email
        BY <2>5, <4>1, <4>2
      <4>4. QED
        BY <2>1, <4>1, <4>3 DEF EmailsUnique
    <3>3. CASE u # t /\ v # t
      BY <2>6, <3>3 DEF EmailsUnique
    <3>4. QED
      BY <3>1, <3>2, <3>3
  <2>9. SpentGone'
    <3>1. users[t] = {} => updated = {}
      BY DEF updated, t
    <3>2. QED
      BY <1>1, <2>6, <3>1 DEF SpentGone
  <2>10. QED
    BY <2>7, <2>8, <2>9
<1>5. CASE Deletes(r)
  <2>1. PICK target \in User : users' = [users EXCEPT ![target] = {}]
    BY <1>5 DEF Deletes
  <2>2. users'[target] = {} /\ \A v \in User \ {target} : users'[v] = users[v]
    BY <2>1 DEF RowsType, UsersType
  <2>3. UsersType'
    BY <2>1 DEF RowsType, UsersType, OneRow
  <2>4. QED
    BY <1>1, <2>2, <2>3 DEF EmailsUnique, SpentGone
<1>6. QED
  BY <1>1, <1>2, <1>3, <1>4, <1>5

(***************************************************************************)
(* The limiter.                                                            *)
(***************************************************************************)

Ages == 0 .. Window - 1

(* The oldest failures come first: those of age a or more are the first few.  *)
Sorted(w) ==
  \A a \in 0 .. Window : \E k \in 0 .. Len(w) :
    \A n \in 1 .. Len(w) : n <= k <=> w[n] >= a

AgesOK == ages \in [Tried -> Seq(Ages)] /\ \A e \in Tried : Sorted(ages[e])

(* Pruning drops the attempts that leave the window, and no other.            *)
LEMMA AgedIs ==
  ASSUME NEW w \in Seq(Ages), Sorted(w)
  PROVE  \E gone \in 0 .. Len(w) :
           /\ \A n \in 1 .. Len(w) : n <= gone <=> w[n] + 1 >= Window
           /\ Aged(w) = [n \in 1 .. Len(w) - gone |-> w[gone + n] + 1]
<1>1. Len(w) \in Nat /\ (\A n \in 1 .. Len(w) : w[n] \in Ages) /\ Window - 1 \in 0 .. Window
  BY AccountsAssumption
<1>2. PICK gone \in 0 .. Len(w) : \A n \in 1 .. Len(w) : n <= gone <=> w[n] >= Window - 1
  BY <1>1 DEF Sorted
<1>3. \A n \in 1 .. Len(w) : n <= gone <=> w[n] + 1 >= Window
  BY <1>1, <1>2, AccountsAssumption DEF Ages
<1> DEFINE live == {n \in 1 .. Len(w) : w[n] + 1 < Window}
           first == CHOOSE n \in live : \A m \in live : n <= m
           kept == IF live = {} THEN 0 ELSE Len(w) + 1 - first
<1>4. live = (gone + 1) .. Len(w)
  BY <1>1, <1>3, AccountsAssumption DEF Ages
<1>5. gone < Len(w) => first = gone + 1
  <2> SUFFICES ASSUME gone < Len(w)
               PROVE  first = gone + 1
    OBVIOUS
  <2>1. gone + 1 \in live /\ (\A m \in live : gone + 1 <= m) /\ live \subseteq Nat
    BY <1>1, <1>4
  <2> HIDE DEF live
  <2>2. first \in live /\ \A m \in live : first <= m
    BY <2>1
  <2> HIDE DEF first
  <2>3. QED
    BY <1>1, <2>1, <2>2
<1>6. kept = Len(w) - gone
  <2>1. CASE gone < Len(w)
    <3>1. gone + 1 \in live
      BY <1>1, <1>4, <2>1
    <3>2. kept = Len(w) + 1 - first
      BY <3>1
    <3> HIDE DEF kept, live, first
    <3>3. QED
      BY <1>1, <1>5, <2>1, <3>2
  <2>2. CASE gone = Len(w)
    <3>1. live = {}
      BY <1>1, <1>4, <2>2
    <3>2. QED
      BY <1>1, <2>2, <3>1
  <2>3. QED
    BY <1>1, <2>1, <2>2
<1>7. Aged(w) = [n \in 1 .. kept |-> w[Len(w) - kept + n] + 1]
  BY DEF Aged
<1> HIDE DEF kept
<1>8. Len(w) - kept = gone
  BY <1>1, <1>6
<1>9. Aged(w) = [n \in 1 .. Len(w) - gone |-> w[gone + n] + 1]
  BY <1>6, <1>7, <1>8
<1>10. QED
  BY <1>3, <1>9

LEMMA AgedType ==
  ASSUME NEW w \in Seq(Ages), Sorted(w)
  PROVE  Aged(w) \in Seq(Ages) /\ Len(Aged(w)) <= Len(w) /\ Sorted(Aged(w))
<1>1. PICK gone \in 0 .. Len(w) :
        /\ \A n \in 1 .. Len(w) : n <= gone <=> w[n] + 1 >= Window
        /\ Aged(w) = [n \in 1 .. Len(w) - gone |-> w[gone + n] + 1]
  BY AgedIs
<1>2. Len(w) \in Nat /\ \A n \in 1 .. Len(w) : w[n] \in Ages
  OBVIOUS
<1>3. \A n \in 1 .. Len(w) - gone : gone + n \in 1 .. Len(w) /\ w[gone + n] + 1 \in Ages
  BY <1>1, <1>2, AccountsAssumption DEF Ages
<1> DEFINE size == Len(w) - gone
<1>4. size \in Nat /\ size <= Len(w)
  BY <1>2
<1>5. Aged(w) \in Seq(Ages) /\ Len(Aged(w)) = size
  <2>1. Aged(w) = [n \in 1 .. size |-> w[gone + n] + 1]
    BY <1>1
  <2>2. \A n \in 1 .. size : w[gone + n] + 1 \in Ages
    BY <1>3
  <2> HIDE DEF size
  <2>3. QED
    BY <1>4, <2>1, <2>2
<1>6. \A n \in 1 .. size : Aged(w)[n] = w[gone + n] + 1
  BY <1>1
<1>7. ASSUME NEW a \in 0 .. Window
      PROVE  \E k \in 0 .. size : \A n \in 1 .. size : n <= k <=> Aged(w)[n] >= a
  <2>1. CASE a = 0
    <3>1. \A n \in 1 .. size : n <= size <=> Aged(w)[n] >= a
      BY <1>2, <1>3, <1>6, <2>1 DEF Ages
    <3>2. size \in 0 .. size
      BY <1>4
    <3> HIDE DEF size
    <3>3. QED
      BY <3>1, <3>2
  <2>2. CASE a # 0
    <3>0. a - 1 \in 0 .. Window
      BY <2>2, AccountsAssumption
    <3>1. PICK k \in 0 .. Len(w) : \A n \in 1 .. Len(w) : n <= k <=> w[n] >= a - 1
      BY <3>0 DEF Sorted
    <3> DEFINE j == IF k <= gone THEN 0 ELSE k - gone
    <3>2. j \in 0 .. size
      BY <1>2
    <3>3. ASSUME NEW n \in 1 .. size
          PROVE  n <= j <=> Aged(w)[n] >= a
      <4>1. gone + n <= k <=> w[gone + n] >= a - 1
        BY <1>3, <3>1
      <4>2. w[gone + n] \in Ages /\ Aged(w)[n] = w[gone + n] + 1
        BY <1>2, <1>3, <1>6
      <4>3. n <= j <=> gone + n <= k
        BY <1>2
      <4>4. QED
        BY <4>1, <4>2, <4>3, AccountsAssumption DEF Ages
    <3>4. QED
      BY <3>2, <3>3
  <2>3. QED
    BY <2>1, <2>2
<1>8. QED
  BY <1>4, <1>5, <1>7 DEF Sorted

LEMMA AppendSorted ==
  ASSUME NEW w \in Seq(Ages), Sorted(w)
  PROVE  Append(w, 0) \in Seq(Ages) /\ Len(Append(w, 0)) = Len(w) + 1 /\ Sorted(Append(w, 0))
<1> DEFINE v == Append(w, 0)
<1>1. 0 \in Ages /\ Len(w) \in Nat
  BY AccountsAssumption DEF Ages
<1>2. /\ v \in Seq(Ages) /\ Len(v) = Len(w) + 1
      /\ \A n \in 1 .. Len(w) : v[n] = w[n] /\ w[n] \in Ages
      /\ v[Len(w) + 1] = 0
  BY <1>1
<1> HIDE DEF v
<1>3. ASSUME NEW a \in 0 .. Window
      PROVE  \E k \in 0 .. Len(v) : \A n \in 1 .. Len(v) : n <= k <=> v[n] >= a
  <2>1. CASE a = 0
    <3>1. \A n \in 1 .. Len(v) : n <= Len(v) <=> v[n] >= a
      BY <1>1, <1>2, <2>1 DEF Ages
    <3>2. QED
      BY <1>1, <1>2, <3>1
  <2>2. CASE a # 0
    <3>1. PICK k \in 0 .. Len(w) : \A n \in 1 .. Len(w) : n <= k <=> w[n] >= a
      BY DEF Sorted
    <3>2. \A n \in 1 .. Len(v) : n <= k <=> v[n] >= a
      BY <1>1, <1>2, <2>2, <3>1
    <3>3. QED
      BY <1>1, <1>2, <3>2
  <2>3. QED
    BY <2>1, <2>2
<1>4. QED
  BY <1>2, <1>3 DEF Sorted, v

LEMMA EmptySorted == <<>> \in Seq(Ages) /\ Len(<<>>) = 0 /\ Sorted(<<>>)
BY AccountsAssumption DEF Sorted

LEMMA AgesStep ==
  ASSUME AgesOK, RequestType, [Next]_vars
  PROVE  AgesOK'
<1>1. ASSUME NEW r \in Request, NEW right \in BOOLEAN, EndLogin(r, right)
      PROVE  AgesOK'
  <2>1. request[r].email \in Tried
    BY <1>1, RequestFields DEF EndLogin
  <2>2. PICK w : /\ ages' = [ages EXCEPT ![request[r].email] = w]
                 /\ w = <<>> \/ w = Append(ages[request[r].email], 0)
    BY <1>1 DEF EndLogin
  <2>3. w \in Seq(Ages) /\ Sorted(w)
    BY <2>1, <2>2, EmptySorted, AppendSorted DEF AgesOK
  <2>4. QED
    BY <2>1, <2>2, <2>3 DEF AgesOK
<1>2. CASE Tick
  <2>1. ages' = [e \in Tried |-> Aged(ages[e])]
    BY <1>2 DEF Tick
  <2>2. \A e \in Tried : Aged(ages[e]) \in Seq(Ages) /\ Sorted(Aged(ages[e]))
    BY AgedType DEF AgesOK
  <2>3. QED
    BY <2>1, <2>2 DEF AgesOK
<1>3. CASE Restart
  BY <1>3, EmptySorted DEF Restart, AgesOK
<1>4. ASSUME NEW r \in Request, RequestStep(r), ~\E right \in BOOLEAN : EndLogin(r, right)
      PROVE  AgesOK'
  <2>1. ages' = ages
    BY <1>4 DEF RequestStep, BeginBoot, InsertAdmin, BeginLogin, Admit, CheckNew, CreateUser,
                LoadUser, CheckEmail, UpdateUser, DeleteUser, EndRequest
  <2>2. QED
    BY <2>1 DEF AgesOK
<1>5. CASE UNCHANGED vars
  BY <1>5 DEF vars, AgesOK
<1>6. QED
  BY <1>1, <1>2, <1>3, <1>4, <1>5 DEF Next

(***************************************************************************)
(* The type invariant.                                                     *)
(***************************************************************************)

Inv == RowsType /\ EmailsUnique /\ SpentGone /\ AgesOK

LEMMA InvInitially == Init => Inv
<1> SUFFICES ASSUME Init
             PROVE  Inv
  OBVIOUS
<1>1. RowsType
  BY DEF Init, RowsType, UsersType, RequestType, OneRow, RequestState
<1>2. EmailsUnique /\ SpentGone
  BY DEF Init, EmailsUnique, SpentGone
<1>3. AgesOK
  BY EmptySorted DEF Init, AgesOK
<1>4. QED
  BY <1>1, <1>2, <1>3 DEF Inv

LEMMA InvStep == Inv /\ [Next]_vars => Inv'
<1> SUFFICES ASSUME Inv, [Next]_vars
             PROVE  Inv'
  OBVIOUS
<1>0. AgesOK'
  BY AgesStep DEF Inv, RowsType
<1>1. ASSUME NEW r \in Request, RequestStep(r)
      PROVE  Inv'
  BY <1>0, <1>1, RequestStepType, TableStepKeeps DEF Inv, RowsType
<1>2. CASE Restart \/ Tick \/ UNCHANGED vars
  <2>1. users' = users /\ spent' = spent
    BY <1>2 DEF Restart, Tick, vars
  <2>2. RequestType'
    BY <1>2 DEF Restart, Tick, vars, Inv, RowsType, RequestType, RequestState
  <2>3. QED
    BY <1>0, <2>1, <2>2 DEF Inv, RowsType, UsersType, EmailsUnique, SpentGone
<1>3. QED
  BY <1>1, <1>2 DEF Next

LEMMA InvCorrect == Spec => []Inv
BY InvInitially, InvStep, PTL DEF Spec

(* Every variable keeps its type, and no two accounts share an email, however *)
(* creations, updates and start-ups overlap.                                 *)
THEOREM TypeCorrect == Spec => []TypeOK
<1>1. Inv => TypeOK
  BY DEF Inv, RowsType, UsersType, RequestType, OneRow, EmailsUnique, SpentGone, AgesOK, Ages,
         TypeOK
<1>2. QED
  BY <1>1, InvCorrect, PTL

(***************************************************************************)
(* Failed logins.                                                          *)
(***************************************************************************)

LEMMA AttemptingFinite ==
  ASSUME NEW S \in SUBSET Request
  PROVE  /\ IsFiniteSet(S) /\ Cardinality(S) \in Nat /\ Cardinality(Request) \in Nat
         /\ Cardinality(S) <= Cardinality(Request)
BY AccountsAssumption, FS_Subset, FS_CardinalityType

(* A bound on a window holds if it shrinks, as does the set of attempts.      *)
LEMMA BoundKept ==
  ASSUME NEW e \in Tried, AgesOK, AgesOK',
         Len(ages[e]) + Cardinality(Attempting(e)) < Limit + Cardinality(Request),
         Len(ages'[e]) <= Len(ages[e]), Attempting(e)' \subseteq Attempting(e)
  PROVE  Len(ages'[e]) + Cardinality(Attempting(e)') < Limit + Cardinality(Request)
<1> DEFINE A == Attempting(e)
           B == Attempting(e)'
<1>1. A \in SUBSET Request /\ B \in SUBSET Request /\ B \subseteq A
  BY DEF Attempting
<1> HIDE DEF A, B
<1>2. Cardinality(B) <= Cardinality(A) /\ Cardinality(A) \in Nat /\ Cardinality(B) \in Nat
  BY <1>1, AttemptingFinite, FS_Subset
<1>3. Len(ages[e]) \in Nat /\ Len(ages'[e]) \in Nat /\ Limit \in Nat
  BY AccountsAssumption DEF AgesOK
<1>4. Len(ages[e]) + Cardinality(A) < Limit + Cardinality(Request)
  BY DEF A
<1>5. Cardinality(Request) \in Nat
  BY AttemptingFinite
<1>6. Len(ages'[e]) + Cardinality(B) < Limit + Cardinality(Request)
  BY <1>2, <1>3, <1>4, <1>5
<1>7. QED
  BY <1>6 DEF B

LEMMA BeginLoginBound ==
  ASSUME Inv, Inv', AttemptsBounded,
         NEW r \in Request, NEW email \in Tried, BeginLogin(r, email)
  PROVE  AttemptsBounded'
<1> SUFFICES ASSUME NEW e \in Tried
             PROVE  Len(ages'[e]) + Cardinality(Attempting(e)') < Limit + Cardinality(Request)
  BY DEF AttemptsBounded
<1>1. /\ ages' = ages /\ ~Limited(email)
      /\ request' = [request EXCEPT ![r] = [at |-> "login", email |-> email]]
  BY DEF BeginLogin, Becomes
<1>2. AgesOK /\ AgesOK' /\ RequestType
  BY DEF Inv, RowsType
<1>3. CASE e = email
  <2> DEFINE B == Attempting(e)'
  <2>1. B \in SUBSET Request
    BY DEF Attempting
  <2>2. Len(ages'[e]) < Limit /\ Len(ages'[e]) \in Nat
    BY <1>1, <1>2, <1>3, AccountsAssumption DEF Limited, AgesOK
  <2> HIDE DEF B
  <2>3. Cardinality(B) \in Nat /\ Cardinality(Request) \in Nat
        /\ Cardinality(B) <= Cardinality(Request)
    BY <2>1, AttemptingFinite
  <2>4. Len(ages'[e]) + Cardinality(B) < Limit + Cardinality(Request)
    BY <2>2, <2>3, AccountsAssumption
  <2>5. QED
    BY <2>4 DEF B
<1>4. CASE e # email
  <2>1. Attempting(e)' \subseteq Attempting(e)
    BY <1>1, <1>2, <1>4 DEF Attempting, RequestType
  <2>2. Len(ages'[e]) <= Len(ages[e])
    BY <1>1, <1>2 DEF AgesOK
  <2>3. QED
    BY <1>2, <2>1, <2>2, BoundKept DEF AttemptsBounded
<1>5. QED
  BY <1>3, <1>4

LEMMA EndLoginBound ==
  ASSUME Inv, Inv', AttemptsBounded,
         NEW r \in Request, NEW right \in BOOLEAN, EndLogin(r, right)
  PROVE  AttemptsBounded'
<1> SUFFICES ASSUME NEW e \in Tried
             PROVE  Len(ages'[e]) + Cardinality(Attempting(e)') < Limit + Cardinality(Request)
  BY DEF AttemptsBounded
<1>1. AgesOK /\ AgesOK' /\ RequestType
  BY DEF Inv, RowsType
<1>2. /\ request[r].at = "login" /\ request[r].email \in Tried
      /\ request' = [request EXCEPT ![r] = Idle]
  BY <1>1, RequestFields DEF EndLogin, Becomes
<1>3. PICK w : /\ ages' = [ages EXCEPT ![request[r].email] = w]
               /\ w = <<>> \/ w = Append(ages[request[r].email], 0)
  BY DEF EndLogin
<1>4. CASE e = request[r].email
  <2> DEFINE A == Attempting(e)
             B == Attempting(e)'
  <2>1. A \in SUBSET Request /\ r \in A
    BY <1>2, <1>4 DEF Attempting
  <2>2. B = A \ {r}
    BY <1>1, <1>2 DEF Attempting, RequestType, Idle
  <2> HIDE DEF A, B
  <2>3. IsFiniteSet(A) /\ Cardinality(A) \in Nat /\ Cardinality(Request) \in Nat
    BY <2>1, AttemptingFinite
  <2>4. Cardinality(B) = Cardinality(A) - 1
    BY <2>1, <2>2, <2>3, FS_RemoveElement
  <2>5. Len(ages[e]) \in Nat /\ Len(ages'[e]) \in Nat /\ Len(ages'[e]) <= Len(ages[e]) + 1
    BY <1>1, <1>2, <1>3, <1>4, EmptySorted, AppendSorted DEF AgesOK
  <2>6. Len(ages[e]) + Cardinality(A) < Limit + Cardinality(Request)
    BY DEF A, AttemptsBounded
  <2>7. Len(ages'[e]) + Cardinality(B) < Limit + Cardinality(Request)
    BY <2>3, <2>4, <2>5, <2>6, AccountsAssumption
  <2>8. QED
    BY <2>7 DEF B
<1>5. CASE e # request[r].email
  <2>1. Attempting(e)' \subseteq Attempting(e)
    BY <1>1, <1>2 DEF Attempting, RequestType, Idle
  <2>2. Len(ages'[e]) <= Len(ages[e])
    BY <1>1, <1>2, <1>3, <1>5 DEF AgesOK
  <2>3. QED
    BY <1>1, <2>1, <2>2, BoundKept DEF AttemptsBounded
<1>6. QED
  BY <1>4, <1>5

(* No other step of a request begins an attempt or records one.              *)
LEMMA OtherStep ==
  ASSUME RequestType, NEW r \in Request, RequestStep(r),
         ~\E email \in Tried : BeginLogin(r, email),
         ~\E right \in BOOLEAN : EndLogin(r, right)
  PROVE  ages' = ages /\ \A e \in Tried : Attempting(e)' \subseteq Attempting(e)
<1>1. ages' = ages /\ \E s : Becomes(r, s) /\ s.at # "login"
  <2>1. CASE InsertAdmin(r) \/ CreateUser(r) \/ UpdateUser(r) \/ EndRequest(r)
    BY <2>1 DEF InsertAdmin, CreateUser, UpdateUser, EndRequest, Idle
  <2>2. CASE BeginBoot(r)
    BY <2>2 DEF BeginBoot
  <2>3. ASSUME NEW u \in User, Admit(r, u)
        PROVE  ages' = ages /\ \E s : Becomes(r, s) /\ s.at # "login"
    BY <2>3 DEF Admit
  <2>4. ASSUME NEW email \in Email, NEW role \in Role, CheckNew(r, email, role)
        PROVE  ages' = ages /\ \E s : Becomes(r, s) /\ s.at # "login"
    BY <2>4 DEF CheckNew, Idle
  <2>5. ASSUME NEW target \in User, NEW change \in Change, LoadUser(r, target, change)
        PROVE  ages' = ages /\ \E s : Becomes(r, s) /\ s.at # "login"
    BY <2>5 DEF LoadUser
  <2>6. CASE CheckEmail(r)
    <3>1. request[r] \in RequestState /\ request[r].at = "loaded" /\ ages' = ages
      BY <2>6 DEF CheckEmail, RequestType
    <3>2. request[r] \in UpdateState
      BY <3>1 DEF RequestState, Idle, LoginState, AdminState, CreateState, BootState
    <3>3. [request[r] EXCEPT !.at = "checked"].at # "login"
      BY <3>2 DEF UpdateState
    <3>4. Becomes(r, Idle) \/ Becomes(r, [request[r] EXCEPT !.at = "checked"])
      BY <2>6 DEF CheckEmail
    <3>5. QED
      BY <3>1, <3>3, <3>4 DEF Idle
  <2>7. ASSUME NEW target \in User, DeleteUser(r, target)
        PROVE  ages' = ages /\ \E s : Becomes(r, s) /\ s.at # "login"
    BY <2>7 DEF DeleteUser, Idle
  <2>8. QED
    BY <2>1, <2>2, <2>3, <2>4, <2>5, <2>6, <2>7 DEF RequestStep
<1>2. QED
  BY <1>1 DEF Attempting, Becomes, RequestType

LEMMA OtherStepBound ==
  ASSUME Inv, Inv', AttemptsBounded,
         \/ Restart \/ Tick \/ UNCHANGED vars
         \/ \E r \in Request :
              /\ RequestStep(r)
              /\ ~\E email \in Tried : BeginLogin(r, email)
              /\ ~\E right \in BOOLEAN : EndLogin(r, right)
  PROVE  AttemptsBounded'
<1> SUFFICES ASSUME NEW e \in Tried
             PROVE  Len(ages'[e]) + Cardinality(Attempting(e)') < Limit + Cardinality(Request)
  BY DEF AttemptsBounded
<1>1. AgesOK /\ AgesOK' /\ RequestType
  BY DEF Inv, RowsType
<1>2. Len(ages[e]) \in Nat
  BY <1>1 DEF AgesOK
<1>3. CASE Restart
  <2>1. Attempting(e)' = {} /\ ages'[e] = <<>>
    BY <1>3 DEF Restart, Attempting, Idle
  <2>2. Len(ages'[e]) <= Len(ages[e]) /\ Attempting(e)' \subseteq Attempting(e)
    BY <1>2, <2>1
  <2>3. QED
    BY <1>1, <2>2, BoundKept DEF AttemptsBounded
<1>4. CASE Tick \/ UNCHANGED vars
  <2>1. Attempting(e)' = Attempting(e)
    BY <1>4 DEF Tick, vars, Attempting
  <2>2. Len(ages'[e]) <= Len(ages[e])
    BY <1>1, <1>2, <1>4, AgedType DEF Tick, vars, AgesOK
  <2>3. QED
    BY <1>1, <2>1, <2>2, BoundKept DEF AttemptsBounded
<1>5. ASSUME NEW r \in Request, RequestStep(r),
             ~\E email \in Tried : BeginLogin(r, email),
             ~\E right \in BOOLEAN : EndLogin(r, right)
      PROVE  Len(ages'[e]) + Cardinality(Attempting(e)') < Limit + Cardinality(Request)
  <2>1. ages' = ages /\ Attempting(e)' \subseteq Attempting(e)
    BY <1>1, <1>5, OtherStep
  <2>2. QED
    BY <1>1, <1>2, <2>1, BoundKept DEF AttemptsBounded
<1>6. QED
  BY <1>3, <1>4, <1>5

(* The check of the limiter and the record of a failure are an await apart;  *)
(* still the failures recorded and under way for an email never exceed the    *)
(* limit by as many as the requests that can be in flight.                   *)
THEOREM AttemptsBoundedHolds == Spec => []AttemptsBounded
<1>1. Init => AttemptsBounded
  <2> SUFFICES ASSUME Init, NEW e \in Tried
               PROVE  Len(ages[e]) + Cardinality(Attempting(e)) < Limit + Cardinality(Request)
    BY DEF AttemptsBounded
  <2>1. ages[e] = <<>> /\ Attempting(e) = {}
    BY DEF Init, Attempting, Idle
  <2>2. Cardinality(Attempting(e)) = 0
    BY <2>1, FS_EmptySet
  <2>3. Cardinality(Request) \in Nat
    BY AttemptingFinite
  <2>4. QED
    BY <2>1, <2>2, <2>3, AccountsAssumption
<1>2. Inv /\ Inv' /\ AttemptsBounded /\ [Next]_vars => AttemptsBounded'
  <2> SUFFICES ASSUME Inv, Inv', AttemptsBounded, [Next]_vars
               PROVE  AttemptsBounded'
    OBVIOUS
  <2>1. ASSUME NEW r \in Request, RequestStep(r)
        PROVE  AttemptsBounded'
    BY <2>1, BeginLoginBound, EndLoginBound, OtherStepBound
  <2>2. QED
    BY <2>1, OtherStepBound DEF Next
<1>3. QED
  BY <1>1, <1>2, InvCorrect, PTL DEF Spec

(***************************************************************************)
(* Lock-outs.                                                              *)
(***************************************************************************)

(* Ticks until the newest failure has left the window.                       *)
LeftInWindow(w) == IF w = <<>> THEN 0 ELSE Window - w[Len(w)]

(* Each attempt under way may fail, and then lasts for a window.              *)
LockLeft(e) == Window * Cardinality(Attempting(e)) + LeftInWindow(ages[e])

LockoutBounded == \A e \in Tried : LockLeft(e) \in 0 .. Window * (Cardinality(Request) + 1)

LockoutRunsOut ==
  [][\A e \in Tried : Limited(e) =>
       /\ LockLeft(e)' <= LockLeft(e)
       /\ Tick => LockLeft(e)' < LockLeft(e)]_vars

LEMMA LeftType ==
  ASSUME NEW w \in Seq(Ages)
  PROVE  /\ LeftInWindow(w) \in 0 .. Window
         /\ Len(w) > 0 => LeftInWindow(w) = Window - w[Len(w)] /\ LeftInWindow(w) > 0
<1>1. CASE w = <<>>
  BY <1>1, AccountsAssumption DEF LeftInWindow
<1>2. CASE w # <<>>
  <2>1. Len(w) \in Nat \ {0} /\ w[Len(w)] \in Ages
    BY <1>2
  <2>2. QED
    BY <1>2, <2>1, AccountsAssumption DEF LeftInWindow, Ages
<1>3. QED
  BY <1>1, <1>2

(* A tick brings the newest failure nearer to the end of the window.          *)
LEMMA LeftAged ==
  ASSUME NEW w \in Seq(Ages), Sorted(w), Len(w) > 0
  PROVE  LeftInWindow(Aged(w)) < LeftInWindow(w)
<1>1. PICK gone \in 0 .. Len(w) :
        /\ \A n \in 1 .. Len(w) : n <= gone <=> w[n] + 1 >= Window
        /\ Aged(w) = [n \in 1 .. Len(w) - gone |-> w[gone + n] + 1]
  BY AgedIs
<1>2. Len(w) \in Nat \ {0} /\ Window \in Nat \ {0} /\ w[Len(w)] \in Ages /\ gone \in Nat
  BY AccountsAssumption
<1>3. LeftInWindow(w) = Window - w[Len(w)] /\ LeftInWindow(w) \in Nat \ {0}
  BY <1>2, LeftType
<1>4. Aged(w) \in Seq(Ages)
  BY AgedType
<1>5. CASE gone = Len(w)
  <2>1. Aged(w) = <<>>
    BY <1>1, <1>2, <1>5
  <2>2. QED
    BY <1>3, <2>1 DEF LeftInWindow
<1>6. CASE gone < Len(w)
  <2>1. Len(w) - gone \in Nat \ {0}
    BY <1>2, <1>6
  <2>2. Len(Aged(w)) = Len(w) - gone
    BY <1>1, <2>1
  <2>3. Aged(w)[Len(w) - gone] = w[gone + (Len(w) - gone)] + 1
    BY <1>1, <2>1
  <2>4. gone + (Len(w) - gone) = Len(w)
    BY <1>2
  <2>5. LeftInWindow(Aged(w)) = Window - (w[Len(w)] + 1)
    BY <1>4, <2>1, <2>2, <2>3, <2>4, LeftType
  <2>6. QED
    BY <1>2, <1>3, <2>5 DEF Ages
<1>7. QED
  BY <1>2, <1>5, <1>6

LEMMA LockLeftType ==
  ASSUME AgesOK, NEW e \in Tried
  PROVE  /\ LockLeft(e) \in 0 .. Window * (Cardinality(Request) + 1)
         /\ Cardinality(Attempting(e)) \in Nat
         /\ LeftInWindow(ages[e]) \in Nat
<1> DEFINE c == Cardinality(Attempting(e))
           l == LeftInWindow(ages[e])
<1>1. c \in Nat /\ Cardinality(Request) \in Nat /\ c <= Cardinality(Request)
  <2>1. Attempting(e) \in SUBSET Request
    BY DEF Attempting
  <2>2. QED
    BY <2>1, AttemptingFinite
<1>2. l \in 0 .. Window
  BY LeftType DEF AgesOK
<1>3. \A w, a, b \in Nat : a <= b => w * a <= w * b /\ w * a \in Nat /\ w * (b + 1) = w * b + w
  OBVIOUS
<1>4. Window \in Nat
  BY AccountsAssumption
<1>5. QED
  BY <1>1, <1>2, <1>3, <1>4 DEF LockLeft

(* With no more attempts under way the window alone counts.                   *)
LEMMA LockLeftKept ==
  ASSUME AgesOK, AgesOK', NEW e \in Tried, Attempting(e)' \subseteq Attempting(e)
  PROVE  /\ LeftInWindow(ages[e])' <= LeftInWindow(ages[e]) => LockLeft(e)' <= LockLeft(e)
         /\ LeftInWindow(ages[e])' < LeftInWindow(ages[e]) => LockLeft(e)' < LockLeft(e)
<1> DEFINE A == Attempting(e)
           B == Attempting(e)'
           l == LeftInWindow(ages[e])
           m == LeftInWindow(ages[e])'
<1>1. A \in SUBSET Request /\ B \in SUBSET Request
  BY DEF Attempting
<1> HIDE DEF A, B
<1>2. Cardinality(B) <= Cardinality(A) /\ Cardinality(A) \in Nat /\ Cardinality(B) \in Nat
  <2>1. B \in SUBSET A
    BY DEF A, B
  <2>2. QED
    BY <1>1, <2>1, AttemptingFinite, FS_Subset
<1>3. l \in Nat /\ m \in Nat /\ Window \in Nat
  BY LeftType, AccountsAssumption DEF AgesOK
<1>4. LockLeft(e) = Window * Cardinality(A) + l /\ LockLeft(e)' = Window * Cardinality(B) + m
  BY DEF LockLeft, A, B
<1>5. \A w, a, b \in Nat : b <= a => w * b <= w * a /\ w * b \in Nat /\ w * a \in Nat
  OBVIOUS
<1>6. Window * Cardinality(B) <= Window * Cardinality(A)
      /\ Window * Cardinality(B) \in Nat /\ Window * Cardinality(A) \in Nat
  BY <1>2, <1>3, <1>5
<1>7. QED
  BY <1>3, <1>4, <1>6

(* While a name is locked out nobody begins to guess: its attempts only end.  *)
LEMMA LockoutStep ==
  ASSUME Inv, Inv', [Next]_vars, NEW e \in Tried, Limited(e)
  PROVE  LockLeft(e)' <= LockLeft(e) /\ (Tick => LockLeft(e)' < LockLeft(e))
<1>1. AgesOK /\ AgesOK' /\ RequestType
  BY DEF Inv, RowsType
<1>2. /\ Len(ages[e]) > 0 /\ Len(ages[e]) \in Nat /\ ages[e] \in Seq(Ages)
      /\ ages'[e] \in Seq(Ages) /\ Sorted(ages[e])
  BY <1>1, AccountsAssumption DEF Limited, AgesOK
<1>3. LeftInWindow(ages[e]) \in 1 .. Window /\ LeftInWindow(ages[e])' \in Nat
  BY <1>2, LeftType
<1>4. CASE Tick
  <2>1. Attempting(e)' = Attempting(e)
    BY <1>4 DEF Tick, Attempting
  <2>2. ages'[e] = Aged(ages[e])
    BY <1>4 DEF Tick
  <2>3. LeftInWindow(ages[e])' < LeftInWindow(ages[e])
    <3>1. LeftInWindow(Aged(ages[e])) < LeftInWindow(ages[e])
      BY <1>2, LeftAged
    <3>2. QED
      BY <2>2, <3>1 DEF LeftInWindow
  <2>4. LockLeft(e)' < LockLeft(e)
    BY <1>1, <2>1, <2>3, LockLeftKept
  <2>5. LockLeft(e)' <= LockLeft(e)
    BY <1>1, <1>3, <2>1, <2>3, LockLeftKept
  <2>6. QED
    BY <2>4, <2>5
<1>5. ASSUME LeftInWindow(ages[e])' <= LeftInWindow(ages[e]),
             Attempting(e)' \subseteq Attempting(e)
      PROVE  LockLeft(e)' <= LockLeft(e)
  BY <1>1, <1>5, LockLeftKept
<1>6. ASSUME Restart PROVE LockLeft(e)' <= LockLeft(e)
  <2>1. Attempting(e)' = {} /\ ages'[e] = <<>>
    BY <1>6 DEF Restart, Attempting, Idle
  <2>2. LeftInWindow(ages[e])' = 0
    BY <2>1 DEF LeftInWindow
  <2>3. Attempting(e)' \subseteq Attempting(e)
    BY <2>1
  <2>4. QED
    BY <1>3, <1>5, <2>2, <2>3
<1>7. ASSUME UNCHANGED vars PROVE LockLeft(e)' <= LockLeft(e)
  <2>1. Attempting(e)' \subseteq Attempting(e)
    BY <1>7 DEF vars, Attempting
  <2>2. LeftInWindow(ages[e])' = LeftInWindow(ages[e])
    BY <1>7 DEF vars, LeftInWindow
  <2>3. QED
    BY <1>3, <1>5, <2>1, <2>2
<1>8. ASSUME NEW r \in Request, NEW email \in Tried, BeginLogin(r, email)
      PROVE  LockLeft(e)' <= LockLeft(e)
  <2>1. /\ ages' = ages /\ email # e
        /\ request' = [request EXCEPT ![r] = [at |-> "login", email |-> email]]
    BY <1>8 DEF BeginLogin, Becomes
  <2>2. Attempting(e)' \subseteq Attempting(e)
    BY <1>1, <2>1 DEF Attempting, RequestType
  <2>3. LeftInWindow(ages[e])' = LeftInWindow(ages[e])
    BY <2>1 DEF LeftInWindow
  <2>4. QED
    BY <1>3, <1>5, <2>2, <2>3
<1>9. ASSUME NEW r \in Request, NEW right \in BOOLEAN, EndLogin(r, right)
      PROVE  LockLeft(e)' <= LockLeft(e)
  <2>1. /\ request[r].at = "login" /\ request[r].email \in Tried
        /\ request' = [request EXCEPT ![r] = Idle]
    BY <1>1, <1>9, RequestFields DEF EndLogin, Becomes
  <2>2. CASE request[r].email = e
    <3> DEFINE A == Attempting(e)
               B == Attempting(e)'
    <3>1. A \in SUBSET Request /\ r \in A
      BY <2>1, <2>2 DEF Attempting
    <3>2. B = A \ {r}
      BY <1>1, <2>1 DEF Attempting, RequestType, Idle
    <3> HIDE DEF A, B
    <3>3. IsFiniteSet(A) /\ Cardinality(A) \in Nat
      BY <3>1, AttemptingFinite
    <3>4. Cardinality(B) = Cardinality(A) - 1
      BY <3>1, <3>2, <3>3, FS_RemoveElement
    <3>5. LeftInWindow(ages[e])' <= Window
      <4>1. LeftInWindow(ages'[e]) <= Window
        BY <1>2, LeftType, AccountsAssumption
      <4>2. QED
        BY <4>1 DEF LeftInWindow
    <3>6. \A w, a \in Int : w * (a - 1) = w * a - w
      OBVIOUS
    <3>7. /\ LockLeft(e) = Window * Cardinality(A) + LeftInWindow(ages[e])
          /\ LockLeft(e)' = Window * Cardinality(B) + LeftInWindow(ages[e])'
      BY DEF LockLeft, A, B
    <3>8. Window \in Nat /\ \A w, a \in Nat : w * a \in Nat
      BY AccountsAssumption
    <3>9. Window * Cardinality(A) \in Nat
      BY <3>3, <3>8
    <3>10. Window * Cardinality(B) = Window * Cardinality(A) - Window
      BY <3>3, <3>4, <3>6, <3>8
    <3>11. QED
      BY <1>3, <3>5, <3>7, <3>8, <3>9, <3>10
  <2>3. CASE request[r].email # e
    <3>1. Attempting(e)' \subseteq Attempting(e)
      BY <1>1, <2>1 DEF Attempting, RequestType, Idle
    <3>2. ages'[e] = ages[e]
      BY <1>1, <1>9, <2>3 DEF EndLogin, AgesOK
    <3>3. LeftInWindow(ages[e])' = LeftInWindow(ages[e])
      BY <3>2 DEF LeftInWindow
    <3>4. QED
      BY <1>3, <1>5, <3>1, <3>3
  <2>4. QED
    BY <2>2, <2>3
<1>10. ASSUME NEW r \in Request, RequestStep(r),
              ~\E email \in Tried : BeginLogin(r, email),
              ~\E right \in BOOLEAN : EndLogin(r, right)
       PROVE  LockLeft(e)' <= LockLeft(e)
  <2>1. ages' = ages /\ Attempting(e)' \subseteq Attempting(e)
    BY <1>1, <1>10, OtherStep
  <2>2. LeftInWindow(ages[e])' = LeftInWindow(ages[e])
    BY <2>1 DEF LeftInWindow
  <2>3. QED
    BY <1>3, <1>5, <2>1, <2>2
<1>11. CASE ~Tick
  <2>1. LockLeft(e)' <= LockLeft(e)
    BY <1>6, <1>7, <1>8, <1>9, <1>10, <1>11 DEF Next
  <2>2. QED
    BY <1>11, <2>1
<1>12. QED
  BY <1>4, <1>11

(* Nobody is locked out for good, and not for longer than a window for each   *)
(* request that can be in flight and one more: while a name is refused, what   *)
(* is left of it shrinks with every tick of the clock and grows with nothing, *)
(* neither refused attempts nor those that had passed the check before.       *)
THEOREM LockoutRunsOutHolds == Spec => []LockoutBounded /\ LockoutRunsOut
<1>1. Inv => LockoutBounded
  BY LockLeftType DEF Inv, LockoutBounded
<1>2. Inv /\ Inv' /\ [Next]_vars =>
        [\A e \in Tried : Limited(e) =>
           /\ LockLeft(e)' <= LockLeft(e)
           /\ Tick => LockLeft(e)' < LockLeft(e)]_vars
  BY LockoutStep
<1>3. QED
  BY <1>1, <1>2, InvCorrect, PTL DEF Spec, LockoutRunsOut

(***************************************************************************)
(* Updates.                                                                *)
(***************************************************************************)

(* A row changes in a request, and only there.                                *)
LEMMA TableChanges ==
  ASSUME Inv, [Next]_vars, users' # users
  PROVE  Inserts \/ \E r \in Request : Updates(r) \/ Deletes(r)
BY TableStep DEF Inv, Next, Restart, Tick, vars

(* An update writes the fields its request carries and leaves the others as    *)
(* they are, though the request has read the row earlier: two updates of one   *)
(* account compose.                                                         *)
THEOREM UpdatesComposeHolds == Spec => UpdatesCompose
<1> DEFINE Composed ==
      \A u \in User : \A old \in users[u], new \in users'[u] :
        old # new =>
          \E r \in Request :
            /\ request[r].at \in {"loaded", "checked"} /\ request'[r] = Idle
            /\ request[r].target = u
            /\ \A f \in DOMAIN old :
                 old[f] # new[f] => f \in DOMAIN request[r].change
                                      /\ new[f] = request[r].change[f]
<1>1. ASSUME Inv, [Next]_vars, NEW u \in User, NEW old \in users[u], NEW new \in users'[u],
             old # new
      PROVE  \E r \in Request :
               /\ request[r].at \in {"loaded", "checked"} /\ request'[r] = Idle
               /\ request[r].target = u
               /\ \A f \in DOMAIN old :
                    old[f] # new[f] => f \in DOMAIN request[r].change
                                         /\ new[f] = request[r].change[f]
  <2>1. UsersType /\ RequestType /\ users[u] = {old}
    BY <1>1, RowOf DEF Inv, RowsType
  <2>2. ~Inserts
    BY <1>1, <2>1 DEF Inserts, Unused, UsersType
  <2>3. ASSUME NEW r \in Request, Deletes(r)
        PROVE  FALSE
    BY <1>1, <2>1, <2>3 DEF Deletes, UsersType
  <2>4. PICK r \in Request : Updates(r)
    BY <1>1, <2>1, <2>2, <2>3, TableChanges
  <2> DEFINE t == request[r].target
             change == request[r].change
             read == request[r].read
  <2>5. /\ request[r].at \in {"loaded", "checked"} /\ request'[r] = Idle /\ t \in User
        /\ users' = [users EXCEPT ![t] = {Merged(row, change, read) : row \in users[t]}]
    BY <2>1, <2>4, RequestFields DEF Updates
  <2>6. u = t /\ new = Merged(old, change, read)
    BY <1>1, <2>1, <2>5 DEF UsersType
  <2>7. \A f \in DOMAIN old : old[f] # new[f] => f \in DOMAIN change /\ new[f] = change[f]
    BY <2>6 DEF Merged, Written
  <2>8. QED
    BY <2>5, <2>6, <2>7
<1>2. Inv /\ [Next]_vars => [Composed]_vars
  BY <1>1
<1>3. QED
  BY <1>2, InvCorrect, PTL DEF Spec, UpdatesCompose
================================================================================
