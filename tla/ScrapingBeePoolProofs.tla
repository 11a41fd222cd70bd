------------------------- MODULE ScrapingBeePoolProofs -------------------------
(***************************************************************************)
(* Theorems about ScrapingBeePool, for any number of calls, keys, slots,      *)
(* attempts, stop options and requests of a search.                         *)
(***************************************************************************)
EXTENDS ScrapingBeePool, FiniteSetTheorems, TLAPS

(***************************************************************************)
(* The rotation.                                                           *)
(***************************************************************************)

LEMMA Sizes ==
  /\ NumKeys \in Nat \ {0} /\ Slots \in Nat \ {0} /\ Attempts \in Nat \ {0}
  /\ Rounds \in Nat \ {0} /\ Requests \in Nat \ {0} /\ FailLimit \in Nat \ {0}
BY SizesAssumption

(* A set of numbers has a least one: the intervals up to its elements are      *)
(* finite sets, and of those one contains no other.                          *)
LEMMA LeastExists ==
  ASSUME NEW S \in SUBSET Nat, S # {}
  PROVE  LeastOf(S) \in S /\ \A y \in S : LeastOf(S) <= y
<1> DEFINE T == {0 .. m : m \in S}
<1>1. T \subseteq FiniteSubsetsOf(Nat) /\ T # {}
  <2>1. ASSUME NEW m \in S
        PROVE  0 .. m \in FiniteSubsetsOf(Nat)
    <3>1. IsFiniteSet(0 .. m) /\ 0 .. m \subseteq Nat
      BY FS_Interval
    <3>2. QED
      BY <3>1 DEF FiniteSubsetsOf
  <2>2. QED
    BY <2>1
<1>2. IsWellFoundedOn(StrictSubsetOrdering(Nat), FiniteSubsetsOf(Nat))
  BY FS_StrictSubsetOrderingWellFounded
<1> HIDE DEF T
<1>3. PICK x \in T : \A y \in T : <<y, x>> \notin StrictSubsetOrdering(Nat)
  BY <1>1, <1>2, WFMin
<1> USE DEF T
<1>4. PICK n \in S : x = 0 .. n
  OBVIOUS
<1>5. ASSUME NEW m \in S, m < n
      PROVE  FALSE
  <2>1. m \in Nat /\ n \in Nat
    OBVIOUS
  <2>2. 0 .. m \subseteq 0 .. n /\ n \in 0 .. n /\ n \notin 0 .. m
    BY <1>5, <2>1
  <2>3. <<0 .. m, 0 .. n>> \in StrictSubsetOrdering(Nat)
    BY <2>1, <2>2 DEF StrictSubsetOrdering
  <2>4. QED
    BY <1>3, <1>4, <2>3
<1>6. \A m \in S : n <= m
  BY <1>5
<1>7. QED
  BY <1>6 DEF LeastOf

LEMMA KeyAtType ==
  ASSUME NEW start \in Key, NEW i \in 1 .. NumKeys
  PROVE  KeyAt(start, i) \in Key
<1>1. start + i - 1 \in Nat
  BY Sizes DEF Key
<1>2. QED
  BY <1>1, Sizes DEF KeyAt, Key

(* From any start, the rotation comes by every key.                           *)
LEMMA KeyAtOnto ==
  ASSUME NEW start \in Key, NEW k \in Key
  PROVE  \E i \in 1 .. NumKeys : KeyAt(start, i) = k
<1> DEFINE i == IF k >= start THEN k - start + 1 ELSE k - start + NumKeys + 1
<1>1. /\ i \in 1 .. NumKeys /\ NumKeys \in Nat \ {0} /\ k \in 0 .. NumKeys - 1
      /\ start + i - 1 = IF k >= start THEN k ELSE k + NumKeys
  BY Sizes DEF Key
<1> HIDE DEF i
<1>2. k % NumKeys = k
  BY <1>1
<1>3. (k + NumKeys) % NumKeys = k
  BY <1>1
<1>4. QED
  BY <1>1, <1>2, <1>3 DEF KeyAt

(***************************************************************************)
(* One call.                                                               *)
(***************************************************************************)

Active == {"queued", "requesting", "parsing", "backoff"}

(* The first n keys of the rotation of a search.                              *)
Seen(s, n) == {KeyAt(s.start, j) : j \in 1 .. n}

(* A search that goes on has been refused by the keys before the current one; *)
(* one that has failed, by all of them.                                      *)
Good(s) ==
  /\ s \in CallState
  /\ s.at # "idle" => s.last = "none" /\ Seen(s, s.pos - 1) \subseteq s.tried
  /\ s.at = "idle" /\ s.last \in Failure \ {"unparsable"} => s.tried = Key
  /\ s.at = "backoff" => s.attempt < Attempts

LEMMA NewCallGood ==
  ASSUME NEW last \in Answer \cup {"cancelled"}, NEW tried \in SUBSET Key,
         last \in Failure \ {"unparsable"} => tried = Key
  PROVE  Good(NewCall(last, tried)) /\ NewCall(last, tried).at = "idle"
         /\ NewCall(last, tried).last = last
BY Sizes DEF Good, NewCall, CallState, Key

LEMMA CurrentKeyType == ASSUME NEW s \in CallState PROVE CurrentKey(s) \in Key
BY KeyAtType DEF CurrentKey, CallState

(* A search resumed from the i-th key on waits for a key whose breaker is     *)
(* closed, or has failed with every key of the pool tried.                   *)
Resumed(t) ==
  /\ Good(t)
  /\ \/ t.at = "queued" /\ ~blocked[CurrentKey(t)]
     \/ t.at = "idle" /\ t.last \in Failure

LEMMA OnwardResumes ==
  ASSUME NEW s \in CallState, s.last = "none", NEW i \in 1 .. NumKeys + 1,
         NEW failure \in Failure \ {"unparsable"}, Seen(s, i - 1) \subseteq s.tried
  PROVE  Resumed(Onward(s, i, failure))
<1> DEFINE open == {j \in i .. NumKeys : ~blocked[KeyAt(s.start, j)]}
           upto == IF open = {} THEN NumKeys + 1 ELSE LeastOf(open)
           tried == s.tried \cup {KeyAt(s.start, j) : j \in i .. upto - 1}
           t == Onward(s, i, failure)
<1>1. /\ s.start \in Key /\ s.tried \in SUBSET Key /\ i \in Nat /\ i >= 1 /\ i <= NumKeys + 1
      /\ NumKeys \in Nat \ {0}
  BY Sizes DEF CallState
<1>2. open # {} => upto \in open /\ upto \in i .. NumKeys
  BY <1>1, LeastExists
<1>3. upto \in i .. NumKeys + 1
  BY <1>1, <1>2
<1>4. tried \in SUBSET Key
  <2>1. \A j \in i .. upto - 1 : j \in 1 .. NumKeys
    BY <1>1, <1>3
  <2>2. QED
    BY <1>1, <2>1, KeyAtType
<1>5. Seen(s, upto - 1) \subseteq tried
  <2>1. ASSUME NEW j \in 1 .. upto - 1
        PROVE  KeyAt(s.start, j) \in tried
    <3>1. CASE j < i
      <4>1. j \in 1 .. i - 1
        BY <1>1, <1>3, <3>1
      <4>2. QED
        BY <4>1 DEF Seen
    <3>2. CASE j >= i
      <4>1. j \in i .. upto - 1
        BY <1>1, <1>3, <3>2
      <4>2. QED
        BY <4>1
    <3>3. QED
      BY <1>1, <1>3, <3>1, <3>2
  <2>2. QED
    BY <2>1 DEF Seen
<1>6. CASE open # {}
  <2>1. t = [s EXCEPT !.at = "queued", !.pos = upto, !.attempt = 1, !.request = 1,
                      !.tried = tried]
    BY <1>6 DEF Onward
  <2>2. upto \in 1 .. NumKeys /\ ~blocked[KeyAt(s.start, upto)]
    BY <1>1, <1>2, <1>6
  <2> HIDE DEF open, upto, tried, t
  <2>3. t \in CallState
    <3>1. /\ "queued" \in {"idle", "queued", "requesting", "parsing", "backoff"}
          /\ 1 \in 1 .. Attempts /\ 1 \in 1 .. Requests
      BY Sizes
    <3>2. QED
      BY <1>4, <2>1, <2>2, <3>1 DEF CallState
  <2>4. /\ t.at = "queued" /\ t.pos = upto /\ t.tried = tried
        /\ t.start = s.start /\ t.last = "none"
    BY <2>1 DEF CallState
  <2>5. Seen(t, t.pos - 1) \subseteq t.tried
    BY <1>5, <2>4 DEF Seen
  <2>6. QED
    BY <2>2, <2>3, <2>4, <2>5 DEF Resumed, Good, CurrentKey, t
<1>7. CASE open = {}
  <2> DEFINE last == IF i <= NumKeys THEN "quota" ELSE failure
  <2>1. t = NewCall(last, tried)
    BY <1>7 DEF Onward
  <2>2. tried = Key
    <3>1. upto - 1 = NumKeys
      BY <1>1, <1>7
    <3>2. Key \subseteq Seen(s, NumKeys)
      BY <1>1, KeyAtOnto DEF Seen
    <3>3. QED
      BY <1>4, <1>5, <3>1, <3>2
  <2>3. last \in Failure /\ last \in Answer
    BY DEF Failure, Answer
  <2> HIDE DEF open, upto, tried, t, last
  <2>4. QED
    BY <1>4, <2>1, <2>2, <2>3, NewCallGood DEF Resumed, t
<1>8. QED
  BY <1>6, <1>7

(* The start of a search, with any stop option.                              *)
LEMMA BeginSearchResumes ==
  ASSUME NEW c \in Call, Good(call[c]), cursor \in Key, NEW round \in 1 .. Rounds,
         BeginSearch(c, round)
  PROVE  \E t : Resumed(t) /\ Move(c, t)
<1> DEFINE s == [call[c] EXCEPT !.start = cursor, !.round = round, !.tried = {}, !.last = "none"]
<1>1. s \in CallState /\ s.last = "none"
  BY DEF Good, CallState, Answer
<1>2. Seen(s, 1 - 1) \subseteq s.tried
  BY DEF Seen
<1>3. "error" \in Failure \ {"unparsable"} /\ 1 \in 1 .. NumKeys + 1
  BY Sizes DEF Failure
<1> HIDE DEF s
<1>4. Resumed(Onward(s, 1, "error"))
  BY <1>1, <1>2, <1>3, OnwardResumes
<1>5. QED
  BY <1>4 DEF BeginSearch, s

(* The current key joins those that have refused, and the next one is tried.  *)
LEMMA NextKeyResumes ==
  ASSUME NEW s, Good(s), s.at # "idle", NEW failure \in Failure \ {"unparsable"}
  PROVE  Resumed(Onward([s EXCEPT !.tried = @ \cup {CurrentKey(s)}], s.pos + 1, failure))
<1> DEFINE u == [s EXCEPT !.tried = @ \cup {CurrentKey(s)}]
<1>1. s \in CallState /\ s.last = "none" /\ Seen(s, s.pos - 1) \subseteq s.tried
  BY DEF Good
<1>2. s.pos \in 1 .. NumKeys /\ s.tried \in SUBSET Key /\ CurrentKey(s) \in Key
  BY <1>1, CurrentKeyType DEF CallState
<1>3. s.tried \cup {CurrentKey(s)} \in SUBSET Key
  BY <1>2
<1>4. /\ u \in CallState /\ u.last = "none" /\ u.start = s.start
      /\ u.tried = s.tried \cup {CurrentKey(s)}
  BY <1>1, <1>3 DEF CallState
<1>5. s.pos + 1 \in 1 .. NumKeys + 1 /\ s.pos + 1 - 1 = s.pos
  BY <1>2, Sizes
<1>6. Seen(u, s.pos) \subseteq u.tried
  <2>1. ASSUME NEW j \in 1 .. s.pos
        PROVE  KeyAt(s.start, j) \in s.tried \cup {CurrentKey(s)}
    <3>1. CASE j = s.pos
      BY <3>1 DEF CurrentKey
    <3>2. CASE j # s.pos
      <4>1. j \in 1 .. s.pos - 1
        BY <1>2, <3>2, Sizes
      <4>2. QED
        BY <1>1, <4>1 DEF Seen
    <3>3. QED
      BY <3>1, <3>2
  <2>2. QED
    BY <1>4, <2>1 DEF Seen
<1> HIDE DEF u
<1> DEFINE i == s.pos + 1
<1>7. i \in 1 .. NumKeys + 1 /\ Seen(u, i - 1) \subseteq u.tried
  <2>1. i \in 1 .. NumKeys + 1
    BY <1>5
  <2>2. \A j : j \in 1 .. i - 1 <=> j \in 1 .. s.pos
    BY <1>2, <1>5
  <2> HIDE DEF i
  <2>3. Seen(u, i - 1) = Seen(u, s.pos)
    BY <2>2 DEF Seen
  <2>4. QED
    BY <1>6, <2>1, <2>3
<1> HIDE DEF i
<1>8. Resumed(Onward(u, i, failure))
  BY <1>4, <1>7, OnwardResumes
<1>9. QED
  BY <1>8 DEF u, i

(* A call that has moved on holds no slot: it waits for a key whose breaker   *)
(* is closed, for a backoff to end, or it has failed.                        *)
Settled(t) ==
  \/ Resumed(t)
  \/ Good(t) /\ t.at = "backoff"

LEMMA RetriedSettles ==
  ASSUME NEW s, Good(s), s.at = "backoff"
  PROVE  Resumed(Retried(s))
<1>1. CASE blocked[CurrentKey(s)]
  BY <1>1, NextKeyResumes DEF Retried, Failure
<1>2. CASE ~blocked[CurrentKey(s)]
  <2> DEFINE t == [s EXCEPT !.at = "queued", !.attempt = @ + 1]
  <2>1. s \in CallState /\ s.attempt + 1 \in 1 .. Attempts
    BY Sizes DEF Good, CallState
  <2>2. t \in CallState
    BY <2>1 DEF CallState
  <2>3. /\ t.at = "queued" /\ t.pos = s.pos /\ t.start = s.start /\ t.tried = s.tried
        /\ t.last = s.last
    BY <2>1 DEF CallState
  <2> HIDE DEF t
  <2>4. Seen(t, t.pos - 1) = Seen(s, s.pos - 1) /\ CurrentKey(t) = CurrentKey(s)
    BY <2>3 DEF Seen, CurrentKey
  <2>5. Resumed(t)
    BY <1>2, <2>2, <2>3, <2>4 DEF Resumed, Good
  <2>6. QED
    BY <1>2, <2>5 DEF Retried, t
<1>3. QED
  BY <1>1, <1>2

LEMMA AfterErrorSettles ==
  ASSUME NEW c \in Call, Good(call[c]), call[c].at # "idle", NEW failure \in Failure,
         AfterError(c, failure)
  PROVE  \E t : Settled(t) /\ Move(c, t)
<1> DEFINE s == call[c]
<1>1. s \in CallState
  BY DEF Good
<1>2. CASE MayRetry(s, failure)
  <2> DEFINE t == [s EXCEPT !.at = "backoff", !.request = 1]
  <2>1. 1 \in 1 .. Requests
    BY Sizes
  <2>2. t \in CallState
    BY <1>1, <2>1 DEF CallState
  <2>3. /\ t.at = "backoff" /\ t.pos = s.pos /\ t.start = s.start /\ t.tried = s.tried
        /\ t.last = s.last /\ t.attempt = s.attempt
    BY <1>1 DEF CallState
  <2>4. Move(c, t)
    BY <1>2 DEF AfterError
  <2> HIDE DEF t
  <2>5. Seen(t, t.pos - 1) = Seen(s, s.pos - 1)
    BY <2>3 DEF Seen
  <2>6. Good(t)
    BY <1>2, <2>2, <2>3, <2>5 DEF Good, MayRetry
  <2>7. QED
    BY <2>3, <2>4, <2>6 DEF Settled
<1>3. CASE ~MayRetry(s, failure) /\ failure = "unparsable"
  <2>1. Move(c, NewCall(failure, s.tried))
    BY <1>3 DEF AfterError
  <2>2. failure \in Answer \cup {"cancelled"} /\ s.tried \in SUBSET Key
    BY <1>1 DEF Answer, CallState
  <2> DEFINE tried == s.tried
  <2> HIDE DEF tried
  <2>3. tried \in SUBSET Key /\ Move(c, NewCall(failure, tried))
    BY <2>1, <2>2 DEF tried
  <2>4. /\ Good(NewCall(failure, tried)) /\ NewCall(failure, tried).at = "idle"
        /\ NewCall(failure, tried).last = failure
    BY <1>3, <2>2, <2>3, NewCallGood
  <2>5. QED
    BY <2>3, <2>4 DEF Settled, Resumed
<1>4. CASE ~MayRetry(s, failure) /\ failure # "unparsable"
  <2>1. Move(c, Onward([s EXCEPT !.tried = @ \cup {CurrentKey(s)}], s.pos + 1, failure))
    BY <1>4 DEF AfterError
  <2>2. failure \in Failure \ {"unparsable"}
    BY <1>4
  <2>3. Resumed(Onward([s EXCEPT !.tried = @ \cup {CurrentKey(s)}], s.pos + 1, failure))
    BY <2>2, NextKeyResumes
  <2>4. QED
    BY <2>1, <2>3 DEF Settled
<1>5. QED
  BY <1>2, <1>3, <1>4

(***************************************************************************)
(* Slots.                                                                  *)
(***************************************************************************)

Holds(s, k) == s.at = "requesting" /\ CurrentKey(s) = k

Holding(k) == {c \in Call : Holds(call[c], k)}

SlotsOK ==
  /\ slots \in [Key -> 0 .. Slots]
  /\ \A k \in Key : slots[k] + Cardinality(Holding(k)) = Slots

CallsOK == call \in [Call -> CallState] /\ \A c \in Call : Good(call[c])

LEMMA HoldingFinite ==
  ASSUME NEW k
  PROVE  IsFiniteSet(Holding(k)) /\ Cardinality(Holding(k)) \in Nat
BY CallAssumption, FS_Subset, FS_CardinalityType DEF Holding

LEMMA HoldingMove ==
  ASSUME CallsOK, NEW c \in Call, NEW t, call' = [call EXCEPT ![c] = t], NEW k
  PROVE  /\ ~Holds(t, k) => Holding(k)' = Holding(k) \ {c}
         /\ Holds(t, k) => Holding(k)' = Holding(k) \cup {c}
<1>1. call'[c] = t /\ \A h \in Call \ {c} : call'[h] = call[h]
  BY DEF CallsOK
<1>2. Holding(k)' = {h \in Call : Holds(call'[h], k)}
  BY DEF Holding, Holds, CurrentKey
<1>3. QED
  BY <1>1, <1>2 DEF Holding

(* A call that neither had nor gets a slot.                                  *)
LEMMA SlotsUntouched ==
  ASSUME CallsOK, SlotsOK, NEW c \in Call, NEW t, call' = [call EXCEPT ![c] = t],
         call[c].at # "requesting", t.at # "requesting", slots' = slots
  PROVE  SlotsOK'
<1>1. \A k \in Key : Holding(k)' = Holding(k)
  BY HoldingMove DEF Holds, Holding
<1>2. QED
  BY <1>1 DEF SlotsOK

LEMMA SlotTaken ==
  ASSUME CallsOK, SlotsOK, NEW c \in Call, NEW t, call' = [call EXCEPT ![c] = t],
         NEW kk \in Key, call[c].at # "requesting", Holds(t, kk), slots[kk] > 0,
         slots' = [slots EXCEPT ![kk] = @ - 1]
  PROVE  SlotsOK'
<1>1. slots[kk] - 1 \in 0 .. Slots
  BY Sizes DEF SlotsOK
<1>2. slots' \in [Key -> 0 .. Slots]
  BY <1>1 DEF SlotsOK
<1>3. ASSUME NEW k \in Key
      PROVE  slots'[k] + Cardinality(Holding(k)') = Slots
  <2>1. CASE k = kk
    <3>0. Holding(k)' = Holding(k) \cup {c}
      BY <2>1, HoldingMove
    <3>1. Holding(k)' = Holding(k) \cup {c} /\ c \notin Holding(k)
      BY <3>0 DEF Holds, Holding
    <3>2. Cardinality(Holding(k) \cup {c}) = Cardinality(Holding(k)) + 1
      BY <3>1, HoldingFinite, FS_AddElement
    <3>3. slots'[k] = slots[k] - 1 /\ slots[k] \in Nat
      BY <2>1, Sizes DEF SlotsOK
    <3>4. QED
      BY <3>1, <3>2, <3>3, HoldingFinite, Sizes DEF SlotsOK
  <2>2. CASE k # kk
    <3>1. Holding(k)' = Holding(k) /\ slots'[k] = slots[k]
      BY <2>2, HoldingMove DEF Holds, Holding, SlotsOK
    <3>2. QED
      BY <3>1 DEF SlotsOK
  <2>3. QED
    BY <2>1, <2>2
<1>4. QED
  BY <1>2, <1>3 DEF SlotsOK

LEMMA SlotFreed ==
  ASSUME CallsOK, SlotsOK, NEW c \in Call, NEW t, call' = [call EXCEPT ![c] = t],
         NEW kk \in Key, Holds(call[c], kk), t.at # "requesting",
         slots' = [slots EXCEPT ![kk] = @ + 1]
  PROVE  SlotsOK'
<1>0. c \in Holding(kk)
  BY DEF Holding
<1>1. Cardinality(Holding(kk) \ {c}) = Cardinality(Holding(kk)) - 1
  BY <1>0, HoldingFinite, FS_RemoveElement
<1>2. Cardinality(Holding(kk) \ {c}) \in Nat
  BY HoldingFinite, FS_Subset, FS_CardinalityType
<1>3. slots[kk] + 1 \in 0 .. Slots
  BY <1>1, <1>2, HoldingFinite, Sizes DEF SlotsOK
<1>4. slots' \in [Key -> 0 .. Slots]
  BY <1>3 DEF SlotsOK
<1>5. ASSUME NEW k \in Key
      PROVE  slots'[k] + Cardinality(Holding(k)') = Slots
  <2>1. CASE k = kk
    <3>1. Holding(k)' = Holding(k) \ {c}
      BY HoldingMove DEF Holds
    <3>2. slots'[k] = slots[k] + 1 /\ slots[k] \in Nat
      BY <2>1, Sizes DEF SlotsOK
    <3>3. /\ Cardinality(Holding(k)') = Cardinality(Holding(k)) - 1
          /\ slots[k] + Cardinality(Holding(k)) = Slots /\ Cardinality(Holding(k)) \in Nat
      BY <1>1, <2>1, <3>1, HoldingFinite DEF SlotsOK
    <3>4. QED
      BY <3>2, <3>3, Sizes
  <2>2. CASE k # kk
    <3>1. Holding(k)' = Holding(k) /\ slots'[k] = slots[k]
      BY <2>2, HoldingMove DEF Holds, Holding, SlotsOK
    <3>2. QED
      BY <3>1 DEF SlotsOK
  <2>3. QED
    BY <2>1, <2>2
<1>6. QED
  BY <1>4, <1>5 DEF SlotsOK
(***************************************************************************)
(* The registry, and the requests sent to a key after its breaker tripped.   *)
(***************************************************************************)

HealthOK ==
  /\ health \in Health
  /\ health.cooldown # "none" => health.fails > 0 /\ health.status # "none"

LEMMA FailureHealth ==
  ASSUME HealthOK, NEW failure \in Failure, health' = AfterFailure(failure)
  PROVE  HealthOK'
<1> DEFINE fails == IF health.fails < FailLimit THEN health.fails + 1 ELSE FailLimit
<1>1. health.fails \in 0 .. FailLimit /\ health.cooldown \in Cooldown
  BY DEF HealthOK, Health
<1>2. fails \in 0 .. FailLimit /\ fails > 0
  BY <1>1, Sizes
<1>3. /\ failure = "quota" =>
            health' = [fails |-> fails, cooldown |-> "quota", status |-> "quota_exhausted"]
      /\ failure = "auth" =>
            health' = [fails |-> fails, cooldown |-> "auth", status |-> "auth_error"]
      /\ failure = "rate" =>
            health' = [fails |-> fails, cooldown |-> "rate", status |-> "rate_limited"]
      /\ failure \in {"error", "unparsable"} =>
            health' = [fails |-> fails, status |-> "error",
                       cooldown |-> IF fails >= FailLimit THEN "default" ELSE health.cooldown]
  BY DEF AfterFailure
<1> HIDE DEF fails
<1>4. QED
  BY <1>1, <1>2, <1>3 DEF HealthOK, Health, Cooldown, Failure

LEMMA SuccessHealth == ASSUME health' = AfterSuccess PROVE HealthOK'
BY Sizes DEF AfterSuccess, Healthy, HealthOK, Health, Cooldown

(* What n requests of a call at s say, when b is the breaker of key k.        *)
LateFine(s, k, n, b) ==
  /\ ~b => n = 0
  /\ n <= Requests
  /\ CurrentKey(s) = k /\ s.at = "queued" => n <= s.request - 1
  /\ CurrentKey(s) = k /\ s.at \in {"requesting", "parsing"} => n <= s.request

LateOK == \A k \in Key, c \in Call : LateFine(call[c], k, late[k][c], blocked[k])

(* A search waits only for keys whose breaker is closed, so it counts anew.   *)
LEMMA SettledLate ==
  ASSUME NEW s, NEW t, Settled(t), NEW k, NEW n \in Nat, NEW b,
         LateFine(s, k, n, blocked[k]), blocked[k] => b
  PROVE  LateFine(t, k, n, b)
<1>1. Good(t) /\ t.request \in 1 .. Requests
  BY DEF Settled, Resumed, Good, CallState
<1>2. (~b => n = 0) /\ n <= Requests
  BY DEF LateFine
<1>3. t.at \notin {"requesting", "parsing"}
  BY DEF Settled, Resumed
<1>4. ASSUME CurrentKey(t) = k, t.at = "queued"
      PROVE  n <= t.request - 1
  <2>1. n = 0
    BY <1>4 DEF Settled, Resumed, LateFine
  <2>2. QED
    BY <1>1, <2>1, Sizes
<1>5. QED
  BY <1>2, <1>3, <1>4 DEF LateFine

(***************************************************************************)
(* The inductive invariant.                                                *)
(***************************************************************************)

VariablesOK ==
  /\ running \in BOOLEAN
  /\ cursor \in Key
  /\ blocked \in [Key -> BOOLEAN]
  /\ late \in [Key -> [Call -> Nat]]

IInv == VariablesOK /\ CallsOK /\ SlotsOK /\ HealthOK /\ LateOK

LEMMA CallsMove ==
  ASSUME CallsOK, NEW c \in Call, NEW t, Good(t), call' = [call EXCEPT ![c] = t]
  PROVE  CallsOK'
<1>1. t \in CallState
  BY DEF Good
<1>2. call' \in [Call -> CallState]
  BY <1>1 DEF CallsOK
<1>3. \A h \in Call : Good(call'[h])
  BY DEF CallsOK
<1>4. QED
  BY <1>2, <1>3 DEF CallsOK, Good, Seen

(* A call moves on from s to t, which its requests so far allow.              *)
LEMMA LateMove ==
  ASSUME CallsOK, LateOK, NEW c \in Call, NEW t, call' = [call EXCEPT ![c] = t],
         late' = late, \A k \in Key : blocked[k] => blocked'[k],
         \A k \in Key : LateFine(t, k, late[k][c], blocked'[k])
  PROVE  LateOK'
<1>1. ASSUME NEW k \in Key, NEW h \in Call
      PROVE  LateFine(call'[h], k, late'[k][h], blocked'[k])
  <2>1. CASE h = c
    BY <2>1 DEF CallsOK
  <2>2. CASE h # c
    <3>1. call'[h] = call[h] /\ LateFine(call[h], k, late[k][h], blocked[k])
      BY <2>2 DEF CallsOK, LateOK
    <3>2. QED
      BY <3>1 DEF LateFine
  <2>3. QED
    BY <2>1, <2>2
<1>2. QED
  BY <1>1 DEF LateOK, LateFine, CurrentKey

LEMMA MoveHealth ==
  ASSUME HealthOK, NEW c \in Call, NEW t, Settled(t), Move(c, t)
  PROVE  HealthOK'
<1>1. CASE t.at = "idle"
  <2>1. t.last \in Failure /\ health' = AfterFailure(t.last)
    BY <1>1 DEF Settled, Resumed, Move
  <2>2. QED
    BY <2>1, FailureHealth
<1>2. CASE t.at # "idle"
  <2>1. health' = health
    BY <1>2 DEF Move
  <2>2. QED
    BY <2>1 DEF HealthOK
<1>3. QED
  BY <1>1, <1>2

(* A call that holds no slot moves on.                                       *)
LEMMA SettledStep ==
  ASSUME IInv, NEW c \in Call, NEW t, Settled(t), Move(c, t), call[c].at # "requesting",
         running' = running, cursor' \in Key, UNCHANGED <<slots, blocked, late>>
  PROVE  IInv'
<1>1. /\ CallsOK /\ SlotsOK /\ HealthOK /\ LateOK /\ VariablesOK
      /\ call' = [call EXCEPT ![c] = t] /\ slots' = slots /\ blocked' = blocked
      /\ late' = late
  BY DEF IInv, Move
<1>2. Good(t) /\ t.at # "requesting"
  BY DEF Settled, Resumed
<1>3. SlotsOK'
  BY <1>1, <1>2, SlotsUntouched
<1>4. CallsOK'
  BY <1>1, <1>2, CallsMove
<1>5. \A k \in Key : LateFine(t, k, late[k][c], blocked'[k])
  <2>1. ASSUME NEW k \in Key
        PROVE  LateFine(t, k, late[k][c], blocked'[k])
    <3>1. late[k][c] \in Nat /\ LateFine(call[c], k, late[k][c], blocked[k])
      BY <1>1 DEF VariablesOK, LateOK
    <3>2. QED
      BY <1>1, <3>1, SettledLate
  <2>2. QED
    BY <2>1
<1>6. LateOK'
  BY <1>1, <1>5, LateMove
<1>7. HealthOK'
  BY <1>1, MoveHealth
<1>8. VariablesOK'
  BY <1>1 DEF VariablesOK
<1>9. QED
  BY <1>3, <1>4, <1>6, <1>7, <1>8 DEF IInv

(* A call that had a slot moves on, and may have tripped the breaker.         *)
LEMMA RefuseStep ==
  ASSUME IInv, NEW c \in Call, NEW failure \in Failure \ {"unparsable"}, Refuse(c, failure)
  PROVE  IInv'
<1> DEFINE kk == CurrentKey(call[c])
<1>1. /\ CallsOK /\ SlotsOK /\ HealthOK /\ LateOK /\ VariablesOK /\ late' = late
      /\ running' = running /\ cursor' = cursor /\ AfterError(c, failure)
      /\ call[c].at = "requesting" /\ slots' = [slots EXCEPT ![kk] = @ + 1]
      /\ blocked' = IF failure = "quota" THEN [blocked EXCEPT ![kk] = TRUE] ELSE blocked
  BY DEF IInv, Refuse, Freed
<1>2. Good(call[c]) /\ kk \in Key
  BY <1>1, CurrentKeyType DEF CallsOK
<1>3. PICK t : Settled(t) /\ Move(c, t)
  BY <1>1, <1>2, AfterErrorSettles
<1>4. Good(t) /\ t.at # "requesting" /\ call' = [call EXCEPT ![c] = t]
  BY <1>3 DEF Settled, Resumed, Move
<1>5. blocked' \in [Key -> BOOLEAN] /\ \A k \in Key : blocked[k] => blocked'[k]
  BY <1>1, <1>2 DEF VariablesOK
<1>6. Holds(call[c], kk)
  BY <1>1 DEF Holds
<1> HIDE DEF kk
<1>7. SlotsOK'
  BY <1>1, <1>2, <1>4, <1>6, SlotFreed
<1>8. CallsOK'
  BY <1>1, <1>4, CallsMove
<1>9. \A k \in Key : LateFine(t, k, late[k][c], blocked'[k])
  <2>1. ASSUME NEW k \in Key
        PROVE  LateFine(t, k, late[k][c], blocked'[k])
    <3>1. /\ late[k][c] \in Nat /\ LateFine(call[c], k, late[k][c], blocked[k])
          /\ blocked[k] => blocked'[k]
      BY <1>1, <1>5 DEF VariablesOK, LateOK
    <3>2. QED
      BY <1>3, <3>1, SettledLate
  <2>2. QED
    BY <2>1
<1>10. LateOK'
  BY <1>1, <1>4, <1>5, <1>9, LateMove
<1>11. HealthOK'
  BY <1>1, <1>3, MoveHealth
<1>12. VariablesOK'
  BY <1>1, <1>5 DEF VariablesOK
<1>13. QED
  BY <1>7, <1>8, <1>10, <1>11, <1>12 DEF IInv

LEMMA SendStep ==
  ASSUME IInv, NEW c \in Call, SendRequest(c)
  PROVE  IInv'
<1> DEFINE s == call[c]
           kk == CurrentKey(s)
           t == [s EXCEPT !.at = "requesting"]
<1>1. /\ CallsOK /\ SlotsOK /\ HealthOK /\ LateOK /\ VariablesOK
      /\ UNCHANGED <<running, cursor, blocked, health>>
      /\ s.at = "queued" /\ slots[kk] > 0 /\ slots' = [slots EXCEPT ![kk] = @ - 1]
      /\ late' = IF blocked[kk] THEN [late EXCEPT ![kk][c] = @ + 1] ELSE late
  BY DEF IInv, SendRequest
<1>2. Good(s) /\ s \in CallState /\ kk \in Key
  BY <1>1, CurrentKeyType DEF CallsOK
<1>3. call' = [call EXCEPT ![c] = t]
  BY <1>1 DEF SendRequest, CallsOK
<1>4. /\ t \in CallState /\ t.at = "requesting" /\ t.pos = s.pos /\ t.start = s.start
      /\ t.tried = s.tried /\ t.last = s.last /\ t.request = s.request
  BY <1>2 DEF CallState
<1> HIDE DEF t
<1>5. Good(t) /\ CurrentKey(t) = kk
  BY <1>1, <1>2, <1>4 DEF Good, Seen, CurrentKey
<1>6. Holds(t, kk) /\ s.at # "requesting"
  BY <1>1, <1>4, <1>5 DEF Holds
<1>7. CallsOK'
  BY <1>1, <1>3, <1>5, CallsMove
<1>8. SlotsOK'
  <2> HIDE DEF kk
  <2>1. QED
    BY <1>1, <1>2, <1>3, <1>6, SlotTaken
<1>9. s.request \in Nat /\ s.request <= Requests /\ s.request >= 1
  BY <1>2, Sizes DEF CallState
<1>10. /\ late' \in [Key -> [Call -> Nat]]
       /\ \A k \in Key, h \in Call : h # c \/ k # kk => late'[k][h] = late[k][h]
       /\ late'[kk][c] = IF blocked[kk] THEN late[kk][c] + 1 ELSE late[kk][c]
  BY <1>1, <1>2 DEF VariablesOK
<1>11. ASSUME NEW k \in Key, NEW h \in Call
       PROVE  LateFine(call'[h], k, late'[k][h], blocked'[k])
  <2>1. LateFine(call[h], k, late[k][h], blocked[k]) /\ late[k][h] \in Nat
    BY <1>1 DEF LateOK, VariablesOK
  <2>2. CASE h # c
    <3>1. call'[h] = call[h] /\ late'[k][h] = late[k][h] /\ blocked'[k] = blocked[k]
      BY <1>1, <1>3, <1>10, <2>2 DEF CallsOK
    <3>2. QED
      BY <2>1, <3>1
  <2>3. CASE h = c /\ k # kk
    <3>1. call'[h] = t /\ late'[k][h] = late[k][h] /\ blocked'[k] = blocked[k]
      BY <1>1, <1>3, <1>10, <2>3 DEF CallsOK
    <3>2. QED
      BY <1>5, <2>1, <2>3, <3>1 DEF LateFine
  <2>4. CASE h = c /\ k = kk
    <3>1. call'[h] = t /\ blocked'[k] = blocked[k]
      BY <1>1, <1>3, <2>4 DEF CallsOK
    <3>2. late[k][h] <= s.request - 1 /\ (~blocked[k] => late[k][h] = 0)
      BY <1>1, <2>1, <2>4 DEF LateFine
    <3>3. late'[k][h] <= s.request /\ (~blocked[k] => late'[k][h] = 0)
      BY <1>9, <1>10, <2>1, <2>4, <3>2
    <3>4. late'[k][h] \in Nat
      BY <1>10
    <3>5. QED
      BY <1>4, <1>9, <3>1, <3>3, <3>4, Sizes DEF LateFine
  <2>5. QED
    BY <2>2, <2>3, <2>4
<1>12. LateOK'
  BY <1>11 DEF LateOK, LateFine, CurrentKey
<1>13. HealthOK' /\ VariablesOK'
  BY <1>1, <1>10 DEF HealthOK, VariablesOK
<1>14. QED
  BY <1>7, <1>8, <1>12, <1>13 DEF IInv

LEMMA ReceiveStep ==
  ASSUME IInv, NEW c \in Call, Receive(c)
  PROVE  IInv'
<1> DEFINE s == call[c]
           kk == CurrentKey(s)
           t == [s EXCEPT !.at = "parsing"]
<1>1. /\ CallsOK /\ SlotsOK /\ HealthOK /\ LateOK /\ VariablesOK
      /\ UNCHANGED <<running, cursor, blocked, health, late>>
      /\ s.at = "requesting" /\ slots' = [slots EXCEPT ![kk] = @ + 1]
  BY DEF IInv, Receive, Freed
<1>2. Good(s) /\ s \in CallState /\ kk \in Key
  BY <1>1, CurrentKeyType DEF CallsOK
<1>3. call' = [call EXCEPT ![c] = t]
  BY <1>1 DEF Receive, CallsOK
<1>4. /\ t \in CallState /\ t.at = "parsing" /\ t.pos = s.pos /\ t.start = s.start
      /\ t.tried = s.tried /\ t.last = s.last /\ t.request = s.request
  BY <1>2 DEF CallState
<1> HIDE DEF t
<1>5. Good(t) /\ CurrentKey(t) = kk
  BY <1>1, <1>2, <1>4 DEF Good, Seen, CurrentKey
<1>6. Holds(s, kk) /\ t.at # "requesting"
  BY <1>1, <1>4 DEF Holds
<1>7. CallsOK'
  BY <1>1, <1>3, <1>5, CallsMove
<1>8. SlotsOK'
  <2> HIDE DEF kk
  <2>1. QED
    BY <1>1, <1>2, <1>3, <1>6, SlotFreed
<1>9. \A k \in Key : LateFine(t, k, late[k][c], blocked'[k])
  BY <1>1, <1>4, <1>5 DEF LateOK, LateFine
<1>10. LateOK'
  BY <1>1, <1>3, <1>9, LateMove
<1>11. HealthOK' /\ VariablesOK'
  BY <1>1 DEF HealthOK, VariablesOK
<1>12. QED
  BY <1>7, <1>8, <1>10, <1>11 DEF IInv

LEMMA DeepPassStep ==
  ASSUME IInv, NEW c \in Call, DeepPass(c)
  PROVE  IInv'
<1> DEFINE s == call[c]
           t == [s EXCEPT !.at = "queued", !.request = @ + 1]
<1>1. /\ CallsOK /\ SlotsOK /\ HealthOK /\ LateOK /\ VariablesOK
      /\ UNCHANGED <<running, cursor, slots, blocked, health, late>>
      /\ s.at = "parsing" /\ s.request < Requests
  BY DEF IInv, DeepPass
<1>2. Good(s) /\ s \in CallState
  BY <1>1 DEF CallsOK
<1>3. call' = [call EXCEPT ![c] = t]
  BY <1>1 DEF DeepPass, CallsOK
<1>4. s.request \in Nat /\ s.request + 1 \in 1 .. Requests
  BY <1>1, <1>2, Sizes DEF CallState
<1>5. /\ t \in CallState /\ t.at = "queued" /\ t.pos = s.pos /\ t.start = s.start
      /\ t.tried = s.tried /\ t.last = s.last /\ t.request = s.request + 1
  BY <1>2, <1>4 DEF CallState
<1> HIDE DEF t
<1>6. Good(t) /\ CurrentKey(t) = CurrentKey(s) /\ s.at # "requesting" /\ t.at # "requesting"
  BY <1>1, <1>2, <1>5 DEF Good, Seen, CurrentKey
<1>7. CallsOK'
  BY <1>1, <1>3, <1>6, CallsMove
<1>8. SlotsOK'
  BY <1>1, <1>3, <1>6, SlotsUntouched
<1>9. \A k \in Key : LateFine(t, k, late[k][c], blocked'[k])
  <2>1. ASSUME NEW k \in Key
        PROVE  LateFine(t, k, late[k][c], blocked'[k])
    <3>1. LateFine(s, k, late[k][c], blocked[k]) /\ late[k][c] \in Nat
      BY <1>1 DEF LateOK, VariablesOK
    <3>2. CurrentKey(s) = k => late[k][c] <= s.request
      BY <1>1, <3>1 DEF LateFine
    <3>3. s.request = t.request - 1
      BY <1>4, <1>5
    <3>4. QED
      BY <1>1, <1>5, <1>6, <3>1, <3>2, <3>3 DEF LateFine
  <2>2. QED
    BY <2>1
<1>10. LateOK'
  BY <1>1, <1>3, <1>9, LateMove
<1>11. HealthOK' /\ VariablesOK'
  BY <1>1 DEF HealthOK, VariablesOK
<1>12. QED
  BY <1>7, <1>8, <1>10, <1>11 DEF IInv

(* A call that has ended counts no request more.                             *)
LEMMA EndedLate ==
  ASSUME LateOK, NEW c \in Call, NEW t, t.at = "idle"
  PROVE  \A k \in Key : LateFine(t, k, late[k][c], blocked[k])
BY DEF LateOK, LateFine

LEMMA SucceedStep ==
  ASSUME IInv, NEW c \in Call, NEW answer \in {"found", "none"}, Succeed(c, answer)
  PROVE  IInv'
<1> DEFINE t == NewCall(answer, call[c].tried)
<1>1. /\ CallsOK /\ SlotsOK /\ HealthOK /\ LateOK /\ VariablesOK
      /\ UNCHANGED <<running, cursor, slots, blocked, late>>
      /\ call[c].at = "parsing" /\ call' = [call EXCEPT ![c] = t] /\ health' = AfterSuccess
  BY DEF IInv, Succeed
<1>2. call[c].tried \in SUBSET Key
  BY <1>1 DEF CallsOK, CallState
<1>3. answer \in Answer \cup {"cancelled"} /\ answer \notin Failure
  BY DEF Answer, Failure
<1>4. Good(t) /\ t.at = "idle"
  <2> DEFINE tried == call[c].tried
  <2> HIDE DEF tried
  <2>1. Good(NewCall(answer, tried)) /\ NewCall(answer, tried).at = "idle"
    BY <1>2, <1>3, NewCallGood DEF tried
  <2>2. QED
    BY <2>1 DEF tried
<1> HIDE DEF t
<1>5. CallsOK'
  BY <1>1, <1>4, CallsMove
<1>6. SlotsOK'
  BY <1>1, <1>4, SlotsUntouched
<1>7. LateOK'
  BY <1>1, <1>4, EndedLate, LateMove
<1>8. HealthOK' /\ VariablesOK'
  BY <1>1, SuccessHealth DEF VariablesOK
<1>9. QED
  BY <1>5, <1>6, <1>7, <1>8 DEF IInv

LEMMA CancelStep ==
  ASSUME IInv, NEW c \in Call, Cancel(c)
  PROVE  IInv'
<1> DEFINE t == NewCall("cancelled", {})
           kk == CurrentKey(call[c])
<1>1. /\ CallsOK /\ SlotsOK /\ HealthOK /\ LateOK /\ VariablesOK
      /\ UNCHANGED <<running, cursor, blocked, health, late>>
      /\ call' = [call EXCEPT ![c] = t]
      /\ slots' = IF call[c].at = "requesting" THEN [slots EXCEPT ![kk] = @ + 1] ELSE slots
  BY DEF IInv, Cancel
<1>2. "cancelled" \in Answer \cup {"cancelled"} /\ "cancelled" \notin Failure
  BY DEF Failure
<1>3. Good(t) /\ t.at = "idle"
  BY <1>2, NewCallGood
<1>4. kk \in Key
  BY <1>1, CurrentKeyType DEF CallsOK
<1>5. call[c].at = "requesting" => Holds(call[c], kk)
  BY DEF Holds
<1> HIDE DEF t, kk
<1>6. CallsOK'
  BY <1>1, <1>3, CallsMove
<1>7. SlotsOK'
  BY <1>1, <1>3, <1>4, <1>5, SlotsUntouched, SlotFreed
<1>8. LateOK'
  BY <1>1, <1>3, EndedLate, LateMove
<1>9. HealthOK' /\ VariablesOK'
  BY <1>1 DEF HealthOK, VariablesOK
<1>10. QED
  BY <1>6, <1>7, <1>8, <1>9 DEF IInv

(* The breaker of a key closes: its requests are counted from none again.     *)
LEMMA BreakerStep ==
  ASSUME IInv, NEW kk \in Key, BreakerExpires(kk)
  PROVE  IInv'
<1>1. /\ CallsOK /\ SlotsOK /\ HealthOK /\ LateOK /\ VariablesOK
      /\ UNCHANGED <<running, cursor, call, slots, health>>
      /\ blocked' = [blocked EXCEPT ![kk] = FALSE]
      /\ late' = [late EXCEPT ![kk] = [c \in Call |-> 0]]
  BY DEF IInv, BreakerExpires
<1>2. VariablesOK'
  BY <1>1 DEF VariablesOK
<1>3. ASSUME NEW k \in Key, NEW c \in Call
      PROVE  LateFine(call'[c], k, late'[k][c], blocked'[k])
  <2>1. call[c].request \in 1 .. Requests
    BY <1>1 DEF CallsOK, CallState
  <2>2. CASE k = kk
    <3>1. late'[k][c] = 0
      BY <1>1, <2>2 DEF VariablesOK
    <3>2. QED
      BY <1>1, <2>1, <3>1, Sizes DEF LateFine
  <2>3. CASE k # kk
    <3>1. late'[k][c] = late[k][c] /\ blocked'[k] = blocked[k]
      BY <1>1, <2>3 DEF VariablesOK
    <3>2. QED
      BY <1>1, <3>1 DEF LateOK
  <2>4. QED
    BY <2>2, <2>3
<1>4. LateOK'
  BY <1>3 DEF LateOK, LateFine, CurrentKey
<1>5. CallsOK' /\ SlotsOK' /\ HealthOK'
  BY <1>1 DEF CallsOK, Good, Seen, SlotsOK, Holding, Holds, CurrentKey, HealthOK
<1>6. QED
  BY <1>2, <1>4, <1>5 DEF IInv

LEMMA InitInv == Init => IInv
<1> SUFFICES ASSUME Init PROVE IInv
  OBVIOUS
<1>0. 0 \in Key
  BY Sizes DEF Key
<1>1. Good(NewCall("none", {})) /\ NewCall("none", {}).at = "idle"
  BY NewCallGood DEF Answer, Failure
<1> DEFINE t == NewCall("none", {})
<1>2. call = [c \in Call |-> t] /\ slots = [k \in Key |-> Slots]
      /\ blocked = [k \in Key |-> FALSE] /\ late = [k \in Key |-> [c \in Call |-> 0]]
      /\ running = FALSE /\ cursor = 0 /\ health = Healthy
  BY DEF Init
<1> HIDE DEF t
<1>3. CallsOK
  BY <1>1, <1>2 DEF CallsOK, Good, t
<1>4. SlotsOK
  <2>1. \A k \in Key : Holding(k) = {}
    BY <1>1, <1>2 DEF Holding, Holds, t
  <2>2. QED
    BY <1>2, <2>1, FS_EmptySet, Sizes DEF SlotsOK
<1>5. LateOK
  BY <1>1, <1>2, Sizes DEF LateOK, LateFine, t
<1>6. VariablesOK
  BY <1>0, <1>2 DEF VariablesOK
<1>7. HealthOK
  BY <1>2, Sizes DEF Healthy, HealthOK, Health, Cooldown
<1>8. QED
  BY <1>3, <1>4, <1>5, <1>6, <1>7 DEF IInv

LEMMA CursorType == ASSUME cursor \in Key, NEW round PROVE NextCursor(round) \in Key
BY Sizes DEF NextCursor, Key

LEMMA CallInv ==
  ASSUME IInv, NEW c \in Call, BeginCall(c) \/ CallStep(c) \/ Cancel(c)
  PROVE  IInv'
<1>1. CallsOK /\ cursor \in Key /\ Good(call[c])
  BY DEF IInv, CallsOK, VariablesOK
<1>2. CASE BeginCall(c)
  <2>1. BeginSearch(c, 1) /\ 1 \in 1 .. Rounds /\ call[c].at # "requesting"
        /\ running' = running /\ UNCHANGED <<slots, blocked, late>>
    BY <1>2, Sizes DEF BeginCall
  <2>2. PICK t : Resumed(t) /\ Move(c, t)
    BY <1>1, <2>1, BeginSearchResumes
  <2>3. cursor' \in Key
    BY <1>1, <2>1, CursorType DEF BeginSearch
  <2>4. QED
    BY <2>1, <2>2, <2>3, SettledStep DEF Settled
<1>3. CASE SendRequest(c)
  BY <1>3, SendStep
<1>4. CASE \E failure \in Failure \ {"unparsable"} : Refuse(c, failure)
  BY <1>4, RefuseStep
<1>5. CASE Receive(c)
  BY <1>5, ReceiveStep
<1>6. CASE \E failure \in {"error", "unparsable"} : FailToRead(c, failure)
  <2>1. PICK failure \in {"error", "unparsable"} : FailToRead(c, failure)
    BY <1>6
  <2>2. AfterError(c, failure) /\ failure \in Failure /\ call[c].at = "parsing"
        /\ UNCHANGED <<running, cursor, slots, blocked, late>>
    BY <2>1 DEF FailToRead, Failure
  <2>3. PICK t : Settled(t) /\ Move(c, t)
    BY <1>1, <2>2, AfterErrorSettles
  <2>4. QED
    BY <1>1, <2>2, <2>3, SettledStep
<1>7. CASE Retry(c)
  <2>1. call[c].at = "backoff" /\ Move(c, Retried(call[c]))
        /\ UNCHANGED <<running, cursor, slots, blocked, late>>
    BY <1>7 DEF Retry
  <2>2. Resumed(Retried(call[c]))
    BY <1>1, <2>1, RetriedSettles
  <2>3. QED
    BY <1>1, <2>1, <2>2, SettledStep DEF Settled
<1>8. CASE DeepPass(c)
  BY <1>8, DeepPassStep
<1>9. CASE \E answer \in {"found", "none"} : Succeed(c, answer)
  BY <1>9, SucceedStep
<1>10. CASE FallBack(c)
  <2> DEFINE round == call[c].round + 1
  <2>1. BeginSearch(c, round) /\ call[c].at = "parsing" /\ call[c].round < Rounds
        /\ running' = running /\ UNCHANGED <<slots, blocked, late>>
    BY <1>10 DEF FallBack
  <2>2. round \in 1 .. Rounds
    <3>1. call[c].round \in 1 .. Rounds
      BY <1>1 DEF CallsOK, CallState
    <3>2. QED
      BY <2>1, <3>1, Sizes
  <2> HIDE DEF round
  <2>3. PICK t : Resumed(t) /\ Move(c, t)
    BY <1>1, <2>1, <2>2, BeginSearchResumes
  <2>4. cursor' \in Key
    BY <1>1, <2>1, CursorType DEF BeginSearch
  <2>5. QED
    BY <2>1, <2>3, <2>4, SettledStep DEF Settled
<1>11. CASE Cancel(c)
  BY <1>11, CancelStep
<1>12. QED
  BY <1>2, <1>3, <1>4, <1>5, <1>6, <1>7, <1>8, <1>9, <1>10, <1>11 DEF CallStep

LEMMA NextInv == IInv /\ [Next]_vars => IInv'
<1> SUFFICES ASSUME IInv, [Next]_vars PROVE IInv'
  OBVIOUS
<1>0. ASSUME UNCHANGED <<call, slots, blocked, late>>
      PROVE  CallsOK' /\ SlotsOK' /\ LateOK'
  <2>1. CallsOK /\ SlotsOK /\ LateOK
    BY DEF IInv
  <2>2. CallsOK'
    BY <1>0, <2>1 DEF CallsOK, Good, Seen
  <2>3. SlotsOK'
    BY <1>0, <2>1 DEF SlotsOK, Holding, Holds, CurrentKey
  <2>4. LateOK'
    BY <1>0, <2>1 DEF LateOK, LateFine, CurrentKey
  <2>5. QED
    BY <2>2, <2>3, <2>4
<1>1. CASE BeginRun \/ EndRun \/ UNCHANGED vars
  <2>1. /\ UNCHANGED <<cursor, call, slots, blocked, health, late>>
        /\ running' \in BOOLEAN
    BY <1>1 DEF BeginRun, EndRun, vars, IInv, VariablesOK
  <2>2. VariablesOK' /\ HealthOK'
    BY <2>1 DEF IInv, VariablesOK, HealthOK
  <2>3. QED
    BY <1>0, <2>1, <2>2 DEF IInv
<1>2. CASE CooldownExpires
  <2>1. HealthOK'
    BY <1>2 DEF CooldownExpires, IInv, HealthOK, Health, Cooldown
  <2>2. VariablesOK'
    BY <1>2 DEF CooldownExpires, IInv, VariablesOK
  <2>3. QED
    BY <1>0, <1>2, <2>1, <2>2 DEF CooldownExpires, IInv
<1>3. CASE \E c \in Call : BeginCall(c) \/ CallStep(c) \/ Cancel(c)
  BY <1>3, CallInv
<1>4. CASE \E k \in Key : BreakerExpires(k)
  BY <1>4, BreakerStep
<1>5. QED
  BY <1>1, <1>2, <1>3, <1>4 DEF Next

LEMMA InvCorrect == Spec => []IInv
BY InitInv, NextInv, PTL DEF Spec

(***************************************************************************)
(* The theorems.                                                           *)
(***************************************************************************)

(* The type invariant of the pool, with what a cooldown of the provider says   *)
(* of the failures counted for it (ScrapingBeeProvider, ProviderRegistry).    *)
THEOREM TypeCorrect == Spec => []TypeOK
<1>1. IInv => TypeOK
  BY DEF IInv, VariablesOK, CallsOK, SlotsOK, HealthOK, TypeOK
<1>2. QED
  BY <1>1, InvCorrect, PTL

(* However its requests end, in an answer, an error, a timeout or a           *)
(* cancellation, the semaphore of a key gets every slot back once.            *)
THEOREM SlotsConservedHolds == Spec => []SlotsConserved
<1>1. IInv => SlotsConserved
  BY DEF IInv, SlotsOK, Holding, Holds, SlotsConserved
<1>2. QED
  BY <1>1, InvCorrect, PTL

(* _search_with_failover raises only when each of the keys, however many, has *)
(* refused the search, its breaker open counting as a refusal.               *)
THEOREM EveryKeyTriedHolds == Spec => []EveryKeyTried
<1>1. IInv => EveryKeyTried
  <2> SUFFICES ASSUME IInv, NEW c \in Call, call[c].last \in Failure \ {"unparsable"}
               PROVE  call[c].tried = Key
    BY DEF EveryKeyTried
  <2>1. Good(call[c])
    BY DEF IInv, CallsOK
  <2>2. QED
    BY <2>1 DEF Good, Failure
<1>2. QED
  BY <1>1, InvCorrect, PTL

(* The breaker of a key is read before a search and before a retry: a call     *)
(* sends at most the requests of one search after it has tripped.            *)
THEOREM OvershootBoundedHolds == Spec => []OvershootBounded
<1>1. IInv => OvershootBounded
  BY Sizes DEF IInv, VariablesOK, LateOK, LateFine, OvershootBounded
<1>2. QED
  BY <1>1, InvCorrect, PTL
(***************************************************************************)
(* Termination, as far as it needs no fairness: the steps a call has left are  *)
(* a natural number that each of its steps decreases.                        *)
(***************************************************************************)

(* What is left of one attempt at a key, and bounds for an attempt, a key and  *)
(* a search.                                                                *)
RequestSteps(s) ==
  LET before == [idle |-> 0, backoff |-> 0, parsing |-> 1, requesting |-> 2, queued |-> 3] IN
  before[s.at] + (IF s.at = "backoff" THEN 0 ELSE 3 * (Requests - s.request))

AttemptSteps == 3 * Requests + 1
KeySteps == Attempts * AttemptSteps
SearchSteps == NumKeys * KeySteps

StepsLeft(s) ==
  IF s.at = "idle" THEN 0
  ELSE (Rounds - s.round) * SearchSteps + (NumKeys - s.pos) * KeySteps
         + (Attempts - s.attempt) * AttemptSteps + RequestSteps(s) + 1

(* A call that has gone on from s to t: over, or later in the order of stop     *)
(* options, keys, attempts and requests.                                     *)
Later(t, s) ==
  \/ t.at = "idle"
  \/ t.round > s.round
  \/ t.round = s.round /\ t.pos > s.pos
  \/ t.round = s.round /\ t.pos = s.pos /\ t.attempt > s.attempt
  \/ /\ t.round = s.round /\ t.pos = s.pos /\ t.attempt = s.attempt
     /\ RequestSteps(t) < RequestSteps(s)

LEMMA Multiples ==
  ASSUME NEW a \in Nat, NEW b \in Nat, NEW k \in Nat
  PROVE  a * k \in Nat /\ (a < b => a * k + k <= b * k)
<1>1. a * k \in Nat
  OBVIOUS
<1>2. ASSUME a < b
      PROVE  a * k + k <= b * k
  <2>1. b - a - 1 \in Nat
    BY <1>2
  <2>2. (b - a - 1) * k \in Nat
    BY <2>1
  <2>3. (b - a - 1) * k = b * k - (a * k + k)
    OBVIOUS
  <2>4. b * k \in Nat /\ a * k + k \in Nat
    BY <1>1
  <2>5. QED
    BY <2>2, <2>3, <2>4
<1>3. QED
  BY <1>1, <1>2

LEMMA RequestStepsType ==
  ASSUME NEW s \in CallState, s.at # "idle"
  PROVE  RequestSteps(s) \in 0 .. 3 * Requests
<1>1. s.request \in 1 .. Requests /\ Requests \in Nat \ {0}
      /\ s.at \in {"queued", "requesting", "parsing", "backoff"}
  BY Sizes DEF CallState
<1>2. QED
  BY <1>1 DEF RequestSteps

(* Each part of the sum is less than one unit of the part before it.          *)
LEMMA StepsLeftBounds ==
  ASSUME NEW s \in CallState, s.at # "idle"
  PROVE  /\ RequestSteps(s) + 1 <= AttemptSteps
         /\ (Attempts - s.attempt) * AttemptSteps + AttemptSteps <= KeySteps
         /\ (NumKeys - s.pos) * KeySteps + KeySteps <= SearchSteps
         /\ (Attempts - s.attempt) * AttemptSteps \in Nat
         /\ (NumKeys - s.pos) * KeySteps \in Nat
         /\ (Rounds - s.round) * SearchSteps \in Nat
         /\ AttemptSteps \in Nat /\ KeySteps \in Nat /\ SearchSteps \in Nat
         /\ RequestSteps(s) \in Nat
<1>1. /\ s.attempt \in 1 .. Attempts /\ s.pos \in 1 .. NumKeys /\ s.round \in 1 .. Rounds
      /\ Attempts \in Nat /\ NumKeys \in Nat /\ Rounds \in Nat /\ Requests \in Nat
  BY Sizes DEF CallState
<1>2. /\ Attempts - s.attempt \in Nat /\ Attempts - s.attempt < Attempts
      /\ NumKeys - s.pos \in Nat /\ NumKeys - s.pos < NumKeys
      /\ Rounds - s.round \in Nat
  BY <1>1
<1>3. AttemptSteps \in Nat
  BY <1>1 DEF AttemptSteps
<1>4. KeySteps \in Nat
  BY <1>1, <1>3, Multiples DEF KeySteps
<1>5. SearchSteps \in Nat
  BY <1>1, <1>4, Multiples DEF SearchSteps
<1>6. RequestSteps(s) \in Nat /\ RequestSteps(s) + 1 <= AttemptSteps
  BY <1>1, RequestStepsType DEF AttemptSteps
<1>7. /\ (Attempts - s.attempt) * AttemptSteps \in Nat
      /\ (Attempts - s.attempt) * AttemptSteps + AttemptSteps <= KeySteps
  BY <1>1, <1>2, <1>3, Multiples DEF KeySteps
<1>8. /\ (NumKeys - s.pos) * KeySteps \in Nat
      /\ (NumKeys - s.pos) * KeySteps + KeySteps <= SearchSteps
  BY <1>1, <1>2, <1>4, Multiples DEF SearchSteps
<1>9. (Rounds - s.round) * SearchSteps \in Nat
  BY <1>2, <1>5, <1>1, Multiples
<1>10. QED
  BY <1>3, <1>4, <1>5, <1>6, <1>7, <1>8, <1>9

LEMMA StepsLeftType ==
  ASSUME NEW s \in CallState
  PROVE  /\ StepsLeft(s) \in 0 .. Rounds * SearchSteps
         /\ s.at # "idle" => StepsLeft(s) > 0
<1>1. CASE s.at = "idle"
  <2>1. SearchSteps \in Nat
    <3>1. NumKeys \in Nat /\ Attempts \in Nat /\ AttemptSteps \in Nat
      BY Sizes DEF AttemptSteps
    <3>2. KeySteps \in Nat
      BY <3>1, Multiples DEF KeySteps
    <3>3. QED
      BY <3>1, <3>2, Multiples DEF SearchSteps
  <2>2. Rounds * SearchSteps \in Nat
    BY <2>1, Sizes, Multiples
  <2>3. QED
    BY <1>1, <2>2 DEF StepsLeft
<1>2. CASE s.at # "idle"
  <2> DEFINE r == (Rounds - s.round) * SearchSteps
             p == (NumKeys - s.pos) * KeySteps
             b == (Attempts - s.attempt) * AttemptSteps
             q == RequestSteps(s)
             all == Rounds * SearchSteps
  <2>1. /\ q + 1 <= AttemptSteps /\ b + AttemptSteps <= KeySteps /\ p + KeySteps <= SearchSteps
        /\ r \in Nat /\ p \in Nat /\ b \in Nat /\ q \in Nat
        /\ AttemptSteps \in Nat /\ KeySteps \in Nat /\ SearchSteps \in Nat
    BY <1>2, StepsLeftBounds
  <2>2. r + SearchSteps <= all /\ all \in Nat
    <3>1. s.round \in 1 .. Rounds /\ Rounds \in Nat
      BY Sizes DEF CallState
    <3>2. Rounds - s.round \in Nat /\ Rounds - s.round < Rounds
      BY <3>1
    <3>3. QED
      BY <2>1, <3>1, <3>2, Multiples
  <2>3. StepsLeft(s) = r + p + b + q + 1
    BY <1>2 DEF StepsLeft
  <2> HIDE DEF r, p, b, q, all
  <2>4. r + p + b + q + 1 <= r + p + KeySteps /\ r + p + KeySteps <= all
    BY <2>1, <2>2
  <2>5. QED
    BY <2>1, <2>2, <2>3, <2>4 DEF all
<1>3. QED
  BY <1>1, <1>2

LEMMA LaterIsShorter ==
  ASSUME NEW s \in CallState, NEW t \in CallState, s.at # "idle", Later(t, s)
  PROVE  StepsLeft(t) < StepsLeft(s)
<1>0. /\ s.attempt \in 1 .. Attempts /\ s.pos \in 1 .. NumKeys /\ s.round \in 1 .. Rounds
      /\ t.attempt \in 1 .. Attempts /\ t.pos \in 1 .. NumKeys /\ t.round \in 1 .. Rounds
      /\ Attempts \in Nat /\ NumKeys \in Nat /\ Rounds \in Nat
  BY Sizes DEF CallState
<1>1. CASE t.at = "idle"
  BY <1>1, StepsLeftType DEF StepsLeft
<1>2. CASE t.at # "idle"
  <2> DEFINE rs == (Rounds - s.round) * SearchSteps
             rt == (Rounds - t.round) * SearchSteps
             ps == (NumKeys - s.pos) * KeySteps
             pt == (NumKeys - t.pos) * KeySteps
             bs == (Attempts - s.attempt) * AttemptSteps
             bt == (Attempts - t.attempt) * AttemptSteps
             qs == RequestSteps(s)
             qt == RequestSteps(t)
  <2>1. /\ rs \in Nat /\ ps \in Nat /\ bs \in Nat /\ qs \in Nat
        /\ AttemptSteps \in Nat /\ KeySteps \in Nat /\ SearchSteps \in Nat
    BY StepsLeftBounds
  <2>2. /\ rt \in Nat /\ pt \in Nat /\ bt \in Nat /\ qt \in Nat
        /\ qt + 1 <= AttemptSteps
        /\ bt + AttemptSteps <= KeySteps /\ pt + KeySteps <= SearchSteps
    BY <1>2, StepsLeftBounds
  <2>3. StepsLeft(s) = rs + ps + bs + qs + 1 /\ StepsLeft(t) = rt + pt + bt + qt + 1
    BY <1>2 DEF StepsLeft
  <2>4. \/ rt + SearchSteps <= rs
        \/ rt = rs /\ pt + KeySteps <= ps
        \/ rt = rs /\ pt = ps /\ bt + AttemptSteps <= bs
        \/ rt = rs /\ pt = ps /\ bt = bs /\ qt < qs
    <3>1. ASSUME t.round > s.round
          PROVE  rt + SearchSteps <= rs
      <4>1. Rounds - t.round \in Nat /\ Rounds - s.round \in Nat
            /\ Rounds - t.round < Rounds - s.round
        BY <1>0, <3>1
      <4>2. QED
        BY <2>1, <4>1, Multiples
    <3>2. ASSUME t.pos > s.pos
          PROVE  pt + KeySteps <= ps
      <4>1. NumKeys - t.pos \in Nat /\ NumKeys - s.pos \in Nat /\ NumKeys - t.pos < NumKeys - s.pos
        BY <1>0, <3>2
      <4>2. QED
        BY <2>1, <4>1, Multiples
    <3>3. ASSUME t.attempt > s.attempt
          PROVE  bt + AttemptSteps <= bs
      <4>1. Attempts - t.attempt \in Nat /\ Attempts - s.attempt \in Nat
            /\ Attempts - t.attempt < Attempts - s.attempt
        BY <1>0, <3>3
      <4>2. QED
        BY <2>1, <4>1, Multiples
    <3>4. /\ t.round = s.round => rt = rs
          /\ t.pos = s.pos => pt = ps
          /\ t.attempt = s.attempt => bt = bs
      OBVIOUS
    <3> HIDE DEF rs, rt, ps, pt, bs, bt
    <3>5. QED
      BY <1>2, <3>1, <3>2, <3>3, <3>4 DEF Later
  <2> HIDE DEF rs, rt, ps, pt, bs, bt, qs, qt
  <2>5. rt + pt + bt + qt + 1 < rs + ps + bs + qs + 1
    <3>1. rt + pt + bt + qt + 1 <= rt + pt + bt + AttemptSteps
      BY ONLY <2>1, <2>2
    <3>2. rt + pt + bt + AttemptSteps <= rt + pt + KeySteps
      BY ONLY <2>1, <2>2
    <3>3. rt + pt + KeySteps <= rt + SearchSteps
      BY ONLY <2>1, <2>2
    <3>4. CASE rt + SearchSteps <= rs
      BY ONLY <2>1, <2>2, <3>1, <3>2, <3>3, <3>4
    <3>5. CASE rt = rs /\ pt + KeySteps <= ps
      BY ONLY <2>1, <2>2, <3>1, <3>2, <3>5
    <3>6. CASE rt = rs /\ pt = ps /\ bt + AttemptSteps <= bs
      BY ONLY <2>1, <2>2, <3>1, <3>6
    <3>7. CASE rt = rs /\ pt = ps /\ bt = bs /\ qt < qs
      BY ONLY <2>1, <2>2, <3>7
    <3>8. QED
      BY <2>4, <3>4, <3>5, <3>6, <3>7
  <2>6. QED
    BY <2>3, <2>5
<1>3. QED
  BY <1>1, <1>2

(* A search resumed from the i-th key on is over or at that key or a later one. *)
LEMMA OnwardIsLater ==
  ASSUME NEW s \in CallState, NEW i \in 1 .. NumKeys + 1, NEW failure
  PROVE  \/ Onward(s, i, failure).at = "idle"
         \/ /\ Onward(s, i, failure).pos \in i .. NumKeys
            /\ Onward(s, i, failure).round = s.round
<1> DEFINE open == {j \in i .. NumKeys : ~blocked[KeyAt(s.start, j)]}
           t == Onward(s, i, failure)
<1>1. CASE open = {}
  BY <1>1 DEF Onward, NewCall
<1>2. CASE open # {}
  <2>1. open \in SUBSET Nat
    BY Sizes
  <2>2. LeastOf(open) \in i .. NumKeys
    BY <1>2, <2>1, LeastExists
  <2>3. t.pos = LeastOf(open) /\ t.round = s.round
    BY <1>2 DEF Onward, CallState
  <2>4. QED
    BY <2>2, <2>3
<1>3. QED
  BY <1>1, <1>2

LEMMA NextKeyIsLater ==
  ASSUME NEW s \in CallState, NEW failure
  PROVE  Later(Onward([s EXCEPT !.tried = @ \cup {CurrentKey(s)}], s.pos + 1, failure), s)
<1> DEFINE u == [s EXCEPT !.tried = @ \cup {CurrentKey(s)}]
<1>1. s.pos \in 1 .. NumKeys /\ s.tried \in SUBSET Key
  BY DEF CallState
<1>2. s.pos + 1 \in 1 .. NumKeys + 1
  BY <1>1, Sizes
<1>3. u \in CallState /\ u.round = s.round
  BY <1>1, CurrentKeyType DEF CallState
<1> HIDE DEF u
<1>4. \/ Onward(u, s.pos + 1, failure).at = "idle"
      \/ /\ Onward(u, s.pos + 1, failure).pos \in s.pos + 1 .. NumKeys
         /\ Onward(u, s.pos + 1, failure).round = s.round
  BY <1>2, <1>3, OnwardIsLater
<1>5. QED
  BY <1>1, <1>4 DEF Later, u

LEMMA AfterErrorIsLater ==
  ASSUME CallsOK, NEW c \in Call, call[c].at \in {"requesting", "parsing"}, NEW failure,
         AfterError(c, failure)
  PROVE  Later(call'[c], call[c])
<1> DEFINE s == call[c]
<1>1. s \in CallState /\ Requests \in Nat \ {0} /\ s.request \in 1 .. Requests
  BY Sizes DEF CallsOK, CallState
<1>2. CASE MayRetry(s, failure)
  <2> DEFINE t == [s EXCEPT !.at = "backoff", !.request = 1]
  <2>1. call'[c] = t
    BY <1>2 DEF AfterError, Move, CallsOK
  <2>2. /\ t.at = "backoff" /\ t.round = s.round /\ t.pos = s.pos /\ t.attempt = s.attempt
    BY <1>1 DEF CallState
  <2>3. RequestSteps(t) = 0 /\ RequestSteps(s) > 0
    BY <1>1, <2>2 DEF RequestSteps
  <2> HIDE DEF t
  <2>4. QED
    BY <2>1, <2>2, <2>3 DEF Later
<1>3. CASE ~MayRetry(s, failure) /\ failure = "unparsable"
  BY <1>3 DEF AfterError, Move, NewCall, CallsOK, Later
<1>4. CASE ~MayRetry(s, failure) /\ failure # "unparsable"
  <2>1. call'[c] = Onward([s EXCEPT !.tried = @ \cup {CurrentKey(s)}], s.pos + 1, failure)
    BY <1>4 DEF AfterError, Move, CallsOK
  <2>2. QED
    BY <1>1, <2>1, NextKeyIsLater
<1>5. QED
  BY <1>2, <1>3, <1>4

LEMMA CallStepIsLater ==
  ASSUME CallsOK, cursor \in Key, NEW c \in Call, CallStep(c)
  PROVE  Later(call'[c], call[c]) /\ call[c].at # "idle" /\ \A d \in Call \ {c} : call'[d] = call[d]
<1> DEFINE s == call[c]
<1> USE DEF CallsOK
<1>1. /\ s \in CallState /\ Requests \in Nat \ {0} /\ s.request \in 1 .. Requests
      /\ s.round \in 1 .. Rounds /\ s.pos \in 1 .. NumKeys /\ s.attempt \in 1 .. Attempts
      /\ Rounds \in Nat /\ NumKeys \in Nat \ {0} /\ Attempts \in Nat
  BY Sizes DEF CallState
<1>2. CASE SendRequest(c)
  <2>1. call' = [call EXCEPT ![c] = [s EXCEPT !.at = "requesting"]] /\ s.at = "queued"
    BY <1>2 DEF SendRequest
  <2>2. QED
    BY <1>1, <2>1 DEF Later, RequestSteps, CallState
<1>3. CASE \E failure \in Failure \ {"unparsable"} : Refuse(c, failure)
  <2>1. PICK failure \in Failure \ {"unparsable"} : Refuse(c, failure)
    BY <1>3
  <2>2. AfterError(c, failure) /\ s.at = "requesting"
    BY <2>1 DEF Refuse
  <2>3. QED
    BY <2>2, AfterErrorIsLater DEF AfterError, Move
<1>4. CASE Receive(c)
  <2>1. call' = [call EXCEPT ![c] = [s EXCEPT !.at = "parsing"]] /\ s.at = "requesting"
    BY <1>4 DEF Receive
  <2>2. QED
    BY <1>1, <2>1 DEF Later, RequestSteps, CallState
<1>5. CASE \E failure \in {"error", "unparsable"} : FailToRead(c, failure)
  <2>1. PICK failure \in {"error", "unparsable"} : FailToRead(c, failure)
    BY <1>5
  <2>2. AfterError(c, failure) /\ s.at = "parsing"
    BY <2>1 DEF FailToRead
  <2>3. QED
    BY <2>2, AfterErrorIsLater DEF AfterError, Move
<1>6. CASE Retry(c)
  <2>1. s.at = "backoff" /\ call' = [call EXCEPT ![c] = Retried(s)]
    BY <1>6 DEF Retry, Move
  <2>2. CASE blocked[CurrentKey(s)]
    BY <1>1, <2>1, <2>2, NextKeyIsLater DEF Retried
  <2>3. CASE ~blocked[CurrentKey(s)]
    <3>1. Retried(s) = [s EXCEPT !.at = "queued", !.attempt = @ + 1]
      BY <2>3 DEF Retried
    <3>2. /\ Retried(s).round = s.round /\ Retried(s).pos = s.pos
          /\ Retried(s).attempt = s.attempt + 1
      BY <1>1, <3>1 DEF CallState
    <3>3. QED
      BY <1>1, <2>1, <3>2 DEF Later
  <2>4. QED
    BY <2>2, <2>3
<1>7. CASE DeepPass(c)
  <2> DEFINE t == [s EXCEPT !.at = "queued", !.request = @ + 1]
  <2>1. call' = [call EXCEPT ![c] = t] /\ s.at = "parsing" /\ s.request < Requests
    BY <1>7 DEF DeepPass
  <2>2. /\ t.at = "queued" /\ t.request = s.request + 1
        /\ t.round = s.round /\ t.pos = s.pos /\ t.attempt = s.attempt
    BY <1>1 DEF CallState
  <2> HIDE DEF t
  <2>3. RequestSteps(t) < RequestSteps(s)
    BY <1>1, <2>1, <2>2 DEF RequestSteps
  <2>4. QED
    BY <2>1, <2>2, <2>3 DEF Later
<1>8. CASE \E answer \in {"found", "none"} : Succeed(c, answer)
  BY <1>8 DEF Succeed, NewCall, Later
<1>9. CASE FallBack(c)
  <2> DEFINE u == [s EXCEPT !.start = cursor, !.round = s.round + 1, !.tried = {}, !.last = "none"]
  <2>1. /\ call' = [call EXCEPT ![c] = Onward(u, 1, "error")]
        /\ s.at = "parsing" /\ s.round < Rounds
    BY <1>9 DEF FallBack, BeginSearch, Move
  <2>2. u \in CallState /\ u.round = s.round + 1
    <3>1. s.round + 1 \in 1 .. Rounds /\ "none" \in Answer /\ {} \in SUBSET Key
      BY <1>1, <2>1 DEF Answer
    <3>2. QED
      BY <1>1, <3>1 DEF CallState
  <2> HIDE DEF u
  <2>3. 1 \in 1 .. NumKeys + 1
    BY <1>1
  <2>4. Onward(u, 1, "error").at = "idle" \/ Onward(u, 1, "error").round = s.round + 1
    BY <2>2, <2>3, OnwardIsLater
  <2>5. QED
    BY <1>1, <2>1, <2>4 DEF Later
<1>10. QED
  BY <1>2, <1>3, <1>4, <1>5, <1>6, <1>7, <1>8, <1>9 DEF CallStep

CallsBounded == \A c \in Call : StepsLeft(call[c]) \in 0 .. Rounds * SearchSteps

CallsShorten ==
  [][\A c \in Call :
       call[c].at # "idle" /\ call'[c] # call[c] => StepsLeft(call'[c]) < StepsLeft(call[c])]_vars

(* Whatever the keys answer, whoever else uses them and whenever a breaker      *)
(* trips or expires, a call under way never goes back: retries, failover, stop  *)
(* options and deep passes together are at most SearchSteps for each option.   *)
THEOREM CallsShortenHolds == Spec => []CallsBounded /\ CallsShorten
<1>1. IInv /\ IInv' /\ [Next]_vars =>
        \A c \in Call :
          call[c].at # "idle" /\ call'[c] # call[c] => StepsLeft(call'[c]) < StepsLeft(call[c])
  <2> SUFFICES ASSUME IInv, IInv', [Next]_vars, NEW c \in Call,
                      call[c].at # "idle", call'[c] # call[c]
               PROVE  StepsLeft(call'[c]) < StepsLeft(call[c])
    OBVIOUS
  <2>1. CallsOK /\ cursor \in Key /\ call[c] \in CallState /\ call'[c] \in CallState
    BY DEF IInv, VariablesOK, CallsOK
  <2>2. Later(call'[c], call[c])
    <3>1. ASSUME NEW d \in Call, BeginCall(d)
          PROVE  d # c /\ call'[c] = call[c]
      BY <2>1, <3>1 DEF BeginCall, BeginSearch, Move, CallsOK
    <3>2. ASSUME NEW d \in Call, CallStep(d)
          PROVE  Later(call'[c], call[c])
      BY <2>1, <3>2, CallStepIsLater
    <3>3. ASSUME NEW d \in Call, Cancel(d)
          PROVE  Later(call'[c], call[c])
      BY <2>1, <3>3 DEF Cancel, NewCall, CallsOK, Later
    <3>4. QED
      BY <3>1, <3>2, <3>3
      DEF Next, BeginRun, EndRun, CooldownExpires, BreakerExpires, vars
  <2>3. QED
    BY <2>1, <2>2, LaterIsShorter
<1>2. IInv => CallsBounded
  BY StepsLeftType DEF IInv, CallsOK, CallsBounded
<1>3. QED
  BY <1>1, <1>2, InvCorrect, PTL DEF Spec, CallsShorten

(* Who waits for the semaphore of a key that is used up finds a request out.   *)
WaitsForRequests ==
  \A c \in Call :
    call[c].at = "queued" /\ slots[CurrentKey(call[c])] = 0 =>
      \E d \in Call : call[d].at = "requesting" /\ CurrentKey(call[d]) = CurrentKey(call[c])

(* A request waits only for requests that are out: if the semaphore of its key  *)
(* is used up, a call is between sending and the answer with that key, and it   *)
(* waits for no other call.                                                  *)
THEOREM WaitsForRequestsHolds == Spec => []WaitsForRequests
<1>1. IInv => WaitsForRequests
  <2> SUFFICES ASSUME IInv, NEW c \in Call, slots[CurrentKey(call[c])] = 0
               PROVE  Holding(CurrentKey(call[c])) # {}
    BY DEF WaitsForRequests, Holding, Holds
  <2>1. CurrentKey(call[c]) \in Key
    BY CurrentKeyType DEF IInv, CallsOK
  <2>2. Cardinality(Holding(CurrentKey(call[c]))) = Slots
    BY <2>1, HoldingFinite DEF IInv, SlotsOK
  <2>3. QED
    BY <2>2, Sizes, FS_EmptySet
<1>2. QED
  BY <1>1, InvCorrect, PTL
================================================================================
