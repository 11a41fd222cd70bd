---------------------------- MODULE RouteBatchProofs ----------------------------
(***************************************************************************)
(* Theorems about RouteBatch, for any number of routes, dates, destinations  *)
(* and any size of the chunks.                                              *)
(***************************************************************************)
EXTENDS RouteBatch, FiniteSetTheorems, TLAPS

LEMMA Sizes == N \in Nat /\ Item \subseteq Nat \ {0}
BY SizesAssumption DEF N, Item

LEMMA PairType == ASSUME NEW i \in Item PROVE PairOf(i) \in Pair
<1>1. i - 1 \in Nat
  BY Sizes
<1>2. QED
  BY <1>1, SizesAssumption DEF PairOf, Pair

LEMMA LeastType ==
  ASSUME NEW a \in Nat, NEW b \in Nat
  PROVE  Least(a, b) \in Nat /\ Least(a, b) <= a /\ Least(a, b) <= b
BY DEF Least

(* The items of a chunk can be counted, all of them or some.                 *)
LEMMA ChunkFinite ==
  ASSUME NEW S \in SUBSET Chunk
  PROVE  IsFiniteSet(S) /\ Cardinality(S) \in Nat
<1>1. IsFiniteSet(Item)
  BY Sizes, FS_Interval DEF Item
<1>2. S \subseteq Item
  BY DEF Chunk
<1>3. QED
  BY <1>1, <1>2, FS_Subset, FS_CardinalityType

(***************************************************************************)
(* Types.                                                                  *)
(***************************************************************************)

LEMMA MarkType ==
  ASSUME TypeOK, NEW k \in Pair, MarkSuccess(k) \/ MarkFailure(k)
  PROVE  failures' \in [Pair -> Nat] /\ cooldown' \in [Pair -> 0 .. MaxRest]
<1> USE RestAssumption DEF TypeOK
<1>1. CASE MarkSuccess(k)
  BY <1>1 DEF MarkSuccess
<1>2. CASE MarkFailure(k)
  <2> DEFINE fails == failures[k] + 1
  <2>1. fails \in Nat
    OBVIOUS
  <2>2. RestAfter(fails) \in 0 .. MaxRest
    BY <2>1 DEF RestAfter, Least
  <2>3. QED
    BY <1>2, <2>1, <2>2 DEF MarkFailure
<1>3. QED
  BY <1>1, <1>2

(* An item's report keeps the progress a record of numbers.                  *)
LEMMA ProgressType ==
  ASSUME TypeOK, NEW status
  PROVE  ProgressOf(progress, status)
           \in [started : Nat, done : Nat, failed : Nat, scraped : Nat, routes : Nat]
<1> DEFINE s == IF status = "success" THEN 1 ELSE 0
           f == IF status = "error" THEN 1 ELSE 0
<1>1. s \in Nat /\ f \in Nat
  OBVIOUS
<1>2. ProgressOf(progress, status) =
        IF status = "stopped" THEN progress
        ELSE [progress EXCEPT !.done = @ + 1, !.scraped = @ + s, !.failed = @ + f]
  BY DEF ProgressOf
<1> HIDE DEF s, f
<1>3. progress.done + 1 \in Nat /\ progress.scraped + s \in Nat /\ progress.failed + f \in Nat
  BY <1>1 DEF TypeOK
<1>4. QED
  BY <1>2, <1>3 DEF TypeOK

LEMMA StartChunkType ==
  ASSUME TypeOK, StartChunk
  PROVE  TypeOK'
<1> USE DEF TypeOK, loopVars
<1>1. Cardinality(Chunk) \in Nat
  BY ChunkFinite
<1>2. \A S \in SUBSET Chunk : Cardinality(S) \in Nat
  BY ChunkFinite
<1>3. item' \in [Item -> ItemState]
  <2>1. {"skipped", "stopped", "searching"} \subseteq ItemState
    BY DEF ItemState, Final
  <2>2. QED
    BY <2>1 DEF StartChunk, Started
<1>4. \A k \in Pair : CountDown(k) \in 0 .. MaxRest
  <2> SUFFICES ASSUME NEW k \in Pair
               PROVE  CountDown(k) \in 0 .. MaxRest
    OBVIOUS
  <2> DEFINE due == Cardinality({i \in Chunk : PairOf(i) = k})
  <2>1. due \in Nat
    BY <1>2
  <2>2. Least(cooldown[k], due) \in 0 .. cooldown[k]
    BY <2>1, RestAssumption, LeastType
  <2>3. QED
    BY <2>2, RestAssumption DEF CountDown
<1>5. cooldown' \in [Pair -> 0 .. MaxRest]
  BY <1>4 DEF StartChunk
<1>6. progress' \in [started : Nat, done : Nat, failed : Nat, scraped : Nat, routes : Nat]
  <2> DEFINE first == [i \in Chunk |-> IF Rested(i) THEN "skipped" ELSE Started(i)]
             begun == Cardinality(Chunk)
             skipped == Cardinality({i \in Chunk : first[i] = "skipped"})
  <2>1. begun \in Nat /\ skipped \in Nat
    BY <1>1, <1>2
  <2>2. progress' = [progress EXCEPT !.started = @ + begun, !.done = @ + skipped]
    BY DEF StartChunk
  <2> HIDE DEF begun, skipped
  <2>3. progress.started + begun \in Nat /\ progress.done + skipped \in Nat
    BY <2>1
  <2>4. QED
    BY <2>2, <2>3
<1>7. QED
  BY <1>3, <1>5, <1>6 DEF StartChunk, Phase

LEMMA ItemStepType ==
  ASSUME TypeOK, NEW i \in Item, ItemStep(i)
  PROVE  TypeOK'
<1> USE DEF TypeOK, loopVars, memoryVars
<1>0. /\ PairOf(i) \in Pair
      /\ Answered \subseteq ItemState
      /\ {"success", "skipped", "stopped", "error"} \subseteq ItemState
  BY PairType DEF ItemState, Final, Answered
<1>1. ASSUME NEW outcome \in Answered, SearchEnds(i, outcome)
      PROVE  TypeOK'
  BY <1>0, <1>1 DEF SearchEnds
<1>2. CASE NoticeEnd(i)
  <2> DEFINE status == CASE item[i] = "priced" -> "success"
                         [] item[i] = "empty" -> "skipped"
                         [] item[i] = "broken" -> "error"
  <2>1. status \in ItemState
    BY <1>0, <1>2 DEF NoticeEnd, Answered
  <2>2. /\ item' = [item EXCEPT ![i] = status]
        /\ progress' = ProgressOf(progress, status)
        /\ MarkSuccess(PairOf(i)) \/ MarkFailure(PairOf(i))
    BY <1>2 DEF NoticeEnd
  <2>3. UNCHANGED <<loopVars, stop, stats, saved>>
    BY <1>2 DEF NoticeEnd
  <2> HIDE DEF status
  <2>4. failures' \in [Pair -> Nat] /\ cooldown' \in [Pair -> 0 .. MaxRest]
    BY <1>0, <2>2, MarkType
  <2>5. progress' \in [started : Nat, done : Nat, failed : Nat, scraped : Nat, routes : Nat]
    BY <2>2, ProgressType
  <2>6. QED
    BY <2>1, <2>2, <2>3, <2>4, <2>5
<1>3. CASE NoticeStop(i)
  <2>1. PICK status \in {"stopped", "error"} :
          /\ item' = [item EXCEPT ![i] = status]
          /\ progress' = ProgressOf(progress, status)
    BY <1>3 DEF NoticeStop
  <2>2. progress' \in [started : Nat, done : Nat, failed : Nat, scraped : Nat, routes : Nat]
    BY <2>1, ProgressType
  <2>3. failures' \in [Pair -> Nat] /\ cooldown' \in [Pair -> 0 .. MaxRest]
    BY <1>0, <1>3, MarkType DEF NoticeStop
  <2>4. saved' \in Nat
    BY <1>3 DEF NoticeStop
  <2>5. UNCHANGED <<loopVars, stop, stats>>
    BY <1>3 DEF NoticeStop
  <2>6. QED
    BY <1>0, <2>1, <2>2, <2>3, <2>4, <2>5
<1>4. QED
  BY <1>1, <1>2, <1>3 DEF ItemStep

LEMMA TallyType ==
  ASSUME TypeOK
  PROVE  Tally(stats, Chunk) \in [success : Nat, skipped : Nat, errors : Nat]
<1>1. \A S \in SUBSET Chunk : Cardinality(S) \in Nat
  BY ChunkFinite
<1>2. /\ Cardinality({i \in Chunk : item[i] = "success"}) \in Nat
      /\ Cardinality({i \in Chunk : item[i] \in {"skipped", "stopped"}}) \in Nat
      /\ Cardinality({i \in Chunk : item[i] = "error"}) \in Nat
  BY <1>1
<1>3. QED
  BY <1>2 DEF Tally, TypeOK

LEMMA LoopStepType ==
  ASSUME TypeOK, LoopStep
  PROVE  TypeOK'
<1> USE SizesAssumption DEF TypeOK, Phase, memoryVars, loopVars
<1>1. CASE BeginRoute
  <2>1. route' \in 0 .. Routes
    BY <1>1 DEF BeginRoute
  <2>2. QED
    BY <1>1, <2>1 DEF BeginRoute, ItemState
<1>2. CASE Finish
  BY <1>2 DEF Finish
<1>3. CASE Gather
  BY <1>3 DEF Gather
<1>4. CASE StartChunk
  BY <1>4, StartChunkType
<1>5. CASE EndChunk
  BY <1>5, TallyType DEF EndChunk
<1>6. CASE Resume
  BY <1>6 DEF Resume
<1>7. CASE EndRoute
  BY <1>7 DEF EndRoute
<1>8. QED
  BY <1>1, <1>2, <1>3, <1>4, <1>5, <1>6, <1>7 DEF LoopStep

LEMMA InitType == Init => TypeOK
<1> SUFFICES ASSUME Init
             PROVE  TypeOK
  OBVIOUS
<1>1. phase \in Phase /\ route \in 0 .. Routes /\ next \in Nat \ {0}
  BY SizesAssumption DEF Init, Phase
<1>2. item \in [Item -> ItemState]
  BY DEF Init, ItemState
<1>3. failures \in [Pair -> Nat] /\ cooldown \in [Pair -> 0 .. MaxRest]
  BY RestAssumption DEF Init
<1>4. QED
  BY <1>1, <1>2, <1>3 DEF Init, TypeOK

LEMMA StepType == TypeOK /\ [Next]_vars => TypeOK'
<1> SUFFICES ASSUME TypeOK, [Next]_vars
             PROVE  TypeOK'
  OBVIOUS
<1>1. CASE RequestStop
  BY <1>1 DEF RequestStop, TypeOK, loopVars, memoryVars
<1>2. CASE LoopStep
  BY <1>2, LoopStepType
<1>3. ASSUME NEW i \in Item, ItemStep(i)
      PROVE  TypeOK'
  BY <1>3, ItemStepType
<1>4. CASE UNCHANGED vars
  BY <1>4 DEF vars, loopVars, memoryVars, TypeOK
<1>5. QED
  BY <1>1, <1>2, <1>3, <1>4 DEF Next

(* The type invariant; among other things no rest is longer than MaxRest.     *)
THEOREM TypeCorrect == Spec => []TypeOK
BY InitType, StepType, PTL DEF Spec

(***************************************************************************)
(* Rests.                                                                  *)
(***************************************************************************)

(* A search starts only for an item whose pair has its rest used up by the    *)
(* items of its chunk, however the items of a chunk are spread over pairs.   *)
THEOREM RestIsKeptHolds == Spec => RestIsKept
<1> DEFINE Kept == \A i \in Item :
                     item[i] # "searching" /\ item'[i] = "searching" => cooldown'[PairOf(i)] = 0
<1>1. ASSUME TypeOK, StartChunk, NEW i \in Item, item[i] # "searching", item'[i] = "searching"
      PROVE  cooldown'[PairOf(i)] = 0
  <2> DEFINE k == PairOf(i)
             same == {h \in Chunk : PairOf(h) = k}
             turn == {h \in Chunk : h <= i /\ PairOf(h) = k}
  <2>1. i \in Chunk /\ ~Rested(i)
    BY <1>1 DEF StartChunk, Started
  <2>2. Cardinality(turn) > cooldown[k]
    <3>1. Cardinality(turn) \in Nat /\ cooldown[k] \in Nat
      BY <1>1, ChunkFinite, PairType, RestAssumption DEF TypeOK
    <3>2. QED
      BY <2>1, <3>1 DEF Rested, TurnOf
  <2>3. Cardinality(turn) <= Cardinality(same)
    BY ChunkFinite, FS_Subset
  <2>4. cooldown[k] \in Nat /\ Cardinality(same) \in Nat /\ Cardinality(turn) \in Nat
    BY <1>1, ChunkFinite, PairType, RestAssumption DEF TypeOK
  <2>5. CountDown(k) = 0
    BY <2>2, <2>3, <2>4 DEF CountDown, Least
  <2>6. QED
    BY <1>1, <2>5, PairType DEF StartChunk
<1>2. ASSUME TypeOK, Next, ~StartChunk
      PROVE  \A i \in Item : item'[i] = "searching" => item[i] = "searching"
  <2>1. CASE RequestStop \/ LoopStep
    BY <1>2, <2>1 DEF RequestStop, LoopStep, BeginRoute, Finish, Gather, EndChunk, Resume, EndRoute
  <2>2. ASSUME NEW j \in Item, ItemStep(j)
        PROVE  \A i \in Item : item'[i] = "searching" => item[i] = "searching"
    BY <1>2, <2>2 DEF ItemStep, SearchEnds, NoticeEnd, NoticeStop, TypeOK, Answered
  <2>3. QED
    BY <1>2, <2>1, <2>2 DEF Next
<1>3. TypeOK /\ [Next]_vars => [Kept]_vars
  BY <1>1, <1>2
<1>4. QED
  BY <1>3, TypeCorrect, PTL DEF Spec, RestIsKept

(***************************************************************************)
(* Counts.                                                                 *)
(***************************************************************************)

(* The items of C in a state of S; of the chunk, while it is running.         *)
Num(f, C, S) == Cardinality({i \in C : f[i] \in S})
Counted(S) == IF phase = "running" THEN Num(item, Chunk, S) ELSE 0

Reported == {"success", "skipped", "error"}
Pending == {"searching"} \cup Answered
Outside == {"between", "finished"}
Total == stats.success + stats.skipped + stats.errors

(* Only the items of the chunk at work are under way, and only a stop leaves  *)
(* one unreported.                                                          *)
WhereItemsAre ==
  /\ \A i \in Item : item[i] \in Pending => phase = "running" /\ i \in Chunk
  /\ \A i \in Item : item[i] = "stopped" => stop
  /\ phase \in {"gathered", "running"} => next <= N

(* The progress is ahead of the statistics by the chunk at work.             *)
ProgressIsAhead ==
  /\ progress.scraped = stats.success + Counted({"success"})
  /\ progress.failed = stats.errors + Counted({"error"})
  /\ progress.started = Total + Counted(ItemState)
  /\ progress.done <= Total + Counted(Reported)
  /\ stats.success + Counted({"success", "priced"}) <= saved

(* Without a stop nothing is lost: the items begun are those of the routes   *)
(* done, of the chunks done and of the chunk at work.                        *)
NothingIsLost ==
  ~stop =>
    /\ progress.started = IF phase \in Outside THEN route * N
                          ELSE (route - 1) * N + Least(next - 1, N) + Counted(ItemState)
    /\ progress.done = Total + Counted(Reported)
    /\ progress.routes = IF phase \in Outside THEN route ELSE route - 1
    /\ stats.success + Counted({"success", "priced"}) = saved

CountsInv == TypeOK /\ WhereItemsAre /\ ProgressIsAhead /\ NothingIsLost

LEMMA NumType ==
  ASSUME NEW f, NEW C, IsFiniteSet(C), NEW S
  PROVE  Num(f, C, S) \in Nat
BY FS_Subset, FS_CardinalityType DEF Num

LEMMA NumSplit ==
  ASSUME NEW f, NEW C, IsFiniteSet(C), NEW S, NEW T, S \cap T = {}
  PROVE  Num(f, C, S \cup T) = Num(f, C, S) + Num(f, C, T)
<1> DEFINE A == {h \in C : f[h] \in S}
           B == {h \in C : f[h] \in T}
<1>1. IsFiniteSet(A) /\ IsFiniteSet(B)
  BY FS_Subset
<1>2. A \cap B = {} /\ {h \in C : f[h] \in S \cup T} = A \cup B
  OBVIOUS
<1>3. Cardinality(A) \in Nat /\ Cardinality(B) \in Nat /\ Cardinality({}) = 0
  BY <1>1, FS_CardinalityType, FS_EmptySet
<1>4. Cardinality(A \cup B) = Cardinality(A) + Cardinality(B) - Cardinality(A \cap B)
  BY <1>1, FS_Union
<1>5. /\ Num(f, C, S \cup T) = Cardinality(A \cup B)
      /\ Num(f, C, S) = Cardinality(A) /\ Num(f, C, T) = Cardinality(B)
  BY <1>2 DEF Num
<1>6. Cardinality(A \cap B) = 0
  BY <1>2, <1>3
<1> HIDE DEF A, B
<1>7. QED
  BY <1>3, <1>4, <1>5, <1>6

(* One item moves from a state to another.                                   *)
LEMMA NumMove ==
  ASSUME NEW f, NEW g, NEW C, IsFiniteSet(C), NEW i \in C, NEW S,
         \A h \in C \ {i} : g[h] = f[h]
  PROVE  Num(g, C, S) =
           Num(f, C, S) + (IF g[i] \in S THEN 1 ELSE 0) - (IF f[i] \in S THEN 1 ELSE 0)
<1> DEFINE others == {h \in C \ {i} : f[h] \in S}
<1>1. IsFiniteSet(others) /\ Cardinality(others) \in Nat
  BY FS_Subset, FS_CardinalityType
<1>2. Cardinality(others \cup {i}) = Cardinality(others) + 1
  BY <1>1, FS_AddElement
<1>3. {h \in C : f[h] \in S} = IF f[i] \in S THEN others \cup {i} ELSE others
  OBVIOUS
<1>4. {h \in C : g[h] \in S} = IF g[i] \in S THEN others \cup {i} ELSE others
  OBVIOUS
<1>5. Num(f, C, S) = IF f[i] \in S THEN Cardinality(others \cup {i}) ELSE Cardinality(others)
  BY <1>3 DEF Num
<1>6. Num(g, C, S) = IF g[i] \in S THEN Cardinality(others \cup {i}) ELSE Cardinality(others)
  BY <1>4 DEF Num
<1> HIDE DEF others
<1>7. QED
  BY <1>1, <1>2, <1>5, <1>6

LEMMA CountedType ==
  ASSUME NEW S
  PROVE  Counted(S) \in Nat
BY ChunkFinite, NumType DEF Counted

LEMMA CountedMove ==
  ASSUME TypeOK, phase = "running", UNCHANGED <<phase, next>>,
         NEW i \in Chunk, NEW y, item' = [item EXCEPT ![i] = y], NEW S
  PROVE  Counted(S)' =
           Counted(S) + (IF y \in S THEN 1 ELSE 0) - (IF item[i] \in S THEN 1 ELSE 0)
<1>1. IsFiniteSet(Chunk) /\ Chunk \subseteq Item
  BY ChunkFinite DEF Chunk
<1>2. Chunk' = Chunk
  BY DEF Chunk
<1>3. Counted(S)' = Num(item', Chunk, S) /\ Counted(S) = Num(item, Chunk, S)
  BY <1>2 DEF Counted
<1>4. item'[i] = y /\ \A h \in Chunk \ {i} : item'[h] = item[h]
  BY <1>1 DEF TypeOK
<1>5. Num(item', Chunk, S) =
        Num(item, Chunk, S) + (IF item'[i] \in S THEN 1 ELSE 0)
                            - (IF item[i] \in S THEN 1 ELSE 0)
  <2> DEFINE f == item
             g == item'
             C == Chunk
  <2>1. IsFiniteSet(C) /\ \A h \in C \ {i} : g[h] = f[h]
    BY <1>1, <1>4
  <2> HIDE DEF f, g, C
  <2>2. i \in C
    BY DEF C
  <2>3. Num(g, C, S) =
          Num(f, C, S) + (IF g[i] \in S THEN 1 ELSE 0) - (IF f[i] \in S THEN 1 ELSE 0)
    BY <2>1, <2>2, NumMove
  <2>4. QED
    BY <2>3 DEF f, g, C
<1>6. QED
  BY <1>3, <1>4, <1>5

(* The statuses of a finished chunk are counted once each.                    *)
LEMMA ChunkTotal ==
  ASSUME TypeOK, \A i \in Chunk : item[i] \in Final
  PROVE  /\ Cardinality(Chunk) = Num(item, Chunk, ItemState)
         /\ Num(item, Chunk, ItemState) =
              Num(item, Chunk, Reported) + Num(item, Chunk, {"stopped"})
         /\ Num(item, Chunk, Reported) + Num(item, Chunk, {"stopped"}) =
              Num(item, Chunk, {"success"}) + Num(item, Chunk, {"skipped", "stopped"})
                + Num(item, Chunk, {"error"})
         /\ Num(item, Chunk, {"success", "priced"}) = Num(item, Chunk, {"success"})
<1>1. IsFiniteSet(Chunk)
  BY ChunkFinite
<1>2. Num(item, Chunk, Final) = Num(item, Chunk, Reported) + Num(item, Chunk, {"stopped"})
  <2>1. Reported \cap {"stopped"} = {} /\ Final = Reported \cup {"stopped"}
    BY DEF Reported, Final
  <2>2. QED
    BY <1>1, <2>1, NumSplit
<1>3. Num(item, Chunk, Final) =
        Num(item, Chunk, {"success", "error"}) + Num(item, Chunk, {"skipped", "stopped"})
  <2>1. /\ {"success", "error"} \cap {"skipped", "stopped"} = {}
        /\ Final = {"success", "error"} \cup {"skipped", "stopped"}
    BY DEF Final
  <2>2. QED
    BY <1>1, <2>1, NumSplit
<1>4. Num(item, Chunk, {"success", "error"}) =
        Num(item, Chunk, {"success"}) + Num(item, Chunk, {"error"})
  <2>1. /\ {"success"} \cap {"error"} = {}
        /\ {"success", "error"} = {"success"} \cup {"error"}
    OBVIOUS
  <2>2. QED
    BY <1>1, <2>1, NumSplit
<1>5. /\ {h \in Chunk : item[h] \in ItemState} = Chunk
      /\ {h \in Chunk : item[h] \in Final} = Chunk
      /\ {h \in Chunk : item[h] \in {"success", "priced"}} =
           {h \in Chunk : item[h] \in {"success"}}
  BY DEF ItemState, Final
<1>6. /\ Num(item, Chunk, {"success"}) \in Nat /\ Num(item, Chunk, {"error"}) \in Nat
      /\ Num(item, Chunk, {"skipped", "stopped"}) \in Nat
      /\ Num(item, Chunk, {"stopped"}) \in Nat /\ Num(item, Chunk, Reported) \in Nat
  BY <1>1, NumType
<1>7. /\ Num(item, Chunk, ItemState) = Cardinality(Chunk)
      /\ Num(item, Chunk, Final) = Cardinality(Chunk)
      /\ Num(item, Chunk, {"success", "priced"}) = Num(item, Chunk, {"success"})
  BY <1>5 DEF Num
<1>8. QED
  BY <1>2, <1>3, <1>4, <1>6, <1>7

(* What an item's step does to the counts: it moves to state y.               *)
Effect(i, y) ==
  /\ item' = [item EXCEPT ![i] = y]
  /\ y \in ItemState
  /\ y = "stopped" => stop
  /\ y \notin {"searching", "idle"}
  /\ y = "success" <=> item[i] = "priced"
  /\ progress'.scraped = progress.scraped + (IF y = "success" THEN 1 ELSE 0)
  /\ progress'.failed = progress.failed + (IF y = "error" THEN 1 ELSE 0)
  /\ progress'.done = progress.done + (IF y \in Reported THEN 1 ELSE 0)
  /\ progress'.started = progress.started /\ progress'.routes = progress.routes
  /\ saved' \in {saved, saved + 1}
  /\ ~stop => saved' = saved + (IF y = "priced" THEN 1 ELSE 0)
  /\ y = "priced" => saved' = saved + 1
  /\ UNCHANGED <<loopVars, stop, stats>>

LEMMA ProgressEffect ==
  ASSUME TypeOK, NEW y \in Final, progress' = ProgressOf(progress, y)
  PROVE  /\ progress'.scraped = progress.scraped + (IF y = "success" THEN 1 ELSE 0)
         /\ progress'.failed = progress.failed + (IF y = "error" THEN 1 ELSE 0)
         /\ progress'.done = progress.done + (IF y \in Reported THEN 1 ELSE 0)
         /\ progress'.started = progress.started /\ progress'.routes = progress.routes
<1>1. CASE y = "stopped"
  BY <1>1 DEF ProgressOf, Reported, TypeOK
<1>2. CASE y # "stopped"
  BY <1>2 DEF ProgressOf, Reported, TypeOK, Final
<1>3. QED
  BY <1>1, <1>2

LEMMA ItemEffect ==
  ASSUME TypeOK, NEW i \in Item, ItemStep(i)
  PROVE  item[i] \in Pending /\ \E y : Effect(i, y)
<1> USE DEF Pending, Answered, ItemState, Final, Reported
<1>0. saved \in Nat
  BY DEF TypeOK
<1>1. ASSUME NEW y \in Answered, SearchEnds(i, y)
      PROVE  item[i] \in Pending /\ Effect(i, y)
  <2>1. progress' = progress /\ item[i] = "searching"
    BY <1>1 DEF SearchEnds
  <2>2. /\ progress.scraped \in Nat /\ progress.failed \in Nat /\ progress.done \in Nat
    BY DEF TypeOK
  <2>3. QED
    BY <1>0, <1>1, <2>1, <2>2 DEF SearchEnds, Effect
<1>2. CASE NoticeEnd(i)
  <2>1. item[i] \in {"priced", "empty", "broken"}
    BY <1>2 DEF NoticeEnd
  <2>2. PICK y \in Reported :
          \/ item[i] = "priced" /\ y = "success"
          \/ item[i] = "empty" /\ y = "skipped"
          \/ item[i] = "broken" /\ y = "error"
    BY <2>1
  <2>3. item' = [item EXCEPT ![i] = y] /\ progress' = ProgressOf(progress, y)
    BY <1>2, <2>2 DEF NoticeEnd
  <2>4. UNCHANGED <<loopVars, stop, stats, saved>>
    BY <1>2 DEF NoticeEnd
  <2>5. Effect(i, y)
    BY <1>0, <2>2, <2>3, <2>4, ProgressEffect DEF Effect
  <2>6. QED
    BY <2>1, <2>5
<1>3. CASE NoticeStop(i)
  <2>1. PICK y \in {"stopped", "error"} :
          /\ item' = [item EXCEPT ![i] = y]
          /\ progress' = ProgressOf(progress, y)
          /\ y = "error" => saved' = saved
    BY <1>3 DEF NoticeStop
  <2>2. item[i] = "searching" /\ stop /\ saved' \in {saved, saved + 1}
    BY <1>3 DEF NoticeStop
  <2>3. UNCHANGED <<loopVars, stop, stats>>
    BY <1>3 DEF NoticeStop
  <2>4. Effect(i, y)
    BY <1>0, <2>1, <2>2, <2>3, ProgressEffect DEF Effect
  <2>5. QED
    BY <2>2, <2>4
<1>4. QED
  BY <1>1, <1>2, <1>3 DEF ItemStep

LEMMA ItemStepCounts ==
  ASSUME CountsInv, NEW i \in Item, ItemStep(i)
  PROVE  CountsInv'
<1>1. TypeOK /\ TypeOK'
  BY ItemStepType DEF CountsInv
<1>2. item[i] \in Pending /\ \E y : Effect(i, y)
  BY <1>1, ItemEffect
<1>3. phase = "running" /\ i \in Chunk
  BY <1>2 DEF CountsInv, WhereItemsAre
<1>4. PICK y : Effect(i, y)
  BY <1>2
<1>5. /\ phase' = phase /\ route' = route /\ next' = next /\ stop' = stop /\ stats' = stats
      /\ Chunk' = Chunk
  BY <1>4 DEF Effect, loopVars, Chunk
<1>6. \A S : Counted(S)' =
        Counted(S) + (IF y \in S THEN 1 ELSE 0) - (IF item[i] \in S THEN 1 ELSE 0)
  BY <1>1, <1>3, <1>4, <1>5, CountedMove DEF Effect
<1>7. WhereItemsAre'
  <2>1. item'[i] = y /\ \A h \in Item \ {i} : item'[h] = item[h]
    BY <1>1, <1>4 DEF Effect, TypeOK
  <2>2. QED
    BY <1>3, <1>4, <1>5, <2>1 DEF Effect, CountsInv, WhereItemsAre, N
<1>8. /\ Counted({"success"})' = Counted({"success"}) + (IF y = "success" THEN 1 ELSE 0)
      /\ Counted({"error"})' = Counted({"error"}) + (IF y = "error" THEN 1 ELSE 0)
      /\ Counted(ItemState)' = Counted(ItemState)
      /\ Counted(Reported)' = Counted(Reported) + (IF y \in Reported THEN 1 ELSE 0)
      /\ Counted({"success", "priced"})' =
           Counted({"success", "priced"}) + (IF y = "priced" THEN 1 ELSE 0)
  <2>1. \A S : Counted(S) \in Nat
    BY CountedType
  <2>2. Counted({"success"})' = Counted({"success"}) + (IF y = "success" THEN 1 ELSE 0)
    BY <1>2, <1>6, <2>1 DEF Pending, Answered
  <2>3. Counted({"error"})' = Counted({"error"}) + (IF y = "error" THEN 1 ELSE 0)
    BY <1>2, <1>6, <2>1 DEF Pending, Answered
  <2>4. Counted(ItemState)' = Counted(ItemState)
    BY <1>2, <1>4, <1>6, <2>1 DEF Pending, Answered, ItemState, Effect
  <2>5. Counted(Reported)' = Counted(Reported) + (IF y \in Reported THEN 1 ELSE 0)
    BY <1>2, <1>6, <2>1 DEF Pending, Answered, Reported
  <2>6. Counted({"success", "priced"})' =
          Counted({"success", "priced"}) + (IF y = "priced" THEN 1 ELSE 0)
    <3>1. y = "success" <=> item[i] = "priced"
      BY <1>4 DEF Effect
    <3>2. QED
      BY <1>2, <1>6, <2>1, <3>1 DEF Pending, Answered
  <2>7. QED
    BY <2>2, <2>3, <2>4, <2>5, <2>6
<1>9. Total' = Total
  BY <1>5 DEF Total
<1>10. /\ \A S : Counted(S) \in Nat
       /\ Total \in Nat /\ saved \in Nat /\ stats.success \in Nat /\ stats.errors \in Nat
       /\ progress.started \in Nat /\ progress.done \in Nat /\ progress.failed \in Nat
       /\ progress.scraped \in Nat /\ progress.routes \in Nat
  BY <1>1, CountedType DEF TypeOK, Total
<1>11. ProgressIsAhead'
  BY <1>4, <1>5, <1>8, <1>9, <1>10 DEF Effect, CountsInv, ProgressIsAhead
<1>12. NothingIsLost'
  <2> SUFFICES ASSUME ~stop
               PROVE  NothingIsLost'
    BY <1>5 DEF NothingIsLost
  <2>1. UNCHANGED N
    BY DEF N
  <2>2. QED
    BY <1>4, <1>5, <1>8, <1>9, <1>10, <2>1 DEF Effect, CountsInv, NothingIsLost
<1>13. QED
  BY <1>1, <1>7, <1>11, <1>12 DEF CountsInv

(* Outside of "running" nothing is counted.                                  *)
LEMMA NotRunning ==
  ASSUME phase # "running"
  PROVE  \A S : Counted(S) = 0
BY DEF Counted

(* The numbers of the items gathered, at the start and the end of a chunk.    *)
LEMMA ChunkSize ==
  ASSUME TypeOK, next <= N
  PROVE  Least(next - 1, N) + Cardinality(Chunk) = Least(next + BatchSize - 1, N)
<1> DEFINE last == Least(next + BatchSize - 1, N)
<1>1. next \in Nat \ {0} /\ N \in Nat /\ BatchSize \in Nat \ {0}
  BY Sizes, SizesAssumption DEF TypeOK
<1>2. last \in Nat /\ next <= last /\ last <= N
  BY <1>1 DEF Least
<1>3. Chunk = next .. last
  BY <1>1 DEF Chunk, Item, Least
<1>4. Cardinality(next .. last) = last - next + 1
  BY <1>1, <1>2, FS_Interval
<1>5. Least(next - 1, N) = next - 1
  BY <1>1 DEF Least
<1> HIDE DEF last
<1>6. Least(next - 1, N) + Cardinality(Chunk) = last
  BY <1>1, <1>2, <1>3, <1>4, <1>5
<1>7. QED
  BY <1>6 DEF last

LEMMA StartChunkCounts ==
  ASSUME CountsInv, StartChunk
  PROVE  CountsInv'
<1>1. TypeOK /\ TypeOK'
  BY StartChunkType DEF CountsInv
<1> DEFINE first == [i \in Chunk |-> IF Rested(i) THEN "skipped" ELSE Started(i)]
           skipped == {i \in Chunk : first[i] = "skipped"}
<1>2. /\ phase = "gathered" /\ phase' = "running"
      /\ item' = [i \in Item |-> IF i \in Chunk THEN first[i] ELSE item[i]]
      /\ progress' = [progress EXCEPT !.started = @ + Cardinality(Chunk),
                                      !.done = @ + Cardinality(skipped)]
      /\ route' = route /\ next' = next /\ stop' = stop /\ stats' = stats /\ saved' = saved
  BY DEF StartChunk
<1>3. \A i \in Chunk : item'[i] = first[i]
  BY <1>2 DEF Chunk
<1>4. \A i \in Chunk : first[i] \in {"skipped", "stopped", "searching"}
                       /\ (first[i] = "stopped" => stop)
  BY DEF Started
<1>5. Chunk' = Chunk /\ UNCHANGED N
  BY <1>2 DEF Chunk, N
<1>6. \A i \in Item : i \notin Chunk => item'[i] = item[i]
  BY <1>2
<1>7. WhereItemsAre'
  BY <1>2, <1>3, <1>4, <1>5, <1>6 DEF CountsInv, WhereItemsAre, Pending, Answered
<1>8. /\ Counted({"success"})' = 0 /\ Counted({"error"})' = 0
      /\ Counted({"success", "priced"})' = 0
      /\ Counted(Reported)' = Cardinality(skipped)
      /\ Counted(ItemState)' = Cardinality(Chunk)
  <2>1. \A S : Counted(S)' = Cardinality({i \in Chunk : item'[i] \in S})
    BY <1>2, <1>5 DEF Counted, Num
  <2>2. /\ {i \in Chunk : item'[i] \in {"success"}} = {}
        /\ {i \in Chunk : item'[i] \in {"error"}} = {}
        /\ {i \in Chunk : item'[i] \in {"success", "priced"}} = {}
    BY <1>3, <1>4
  <2>3. {i \in Chunk : item'[i] \in Reported} = skipped
    BY <1>3, <1>4 DEF Reported
  <2>4. {i \in Chunk : item'[i] \in ItemState} = Chunk
    BY <1>3, <1>4 DEF ItemState, Final
  <2>5. Cardinality({}) = 0
    BY FS_EmptySet
  <2> HIDE DEF skipped, first
  <2>6. QED
    BY <2>1, <2>2, <2>3, <2>4, <2>5
<1>9. /\ Cardinality(Chunk) \in Nat /\ Cardinality(skipped) \in Nat
      /\ Total \in Nat /\ saved \in Nat /\ stats.success \in Nat /\ stats.errors \in Nat
      /\ progress.started \in Nat /\ progress.done \in Nat
  <2>1. skipped \in SUBSET Chunk
    OBVIOUS
  <2> HIDE DEF skipped
  <2>2. Cardinality(Chunk) \in Nat /\ Cardinality(skipped) \in Nat
    BY <2>1, ChunkFinite
  <2>3. QED
    BY <1>1, <2>2 DEF TypeOK, Total
<1> HIDE DEF skipped, first
<1>10. /\ progress'.started = progress.started + Cardinality(Chunk)
       /\ progress'.done = progress.done + Cardinality(skipped)
       /\ progress'.scraped = progress.scraped /\ progress'.failed = progress.failed
       /\ progress'.routes = progress.routes
  BY <1>1, <1>2 DEF TypeOK
<1>11. Total' = Total
  BY <1>2 DEF Total
<1>12. \A S : Counted(S) = 0
  BY <1>2, NotRunning
<1>13. ProgressIsAhead'
  BY <1>2, <1>8, <1>9, <1>10, <1>11, <1>12 DEF CountsInv, ProgressIsAhead
<1>14. NothingIsLost'
  <2> SUFFICES ASSUME ~stop
               PROVE  NothingIsLost'
    BY <1>2 DEF NothingIsLost
  <2> DEFINE before == (route - 1) * N + Least(next - 1, N)
  <2>1. before' = before
    BY <1>2, <1>5
  <2>2. before \in Int
    BY <1>1, Sizes DEF TypeOK, Least
  <2>3. progress.started = before + 0
    BY <1>2, <1>12 DEF CountsInv, NothingIsLost, Outside
  <2>4. progress'.started = before' + Counted(ItemState)'
    BY <1>8, <1>9, <1>10, <2>1, <2>2, <2>3
  <2>5. progress'.done = Total' + Counted(Reported)'
    BY <1>8, <1>9, <1>10, <1>11, <1>12 DEF CountsInv, NothingIsLost
  <2>6. stats'.success + Counted({"success", "priced"})' = saved'
    BY <1>2, <1>8, <1>9, <1>12 DEF CountsInv, NothingIsLost
  <2>7. QED
    BY <1>2, <1>10, <2>4, <2>5, <2>6 DEF CountsInv, NothingIsLost, Outside
<1>15. QED
  BY <1>1, <1>7, <1>13, <1>14 DEF CountsInv

LEMMA EndChunkCounts ==
  ASSUME CountsInv, EndChunk
  PROVE  CountsInv'
<1>1. TypeOK /\ TypeOK'
  BY LoopStepType DEF CountsInv, LoopStep
<1>2. /\ phase = "running" /\ phase' \in {"check", "pausing"}
      /\ \A i \in Chunk : item[i] \in Final
      /\ stats' = Tally(stats, Chunk) /\ next' = next + BatchSize
      /\ route' = route /\ item' = item /\ stop' = stop /\ progress' = progress
      /\ saved' = saved /\ N' = N
  BY DEF EndChunk, N
<1> DEFINE ok == Num(item, Chunk, {"success"})
           bad == Num(item, Chunk, {"error"})
           none == Num(item, Chunk, {"skipped", "stopped"})
           told == Num(item, Chunk, Reported)
           cut == Num(item, Chunk, {"stopped"})
           size == Cardinality(Chunk)
<1>3. /\ Counted({"success"}) = ok /\ Counted({"error"}) = bad
      /\ Counted({"success", "priced"}) = ok
      /\ Counted(Reported) = told /\ Counted(ItemState) = size
      /\ size = told + cut /\ told + cut = ok + none + bad
  BY <1>1, <1>2, ChunkTotal DEF Counted
<1>4. /\ ok \in Nat /\ bad \in Nat /\ none \in Nat /\ told \in Nat /\ cut \in Nat
      /\ size \in Nat
  BY ChunkFinite, NumType
<1>5. ~stop => cut = 0
  <2>1. ~stop => {i \in Chunk : item[i] \in {"stopped"}} = {}
    BY DEF CountsInv, WhereItemsAre, Chunk
  <2>2. QED
    BY <2>1, FS_EmptySet DEF Num
<1>6. stats' = [success |-> stats.success + ok, skipped |-> stats.skipped + none,
                errors |-> stats.errors + bad]
  <2>1. /\ {i \in Chunk : item[i] = "success"} = {i \in Chunk : item[i] \in {"success"}}
        /\ {i \in Chunk : item[i] = "error"} = {i \in Chunk : item[i] \in {"error"}}
    OBVIOUS
  <2>2. QED
    BY <1>2, <2>1 DEF Tally, Num
<1> HIDE DEF ok, bad, none, told, cut, size
<1>7. /\ Total \in Nat /\ saved \in Nat /\ stats.success \in Nat /\ stats.errors \in Nat
      /\ stats.skipped \in Nat /\ progress.started \in Nat /\ progress.done \in Nat
  BY <1>1 DEF TypeOK, Total
<1>8. Total' = Total + ok + none + bad
  BY <1>4, <1>6, <1>7 DEF Total
<1>9. \A S : Counted(S)' = 0
  BY <1>2 DEF Counted
<1>10. WhereItemsAre'
  BY <1>2 DEF CountsInv, WhereItemsAre, Pending, Answered, Final
<1>11. ProgressIsAhead'
  BY <1>2, <1>3, <1>4, <1>6, <1>7, <1>8, <1>9 DEF CountsInv, ProgressIsAhead
<1>12. NothingIsLost'
  <2> SUFFICES ASSUME ~stop
               PROVE  NothingIsLost'
    BY <1>2 DEF NothingIsLost
  <2> DEFINE base == (route - 1) * N
  <2>1. base' = base /\ base \in Int
    BY <1>1, <1>2, Sizes DEF TypeOK
  <2>2. progress.started = base + Least(next - 1, N) + size
    BY <1>2, <1>3 DEF CountsInv, NothingIsLost, Outside
  <2>3. Least(next - 1, N) + size = Least(next + BatchSize - 1, N)
    BY <1>1, <1>2, ChunkSize DEF CountsInv, WhereItemsAre, size
  <2>4. Least(next - 1, N) \in Nat
    BY <1>1, Sizes DEF TypeOK, Least
  <2>5. Least(next - 1, N)' = Least(next + BatchSize - 1, N)
    BY <1>1, <1>2, Sizes, SizesAssumption DEF TypeOK, Least
  <2> HIDE DEF base
  <2>6. progress'.started = base' + Least(next - 1, N)' + 0
    BY <1>2, <1>4, <2>1, <2>2, <2>3, <2>4, <2>5
  <2>7. progress'.done = Total' + 0
    BY <1>2, <1>3, <1>4, <1>5, <1>7, <1>8 DEF CountsInv, NothingIsLost
  <2>8. stats'.success + 0 = saved'
    BY <1>2, <1>3, <1>4, <1>6, <1>7 DEF CountsInv, NothingIsLost
  <2>9. progress'.routes = route - 1
    BY <1>2 DEF CountsInv, NothingIsLost, Outside
  <2>10. QED
    BY <1>2, <1>9, <2>6, <2>7, <2>8, <2>9 DEF NothingIsLost, Outside, base
<1>13. QED
  BY <1>1, <1>10, <1>11, <1>12 DEF CountsInv

(* The steps of the loop that leave the statistics and the items begun alone. *)
LEMMA LoopCounts ==
  ASSUME CountsInv, BeginRoute \/ Finish \/ Gather \/ Resume \/ EndRoute
  PROVE  CountsInv'
<1>1. TypeOK /\ TypeOK'
  BY LoopStepType DEF CountsInv, LoopStep
<1>2. /\ phase # "running" /\ phase' # "running"
      /\ stats' = stats /\ saved' = saved /\ stop' = stop /\ N' = N
  BY DEF BeginRoute, Finish, Gather, Resume, EndRoute, N
<1>3. /\ \A S : Counted(S) = 0
      /\ \A S : Counted(S)' = 0
  BY <1>2 DEF Counted
<1>4. /\ progress'.started = progress.started /\ progress'.done = progress.done
      /\ progress'.scraped = progress.scraped /\ progress'.failed = progress.failed
  BY <1>1 DEF BeginRoute, Finish, Gather, Resume, EndRoute, TypeOK
<1>5. Total' = Total
  BY <1>2 DEF Total
<1>6. \A i \in Item : item[i] \notin Pending
  BY <1>2 DEF CountsInv, WhereItemsAre
<1>7. WhereItemsAre'
  <2>1. \A i \in Item : item'[i] = item[i] \/ item'[i] = "idle"
    BY DEF BeginRoute, Finish, Gather, Resume, EndRoute
  <2>2. phase' = "gathered" => next' <= N
    BY DEF BeginRoute, Finish, Gather, Resume, EndRoute
  <2>3. Item' = Item
    BY <1>2 DEF Item
  <2>4. QED
    BY <1>2, <1>6, <2>1, <2>2, <2>3 DEF CountsInv, WhereItemsAre, Pending, Answered
<1>8. ProgressIsAhead'
  BY <1>2, <1>3, <1>4, <1>5 DEF CountsInv, ProgressIsAhead
<1>9. NothingIsLost'
  <2> SUFFICES ASSUME ~stop
               PROVE  NothingIsLost'
    BY <1>2 DEF NothingIsLost
  <2>0. /\ route \in Nat /\ N \in Nat /\ next \in Nat \ {0} /\ progress.routes \in Nat
        /\ stats.success \in Nat /\ saved \in Nat /\ Total \in Nat
    BY <1>1, Sizes, SizesAssumption DEF TypeOK, Total
  <2>1. /\ progress'.done = Total' + Counted(Reported)'
        /\ stats'.success + Counted({"success", "priced"})' = saved'
    BY <1>2, <1>3, <1>4, <1>5 DEF CountsInv, NothingIsLost
  <2>2. CASE BeginRoute
    <3>1. progress.started = route * N /\ progress.routes = route
      BY <2>2 DEF BeginRoute, CountsInv, NothingIsLost, Outside
    <3>2. /\ route' - 1 = route /\ Least(next - 1, N)' = 0 /\ phase' = "check"
          /\ progress' = progress
      BY <1>2, <2>0, <2>2 DEF BeginRoute, Least
    <3>3. route * N \in Nat
      BY <2>0
    <3>4. progress'.started = (route' - 1) * N' + Least(next - 1, N)' + 0
      BY <1>2, <3>1, <3>2, <3>3
    <3>5. QED
      BY <1>3, <2>1, <3>1, <3>2, <3>4 DEF NothingIsLost, Outside
  <2>3. CASE Finish \/ Gather \/ Resume
    <3>1. /\ phase \in Outside <=> phase' \in Outside
          /\ route' = route /\ next' = next /\ progress' = progress
      BY <2>3 DEF Finish, Gather, Resume, Outside
    <3>2. Least(next - 1, N)' = Least(next - 1, N)
      BY <1>2, <3>1
    <3>3. QED
      BY <1>2, <1>3, <2>1, <3>1, <3>2 DEF CountsInv, NothingIsLost
  <2>4. CASE EndRoute
    <3>1. /\ phase = "check" /\ phase' = "between" /\ next > N /\ route' = route
          /\ progress' = [progress EXCEPT !.routes = @ + 1]
      BY <2>4 DEF EndRoute
    <3>2. Least(next - 1, N) = N
      BY <2>0, <3>1 DEF Least
    <3>3. progress.started = (route - 1) * N + N /\ progress.routes = route - 1
      <4>1. progress.started = (route - 1) * N + N + 0 /\ progress.routes = route - 1
        BY <1>3, <3>1, <3>2 DEF CountsInv, NothingIsLost, Outside
      <4>2. (route - 1) * N \in Int
        BY <2>0
      <4>3. QED
        BY <2>0, <4>1, <4>2
    <3>4. (route - 1) * N + N = route * N
      BY <2>0
    <3>5. progress'.routes = route
      BY <1>1, <2>0, <3>1, <3>3 DEF TypeOK
    <3>6. QED
      BY <1>2, <1>4, <2>1, <3>1, <3>3, <3>4, <3>5 DEF NothingIsLost, Outside
  <2>5. QED
    BY <2>2, <2>3, <2>4
<1>10. QED
  BY <1>1, <1>7, <1>8, <1>9 DEF CountsInv

LEMMA CountsInitially == Init => CountsInv
<1> SUFFICES ASSUME Init
             PROVE  CountsInv
  OBVIOUS
<1>1. TypeOK
  BY InitType
<1>2. \A S : Counted(S) = 0
  BY DEF Init, Counted
<1>3. WhereItemsAre
  BY DEF Init, WhereItemsAre, Pending, Answered
<1>4. ProgressIsAhead
  BY <1>2 DEF Init, ProgressIsAhead, Total
<1>5. 0 * N = 0
  BY Sizes
<1>6. NothingIsLost
  BY <1>2, <1>5 DEF Init, NothingIsLost, Total, Outside
<1>7. QED
  BY <1>1, <1>3, <1>4, <1>6 DEF CountsInv

LEMMA CountsStep == CountsInv /\ [Next]_vars => CountsInv'
<1> SUFFICES ASSUME CountsInv, [Next]_vars
             PROVE  CountsInv'
  OBVIOUS
<1>1. TypeOK /\ TypeOK'
  BY StepType DEF CountsInv
<1>2. CASE RequestStop \/ UNCHANGED vars
  <2>1. /\ UNCHANGED <<phase, route, next, item, stats, progress, saved>>
        /\ stop => stop'
    BY <1>2 DEF RequestStop, vars, loopVars
  <2>2. /\ \A S : Counted(S)' = Counted(S)
        /\ Total' = Total /\ N' = N /\ Chunk' = Chunk /\ Item' = Item
        /\ Least(next - 1, N)' = Least(next - 1, N)
    BY <2>1 DEF Counted, Total, N, Chunk, Item
  <2>3. WhereItemsAre' /\ ProgressIsAhead'
    BY <2>1, <2>2 DEF CountsInv, WhereItemsAre, ProgressIsAhead
  <2>4. NothingIsLost'
    BY <2>1, <2>2 DEF CountsInv, NothingIsLost
  <2>5. QED
    BY <1>1, <2>3, <2>4 DEF CountsInv
<1>3. CASE LoopStep
  BY <1>3, StartChunkCounts, EndChunkCounts, LoopCounts DEF LoopStep
<1>4. ASSUME NEW i \in Item, ItemStep(i)
      PROVE  CountsInv'
  BY <1>4, ItemStepCounts
<1>5. QED
  BY <1>2, <1>3, <1>4 DEF Next

(* However the searches of a chunk end, are noticed or are cut, between two   *)
(* routes the live progress agrees with the statistics of the run row, both   *)
(* claim only committed prices, and without a stop every item is reported.    *)
THEOREM CountsAgreeHolds == Spec => []CountsAgree
<1>1. CountsInv => CountsAgree
  <2> SUFFICES ASSUME CountsInv, phase \in {"between", "finished"}
               PROVE  CountsAgree
    BY DEF CountsAgree
  <2>1. \A S : Counted(S) = 0
    BY DEF Counted
  <2>2. /\ stats.success \in Nat /\ stats.errors \in Nat /\ Total \in Nat
    BY DEF CountsInv, TypeOK, Total
  <2>3. QED
    BY <2>1, <2>2 DEF CountsInv, ProgressIsAhead, NothingIsLost, Outside, Total, CountsAgree
<1>2. QED
  BY <1>1, CountsInitially, CountsStep, PTL DEF Spec

(***************************************************************************)
(* Termination.                                                            *)
(***************************************************************************)

(* The frontier moves over the items as chunks start: those behind it are     *)
(* untouched, and none of a running chunk is.                                *)
Frontier == IF phase = "running" THEN next + BatchSize ELSE next

Untouched ==
  /\ \A i \in Item : Frontier <= i => item[i] = "idle"
  /\ phase = "running" => \A i \in Chunk : item[i] # "idle"

FrontInv == CountsInv /\ Untouched

(* What is left: routes, each worth more than all the work it can be; items   *)
(* not gathered, answered and ended on this one; the step of the loop; a stop. *)
PhaseRank ==
  [finished |-> 0, between |-> 1, running |-> 2, gathered |-> 3, check |-> 4, pausing |-> 5]
Untaken == IF next <= N THEN N + 1 - next ELSE 0
Unanswered == {i \in Item : item[i] \in {"idle", "searching"}}
Unended == {i \in Item : item[i] \notin Final}
RouteSteps == 7 * N + 4
RoutesLeft == (Routes - route) * RouteSteps
StopLeft == IF stop THEN 0 ELSE 1

Remaining ==
  RoutesLeft + 5 * Untaken + PhaseRank[phase]
    + Cardinality(Unanswered) + Cardinality(Unended) + StopLeft

(* What an item's step does to it: its search ends, or the poll is done.      *)
LEMMA ItemMoves ==
  ASSUME TypeOK, NEW i \in Item, ItemStep(i)
  PROVE  \E y \in Answered \cup Final :
           /\ item' = [item EXCEPT ![i] = y]
           /\ item[i] \in Pending
           /\ item[i] = "searching" \/ y \in Final
           /\ UNCHANGED <<loopVars, stop>>
<1> USE DEF Pending, Answered, Final
<1>1. ASSUME NEW y \in Answered, SearchEnds(i, y)
      PROVE  /\ item' = [item EXCEPT ![i] = y] /\ item[i] = "searching"
             /\ UNCHANGED <<loopVars, stop>>
  BY <1>1 DEF SearchEnds
<1>2. CASE NoticeEnd(i)
  <2>1. item[i] \in Answered
    BY <1>2 DEF NoticeEnd
  <2>2. \E y \in Final : item' = [item EXCEPT ![i] = y]
    BY <1>2, <2>1 DEF NoticeEnd
  <2>3. UNCHANGED <<loopVars, stop>>
    BY <1>2 DEF NoticeEnd
  <2>4. QED
    BY <2>1, <2>2, <2>3
<1>3. CASE NoticeStop(i)
  BY <1>3 DEF NoticeStop
<1>4. QED
  BY <1>1, <1>2, <1>3 DEF ItemStep

LEMMA FrontInitially == Init => FrontInv
BY CountsInitially DEF FrontInv, Untouched, Frontier, Init

LEMMA FrontStep == FrontInv /\ [Next]_vars => FrontInv'
<1> SUFFICES ASSUME FrontInv, [Next]_vars
             PROVE  FrontInv'
  OBVIOUS
<1>1. CountsInv' /\ TypeOK /\ TypeOK' /\ WhereItemsAre
  BY CountsStep DEF FrontInv, CountsInv
<1>2. next \in Nat /\ BatchSize \in Nat \ {0} /\ Item \subseteq Nat /\ Item' = Item
  BY <1>1, Sizes, SizesAssumption DEF TypeOK, Item, N
<1>3. Untouched'
  <2>1. CASE UNCHANGED vars
    BY <2>1 DEF FrontInv, Untouched, Frontier, Chunk, vars, loopVars, Item, N
  <2>2. CASE RequestStop \/ Finish \/ Gather \/ EndRoute \/ Resume
    <3>1. (phase = "running") = (phase' = "running") /\ UNCHANGED <<item, next>>
      BY <2>2 DEF RequestStop, Finish, Gather, EndRoute, Resume, loopVars
    <3>2. QED
      BY <1>2, <3>1 DEF FrontInv, Untouched, Frontier, Chunk
  <2>3. CASE BeginRoute
    BY <1>2, <2>3 DEF BeginRoute, Untouched, Frontier
  <2>4. CASE StartChunk
    <3>1. /\ \A i \in Item : item'[i] =
               IF i \in Chunk THEN (IF Rested(i) THEN "skipped" ELSE Started(i)) ELSE item[i]
          /\ phase = "gathered" /\ phase' = "running" /\ next' = next
      BY <2>4 DEF StartChunk
    <3>2. Chunk' = Chunk /\ Frontier = next /\ Frontier' = next + BatchSize
      BY <1>2, <3>1 DEF Chunk, Frontier
    <3>3. \A i \in Item : Frontier' <= i => i \notin Chunk /\ Frontier <= i
      BY <1>2, <3>2 DEF Chunk
    <3>4. \A i \in Item : Frontier' <= i => item'[i] = "idle"
      BY <3>1, <3>3 DEF FrontInv, Untouched
    <3>5. \A i \in Chunk : i \in Item /\ item'[i] # "idle"
      BY <3>1 DEF Chunk, Started
    <3>6. QED
      BY <1>2, <3>2, <3>4, <3>5 DEF Untouched
  <2>5. CASE EndChunk
    <3>1. phase = "running" /\ phase' # "running" /\ next' = next + BatchSize /\ item' = item
      BY <2>5 DEF EndChunk
    <3>2. QED
      BY <1>2, <3>1 DEF FrontInv, Untouched, Frontier
  <2>6. ASSUME NEW i \in Item, ItemStep(i)
        PROVE  Untouched'
    <3>1. PICK y \in Answered \cup Final :
            /\ item' = [item EXCEPT ![i] = y] /\ item[i] \in Pending
            /\ UNCHANGED <<loopVars, stop>>
      BY <1>1, <2>6, ItemMoves
    <3>2. phase = "running" /\ i \in Chunk /\ y # "idle"
      BY <1>1, <3>1 DEF WhereItemsAre, Answered, Final
    <3>3. ~(Frontier <= i)
      BY <1>2, <3>2 DEF Frontier, Chunk
    <3>4. Frontier' = Frontier /\ Chunk' = Chunk /\ phase' = phase
      BY <1>2, <3>1 DEF Frontier, Chunk, loopVars
    <3>5. \A h \in Item : h # i => item'[h] = item[h]
      BY <1>1, <3>1 DEF TypeOK
    <3>6. item'[i] = y
      BY <1>1, <3>1 DEF TypeOK
    <3>7. \A h \in Chunk : h \in Item
      BY DEF Chunk
    <3>8. QED
      BY <1>2, <3>2, <3>3, <3>4, <3>5, <3>6, <3>7 DEF FrontInv, Untouched
  <2>7. QED
    BY <2>1, <2>2, <2>3, <2>4, <2>5, <2>6 DEF Next, LoopStep
<1>4. QED
  BY <1>1, <1>3 DEF FrontInv

LEMMA ItemSets ==
  ASSUME NEW S \in SUBSET Item
  PROVE  /\ IsFiniteSet(S) /\ Cardinality(S) \in Nat /\ Cardinality(S) <= N
         /\ \A T \in SUBSET S :
              /\ Cardinality(T) \in Nat /\ Cardinality(T) <= Cardinality(S)
              /\ T # S => Cardinality(T) < Cardinality(S)
<1>1. IsFiniteSet(Item) /\ Cardinality(Item) = N
  BY Sizes, FS_Interval DEF Item
<1>2. IsFiniteSet(S) /\ Cardinality(S) \in Nat /\ Cardinality(S) <= N
  BY <1>1, FS_Subset, FS_CardinalityType
<1>3. ASSUME NEW T \in SUBSET S
      PROVE  /\ Cardinality(T) \in Nat /\ Cardinality(T) <= Cardinality(S)
             /\ T # S => Cardinality(T) < Cardinality(S)
  BY <1>2, <1>3, FS_Subset, FS_CardinalityType
<1>4. QED
  BY <1>2, <1>3

LEMMA UntakenType ==
  ASSUME NEW n \in Nat
  PROVE  (IF n <= N THEN N + 1 - n ELSE 0) \in 0 .. N + 1
BY Sizes

LEMMA RemainingType ==
  ASSUME TypeOK
  PROVE  /\ RoutesLeft \in Nat /\ RouteSteps \in Nat /\ Untaken \in 0 .. N
         /\ PhaseRank[phase] \in 0 .. 5 /\ StopLeft \in 0 .. 1
         /\ Cardinality(Unanswered) \in 0 .. N /\ Cardinality(Unended) \in 0 .. N
         /\ Remaining \in Nat
<1>1. RouteSteps \in Nat /\ N \in Nat
  BY Sizes DEF RouteSteps
<1>2. RoutesLeft \in Nat
  <2>1. Routes - route \in Nat
    BY SizesAssumption DEF TypeOK
  <2>2. \A x, y \in Nat : x * y \in Nat
    OBVIOUS
  <2>3. QED
    BY <1>1, <2>1, <2>2 DEF RoutesLeft
<1>3. Untaken \in 0 .. N /\ StopLeft \in 0 .. 1 /\ PhaseRank[phase] \in 0 .. 5
  BY <1>1 DEF TypeOK, Untaken, StopLeft, PhaseRank, Phase
<1>4. Cardinality(Unanswered) \in 0 .. N /\ Cardinality(Unended) \in 0 .. N
  BY <1>1, ItemSets DEF Unanswered, Unended
<1>5. QED
  BY <1>1, <1>2, <1>3, <1>4 DEF Remaining

(* A step that leaves the items alone takes from the loop, or stops it.       *)
LEMMA LoopShortens ==
  ASSUME TypeOK, TypeOK', UNCHANGED <<item, route>>,
         5 * Untaken' + PhaseRank[phase]' + StopLeft' < 5 * Untaken + PhaseRank[phase] + StopLeft
  PROVE  Remaining' < Remaining
<1>1. /\ Unanswered' = Unanswered /\ Unended' = Unended /\ RoutesLeft' = RoutesLeft
  BY DEF Unanswered, Unended, RoutesLeft, RouteSteps, N, Item, Final
<1> DEFINE a == RoutesLeft
           b == Cardinality(Unanswered)
           c == Cardinality(Unended)
           x == 5 * Untaken + PhaseRank[phase] + StopLeft
<1>2. N' = N /\ N \in Nat
  BY Sizes DEF N
<1>3. a \in Nat /\ b \in Nat /\ c \in Nat
  BY <1>2, RemainingType
<1>4. Untaken \in Nat /\ PhaseRank[phase] \in Nat /\ StopLeft \in Nat
  BY <1>2, RemainingType
<1>5. Untaken' \in Nat /\ (PhaseRank[phase])' \in Nat /\ StopLeft' \in Nat
  <2>1. Untaken' \in Nat
    <3>1. next' \in Nat
      BY DEF TypeOK
    <3>2. QED
      BY <3>1, UntakenType DEF Untaken
  <2>2. (PhaseRank[phase])' \in Nat
    BY DEF TypeOK, PhaseRank, Phase
  <2>3. StopLeft' \in Nat
    BY DEF StopLeft
  <2>4. QED
    BY <2>1, <2>2, <2>3
<1>6. Remaining = a + b + c + x
  BY <1>3, <1>4 DEF Remaining
<1>7. Remaining' = a + b + c + x'
  BY <1>1, <1>3, <1>5 DEF Remaining
<1>8. x \in Nat /\ x' \in Nat /\ x' < x
  BY <1>4, <1>5
<1>9. QED
  BY <1>3, <1>6, <1>7, <1>8

(* A step that moves items on shortens what is left of them.                  *)
LEMMA ItemsShorten ==
  ASSUME TypeOK, TypeOK', UNCHANGED <<route, next, stop>>,
         Unanswered' \subseteq Unanswered, Unended' \subseteq Unended,
         \/ phase' = phase /\ (Unanswered' # Unanswered \/ Unended' # Unended)
         \/ phase = "gathered" /\ phase' = "running"
  PROVE  Remaining' < Remaining
<1>1. RoutesLeft' = RoutesLeft /\ Untaken' = Untaken /\ StopLeft' = StopLeft
  BY DEF RoutesLeft, RouteSteps, Untaken, StopLeft, N
<1> DEFINE a == RoutesLeft + 5 * Untaken + StopLeft
           p == PhaseRank[phase]
           b == Cardinality(Unanswered)
           c == Cardinality(Unended)
<1>2. N' = N /\ N \in Nat /\ Item' = Item
  BY Sizes DEF N, Item
<1>3. /\ RoutesLeft \in Nat /\ Untaken \in Nat /\ StopLeft \in Nat
      /\ p \in Nat /\ b \in Nat /\ c \in Nat
  BY <1>2, RemainingType
<1>4. p' \in Nat
  BY DEF TypeOK, PhaseRank, Phase
<1>5. Unanswered \in SUBSET Item /\ Unended \in SUBSET Item
  BY DEF Unanswered, Unended
<1>6. /\ b' \in Nat /\ b' <= b /\ (Unanswered' # Unanswered => b' < b)
      /\ c' \in Nat /\ c' <= c /\ (Unended' # Unended => c' < c)
  BY <1>5, ItemSets
<1>7. p' <= p /\ (phase' # phase => p' < p)
  BY DEF PhaseRank, TypeOK, Phase
<1>8. Remaining = a + p + b + c /\ Remaining' = a + p' + b' + c' /\ a \in Nat
  BY <1>1, <1>3, <1>4, <1>6 DEF Remaining
<1>9. p' + b' + c' < p + b + c
  <2>1. CASE phase' = phase
    BY <2>1, <1>3, <1>4, <1>6, <1>7
  <2>2. CASE phase' # phase
    BY <2>2, <1>3, <1>4, <1>6, <1>7
  <2>3. QED
    BY <2>1, <2>2
<1>10. QED
  BY <1>3, <1>4, <1>6, <1>8, <1>9

(* Another route costs more than it brings.                                 *)
LEMMA RouteShortens ==
  ASSUME TypeOK, TypeOK', BeginRoute
  PROVE  Remaining' < Remaining
<1> DEFINE b == Cardinality(Unanswered)
           c == Cardinality(Unended)
<1>1. N' = N /\ N \in Nat /\ RouteSteps' = RouteSteps /\ RouteSteps \in Nat /\ Item' = Item
  BY Sizes DEF N, RouteSteps, Item
<1>2. RoutesLeft' = RoutesLeft - RouteSteps
  <2>1. Routes \in Nat /\ route \in Nat /\ route' = route + 1
    BY SizesAssumption DEF BeginRoute, TypeOK
  <2>2. \A x, y, r \in Int : (x - (y + 1)) * r = (x - y) * r - r
    OBVIOUS
  <2>3. QED
    BY <1>1, <2>1, <2>2 DEF RoutesLeft
<1>3. /\ RoutesLeft \in Nat /\ Untaken \in Nat /\ StopLeft \in Nat /\ b \in Nat /\ c \in Nat
      /\ PhaseRank[phase] = 1 /\ (PhaseRank[phase])' = 4
  BY <1>1, RemainingType DEF BeginRoute, PhaseRank
<1>4. Untaken' \in 0 .. N /\ StopLeft' = StopLeft
  BY <1>1 DEF BeginRoute, Untaken, StopLeft
<1>5. b' \in 0 .. N /\ c' \in 0 .. N
  <2>1. Unanswered' \in SUBSET Item /\ Unended' \in SUBSET Item
    BY <1>1 DEF Unanswered, Unended
  <2>2. QED
    BY <1>1, <2>1, ItemSets
<1>6. Remaining = RoutesLeft + 5 * Untaken + 1 + b + c + StopLeft
  BY <1>3 DEF Remaining
<1>7. Remaining' = RoutesLeft - RouteSteps + 5 * Untaken' + 4 + b' + c' + StopLeft
  BY <1>2, <1>3, <1>4 DEF Remaining
<1>8. QED
  BY <1>1, <1>3, <1>4, <1>5, <1>6, <1>7 DEF RouteSteps

LEMMA StepShortens ==
  ASSUME FrontInv, FrontInv', Next
  PROVE  Remaining' < Remaining
<1>1. TypeOK /\ TypeOK' /\ WhereItemsAre /\ Untouched
  BY DEF FrontInv, CountsInv
<1>2. /\ next \in Nat \ {0} /\ BatchSize \in Nat \ {0} /\ N \in Nat /\ N' = N
      /\ Item \subseteq Nat /\ Item' = Item /\ Untaken \in Nat /\ StopLeft \in Nat
  <2>1. next \in Nat \ {0} /\ BatchSize \in Nat \ {0} /\ N \in Nat /\ Item \subseteq Nat
    BY <1>1, Sizes, SizesAssumption DEF TypeOK
  <2>2. N' = N /\ Item' = Item
    BY DEF Item, N
  <2>3. Untaken \in Nat /\ StopLeft \in Nat
    BY <1>1, <2>1, RemainingType
  <2>4. QED
    BY <2>1, <2>2, <2>3
<1>3. CASE RequestStop \/ Finish \/ Gather \/ EndRoute \/ Resume
  <2>1. UNCHANGED <<item, route, next>>
    BY <1>3 DEF RequestStop, Finish, Gather, EndRoute, Resume, loopVars
  <2>2. Untaken' = Untaken
    BY <1>2, <2>1 DEF Untaken
  <2>3. (PhaseRank[phase])' + StopLeft' < PhaseRank[phase] + StopLeft
    <3>1. CASE RequestStop
      <4>1. StopLeft = 1 /\ StopLeft' = 0 /\ phase' = phase
        BY <3>1 DEF RequestStop, StopLeft, loopVars
      <4>2. PhaseRank[phase] \in Nat
        BY <1>1, RemainingType
      <4>3. QED
        BY <4>1, <4>2
    <3>2. CASE Finish \/ Gather \/ EndRoute \/ Resume
      BY <1>2, <3>2 DEF Finish, Gather, EndRoute, Resume, PhaseRank, StopLeft
    <3>3. QED
      BY <1>3, <3>1, <3>2
  <2>4. PhaseRank[phase] \in Nat /\ (PhaseRank[phase])' \in Nat /\ StopLeft' \in Nat
    BY <1>1 DEF TypeOK, PhaseRank, Phase, StopLeft
  <2>5. QED
    BY <1>1, <1>2, <2>1, <2>2, <2>3, <2>4, LoopShortens
<1>4. CASE EndChunk
  <2>1. /\ UNCHANGED <<item, route, stop>> /\ next' = next + BatchSize
        /\ phase = "running" /\ phase' = IF next + BatchSize <= N THEN "pausing" ELSE "check"
    BY <1>4 DEF EndChunk
  <2>2. next <= N
    BY <1>1, <2>1 DEF WhereItemsAre
  <2>3. StopLeft' = StopLeft /\ PhaseRank[phase] = 2
    BY <2>1 DEF StopLeft, PhaseRank
  <2>4. CASE next + BatchSize <= N
    <3>1. Untaken' <= Untaken - 1 /\ Untaken' \in Nat
      BY <1>2, <2>1, <2>2, <2>4 DEF Untaken
    <3>2. (PhaseRank[phase])' = 5
      BY <2>1, <2>4 DEF PhaseRank
    <3>3. 5 * Untaken' + (PhaseRank[phase])' + StopLeft' < 5 * Untaken + PhaseRank[phase] + StopLeft
      <4>1. \A u, v, w \in Nat : v <= u - 1 => 5 * v + 5 + w < 5 * u + 2 + w
        OBVIOUS
      <4>2. QED
        BY ONLY <1>2, <2>3, <3>1, <3>2, <4>1
    <3>4. QED
      BY <1>1, <2>1, <3>3, LoopShortens
  <2>5. CASE ~(next + BatchSize <= N)
    <3>1. Untaken' <= Untaken - 1 /\ Untaken' \in Nat
      BY <1>2, <2>1, <2>2, <2>5 DEF Untaken
    <3>2. (PhaseRank[phase])' = 4
      BY <2>1, <2>5 DEF PhaseRank
    <3>3. 5 * Untaken' + (PhaseRank[phase])' + StopLeft' < 5 * Untaken + PhaseRank[phase] + StopLeft
      <4>1. \A u, v, w \in Nat : v <= u - 1 => 5 * v + 4 + w < 5 * u + 2 + w
        OBVIOUS
      <4>2. QED
        BY ONLY <1>2, <2>3, <3>1, <3>2, <4>1
    <3>4. QED
      BY <1>1, <2>1, <3>3, LoopShortens
  <2>6. QED
    BY <2>4, <2>5
<1>5. CASE StartChunk
  <2>1. /\ UNCHANGED <<route, next, stop>> /\ phase = "gathered" /\ phase' = "running"
        /\ \A i \in Item : item'[i] =
             IF i \in Chunk THEN (IF Rested(i) THEN "skipped" ELSE Started(i)) ELSE item[i]
    BY <1>5 DEF StartChunk
  <2>2. \A i \in Chunk : i \in Item /\ item[i] = "idle"
    BY <1>1, <1>2, <2>1 DEF Untouched, Frontier, Chunk
  <2>3. Unanswered' \subseteq Unanswered /\ Unended' \subseteq Unended
    BY <1>2, <2>1, <2>2 DEF Unanswered, Unended, Final
  <2>4. QED
    BY <1>1, <2>1, <2>3, ItemsShorten
<1>6. CASE BeginRoute
  BY <1>1, <1>6, RouteShortens
<1>7. ASSUME NEW i \in Item, ItemStep(i)
      PROVE  Remaining' < Remaining
  <2>1. PICK y \in Answered \cup Final :
          /\ item' = [item EXCEPT ![i] = y]
          /\ item[i] \in Pending
          /\ item[i] = "searching" \/ y \in Final
          /\ UNCHANGED <<loopVars, stop>>
    BY <1>1, <1>7, ItemMoves
  <2>2. UNCHANGED <<route, next, stop, phase>>
    BY <2>1 DEF loopVars
  <2>3. item'[i] = y /\ \A h \in Item : h # i => item'[h] = item[h]
    BY <1>1, <2>1 DEF TypeOK
  <2>4. Unanswered' \subseteq Unanswered /\ Unended' \subseteq Unended
    BY <1>2, <2>1, <2>3 DEF Unanswered, Unended, Pending, Answered, Final
  <2>5. Unanswered' # Unanswered \/ Unended' # Unended
    <3>1. CASE item[i] = "searching"
      <4>1. i \in Unanswered /\ i \notin Unanswered'
        BY <1>2, <2>3, <3>1 DEF Unanswered, Answered, Final
      <4>2. QED
        BY <4>1
    <3>2. CASE item[i] # "searching"
      <4>1. i \in Unended /\ i \notin Unended'
        BY <1>2, <2>1, <2>3, <3>2 DEF Unended, Pending, Answered, Final
      <4>2. QED
        BY <4>1
    <3>3. QED
      BY <3>1, <3>2
  <2>6. QED
    BY <1>1, <2>2, <2>4, <2>5, ItemsShorten
<1>8. QED
  BY <1>3, <1>4, <1>5, <1>6, <1>7 DEF Next, LoopStep

(* The variant is a number, and every step takes from it.                     *)
RemainingBounded == Remaining \in Nat
RemainingDecreases == [][Remaining' < Remaining]_vars

(* While a chunk is under way, all its items have ended or one can move on.   *)
ChunkProceeds ==
  phase = "running" =>
    (\A i \in Chunk : item[i] \in Final) \/ (\E i \in Chunk : item[i] \in Pending)

(* A collection cannot go round in circles: whatever the searches answer, and *)
(* whether a stop comes or not, each step of its loops and of its items       *)
(* brings it nearer to its end, so that it takes finitely many of them.       *)
THEOREM RemainingDecreasesHolds == Spec => []RemainingBounded /\ RemainingDecreases
<1>1. FrontInv => RemainingBounded
  BY RemainingType DEF FrontInv, CountsInv, RemainingBounded
<1>2. FrontInv /\ FrontInv' /\ [Next]_vars => [Remaining' < Remaining]_vars
  BY StepShortens
<1>3. QED
  BY <1>1, <1>2, FrontInitially, FrontStep, PTL DEF Spec, RemainingDecreases

(* A chunk never waits for an item that nothing moves: each that was gathered *)
(* is searched, waits for the poll, or has ended, and none was left behind.   *)
THEOREM ChunkProceedsHolds == Spec => []ChunkProceeds
<1>1. FrontInv => ChunkProceeds
  <2> SUFFICES ASSUME FrontInv, phase = "running"
               PROVE  \A i \in Chunk : item[i] \in Final \cup Pending
    BY DEF ChunkProceeds
  <2>1. \A i \in Chunk : item[i] \in ItemState /\ item[i] # "idle"
    BY DEF FrontInv, CountsInv, TypeOK, Untouched, Chunk
  <2>2. QED
    BY <2>1 DEF ItemState, Pending
<1>2. QED
  BY <1>1, FrontInitially, FrontStep, PTL DEF Spec

================================================================================
