------------------------- MODULE FilterRace_proofs -------------------------
(***************************************************************************)
(* The loads and stores of any set of worker cores and of tune_filter      *)
(* implement the atomic operations of Filter.tla until two operations on   *)
(* the threshold or on the count overlap, for all bounds, steps and        *)
(* speeds.                                                                 *)
(***************************************************************************)
EXTENDS FilterRace, TLAPS

TimeLabels == Tuning \cup Doubling
Labels == {"poll", "enqueue_store", "double"} \cup TimeLabels
CLabels == {"idle", "load_min", "store_min", "delta", "speed",
            "clamp_time", "time_max", "clamp_min", "min_max"}
Raising == {"raise", "raise_store", "raise_clamp", "raise_max"}
Lowering == {"lower", "lower_load", "lower_store", "lower_min"}
Unclamped == {"raise_clamp", "raise_max", "double_clamp", "double_max"}

(* A rate some number of windows may have given for n connections.          *)
Overload(n) == \E e \in 1 .. MaxElapsed : n \div e > speed
Quiet(n) == \E e \in 1 .. MaxElapsed : ~(n \div e > speed)

(* What a completed tuning makes of threshold t.                            *)
Up(t) == IF t + delta > MaxTime THEN MaxTime ELSE t + delta
Down(t) == IF t > timeMin + delta THEN t - delta ELSE timeMin

TypeOK ==
  /\ time \in Nat /\ timeMin \in Nat /\ delta \in Deltas /\ speed \in Speeds
  /\ enqueued \in Nat /\ expired \in BOOLEAN
  /\ pc \in [Workers -> Labels]
  /\ reg \in [Workers -> Nat] /\ seen \in [Workers -> Nat]
  /\ hwCongested \in [Workers -> BOOLEAN]
  /\ cpc \in CLabels /\ creg \in Nat

(* What a worker has in its hands, at each place of its functions.          *)
Threshold(w) ==
  /\ pc[w] \in TimeLabels \ Unclamped => time <= MaxTime
  /\ pc[w] \in {"raise_store", "double_store", "lower_load", "lower_store", "lower_min"} =>
       reg[w] = time
  /\ pc[w] \in {"raise_clamp", "raise_max"} => time = reg[w] + delta
  /\ pc[w] \in {"double_clamp", "double_max"} => time = 2 * reg[w]
  /\ pc[w] \in {"raise_max", "double_max"} => time > MaxTime
  /\ pc[w] \in {"lower_load", "lower_store"} => reg[w] > timeMin + delta
  /\ pc[w] = "lower_min" => ~(reg[w] > timeMin + delta)

Counts(w) ==
  /\ pc[w] \in Tuning => expired /\ speed # 0
  /\ pc[w] = "reset_start" => enqueued = 0
  /\ pc[w] = "enqueue_store" => seen[w] = enqueued /\ enqueued < MaxEnqueued
  /\ pc[w] \in {"double"} \cup Doubling => hwCongested[w]

Decision(w) ==
  /\ pc[w] \in Raising => Overload(seen[w])
  /\ pc[w] \in Lowering => Quiet(seen[w])
  /\ pc[w] \in {"reset_count", "reset_start"} =>
       \/ Overload(seen[w]) /\ time = Up(reg[w])
       \/ Quiet(seen[w]) /\ time = Down(reg[w])

CoreInv(w) == Threshold(w) /\ Counts(w) /\ Decision(w)

(* What the attributes are when nobody is in the middle of storing them.    *)
Settled ==
  /\ cpc \in {"idle", "clamp_min", "min_max"} /\ (\A w \in Workers : ~TimeBusy(w)) =>
       time <= MaxTime
  /\ cpc \in {"idle", "load_min", "store_min"} => timeMin <= MaxTime
  /\ cpc = "store_min" => creg = time
  /\ cpc = "time_max" => time > MaxTime
  /\ cpc = "min_max" => timeMin > MaxTime

Orderly == ~Clash /\ Settled /\ \A w \in Workers : CoreInv(w)

RaceInv == TypeOK /\ raced \in BOOLEAN /\ (~raced => Orderly)

(* Arithmetic modulo Word changes nothing that fits into a word.            *)
LEMMA Fits ==
  ASSUME NEW m \in Nat, NEW x \in Nat, x < m
  PROVE  x % m = x
  OBVIOUS

(* Arithmetic modulo Word gives a word.                                     *)
LEMMA Wraps ==
  ASSUME NEW x \in Int
  PROVE  x % Word \in Nat
<1>1. Word \in Nat /\ Word > 0
  BY FilterRaceAssumption
<1> QED
  BY <1>1

(* The bounds of the constants the arithmetic rests on.                     *)
LEMMA Sizes ==
  ASSUME TypeOK
  PROVE  /\ MaxTime \in Nat /\ Word \in Nat /\ 2 * MaxTime < Word
         /\ delta \in Nat /\ speed \in Nat /\ MaxTime + delta < Word
  BY FilterRaceAssumption DEF TypeOK

-----------------------------------------------------------------------------
(* The program starts with the configured threshold and nothing under way.  *)
LEMMA RaceInit == Init => RaceInv
<1> SUFFICES ASSUME Init PROVE RaceInv
  OBVIOUS
<1> USE FilterRaceAssumption
<1>1. \A w \in Workers : pc[w] = "poll"
  BY DEF Init
<1>2. /\ time \in Nat /\ timeMin \in Nat /\ time <= MaxTime /\ timeMin <= MaxTime
      /\ cpc = "idle" /\ raced = FALSE
  BY DEF Init
<1>3. TypeOK
  <2>1. pc \in [Workers -> Labels] /\ hwCongested \in [Workers -> BOOLEAN]
    BY DEF Init, Labels
  <2>2. reg \in [Workers -> Nat] /\ seen \in [Workers -> Nat]
    BY DEF Init
  <2>3. /\ delta \in Deltas /\ speed \in Speeds /\ enqueued \in Nat
        /\ expired \in BOOLEAN /\ creg \in Nat
    BY DEF Init
  <2> QED
    BY <1>2, <2>1, <2>2, <2>3 DEF TypeOK, CLabels
<1>4. \A w \in Workers : ~TimeBusy(w) /\ ~CountBusy(w)
  BY <1>1 DEF TimeBusy, CountBusy, Tuning, Doubling
<1>5. ~Clash
  BY <1>2, <1>4 DEF Clash
<1>6. Settled
  BY <1>2 DEF Settled
<1>7. \A w \in Workers : CoreInv(w)
  BY <1>1 DEF CoreInv, Threshold, Counts, Decision, TimeLabels, Raising, Lowering,
     Tuning, Doubling
<1> QED
  BY <1>2, <1>3, <1>5, <1>6, <1>7 DEF RaceInv, Orderly

-----------------------------------------------------------------------------
(* A worker goes from one place to another; the others stay.                *)
LEMMA GotoLabel ==
  ASSUME NEW w \in Workers, TypeOK, NEW from, NEW to \in Labels, Goto(w, from, to)
  PROVE  /\ pc[w] = from /\ pc'[w] = to /\ pc' \in [Workers -> Labels]
         /\ \A v \in Workers \ {w} : pc'[v] = pc[v]
  BY DEF Goto, TypeOK

(* Every access of a worker keeps the types.                                *)
LEMMA TypeWorker ==
  ASSUME NEW w \in Workers, TypeOK, Worker(w), UNCHANGED settings
  PROVE  TypeOK'
<1> USE DEF Labels, TimeLabels, Tuning, Doubling
<1>1. /\ timeMin' \in Nat /\ delta' \in Deltas /\ speed' \in Speeds
      /\ cpc' \in CLabels /\ creg' \in Nat
  BY DEF settings, TypeOK
<1> DEFINE Rest == /\ time' \in Nat /\ enqueued' \in Nat /\ expired' \in BOOLEAN
                   /\ pc' \in [Workers -> Labels]
                   /\ reg' \in [Workers -> Nat] /\ seen' \in [Workers -> Nat]
                   /\ hwCongested' \in [Workers -> BOOLEAN]
<1> SUFFICES Rest
  BY <1>1 DEF TypeOK
<1>a. MaxTime \in Nat /\ delta \in Nat
  BY Sizes
<1>2. ASSUME NEW e \in 1 .. MaxElapsed, TuneBegin(w, e) PROVE Rest
  <2>1. pc' \in [Workers -> Labels]
    BY <1>2 DEF TuneBegin, Goto, TypeOK
  <2> QED
    BY <1>2, <2>1 DEF TuneBegin, TypeOK
<1>3. CASE RaiseLoad(w)
  <2>1. pc' \in [Workers -> Labels]
    BY <1>3 DEF RaiseLoad, Goto, TypeOK
  <2> QED
    BY <1>3, <2>1 DEF RaiseLoad, TypeOK
<1>4. CASE RaiseStore(w)
  <2>1. pc' \in [Workers -> Labels]
    BY <1>4 DEF RaiseStore, Goto, TypeOK
  <2>2. reg[w] + delta \in Int
    BY <1>a DEF TypeOK
  <2>3. time' \in Nat
    BY <1>4, <2>2, Wraps DEF RaiseStore
  <2> QED
    BY <1>4, <2>1, <2>3 DEF RaiseStore, TypeOK
<1>5. ASSUME NEW from, NEW atMax \in Labels, NEW done \in Labels,
             ClampTest(w, from, atMax, done)
      PROVE  Rest
  <2>1. pc' \in [Workers -> Labels]
    BY <1>5 DEF ClampTest, Goto, TypeOK
  <2> QED
    BY <1>5, <2>1 DEF ClampTest, TypeOK
<1>6. ASSUME NEW from, NEW done \in Labels, ClampStore(w, from, done)
      PROVE  Rest
  <2>1. pc' \in [Workers -> Labels]
    BY <1>6 DEF ClampStore, Goto, TypeOK
  <2> QED
    BY <1>6, <1>a, <2>1 DEF ClampStore, TypeOK
<1>7. CASE LowerTest(w)
  <2>1. pc' \in [Workers -> Labels]
    BY <1>7 DEF LowerTest, Goto, TypeOK
  <2> QED
    BY <1>7, <2>1 DEF LowerTest, TypeOK
<1>8. CASE LowerLoad(w)
  <2>1. pc' \in [Workers -> Labels]
    BY <1>8 DEF LowerLoad, Goto, TypeOK
  <2> QED
    BY <1>8, <2>1 DEF LowerLoad, TypeOK
<1>9. CASE LowerStore(w)
  <2>1. pc' \in [Workers -> Labels]
    BY <1>9 DEF LowerStore, Goto, TypeOK
  <2>2. reg[w] - delta \in Int
    BY <1>a DEF TypeOK
  <2>3. time' \in Nat
    BY <1>9, <2>2, Wraps DEF LowerStore
  <2> QED
    BY <1>9, <2>1, <2>3 DEF LowerStore, TypeOK
<1>10. CASE LowerMin(w)
  <2>1. pc' \in [Workers -> Labels]
    BY <1>10 DEF LowerMin, Goto, TypeOK
  <2> QED
    BY <1>10, <2>1 DEF LowerMin, TypeOK
<1>11. CASE ResetCount(w)
  <2>1. pc' \in [Workers -> Labels]
    BY <1>11 DEF ResetCount, Goto, TypeOK
  <2> QED
    BY <1>11, <2>1 DEF ResetCount, TypeOK
<1>12. CASE ResetStart(w)
  <2>1. pc' \in [Workers -> Labels]
    BY <1>12 DEF ResetStart, Goto, TypeOK
  <2> QED
    BY <1>12, <2>1 DEF ResetStart, TypeOK
<1>13. CASE EnqueueLoad(w)
  <2>1. pc' \in [Workers -> Labels]
    BY <1>13 DEF EnqueueLoad, Goto, TypeOK
  <2> QED
    BY <1>13, <2>1 DEF EnqueueLoad, TypeOK
<1>14. CASE EnqueueStore(w)
  <2>1. pc' \in [Workers -> Labels]
    BY <1>14 DEF EnqueueStore, Goto, TypeOK
  <2> QED
    BY <1>14, <2>1 DEF EnqueueStore, TypeOK
<1>15. CASE CongestionBegin(w)
  <2>1. pc' \in [Workers -> Labels]
    BY <1>15 DEF CongestionBegin, Goto, TypeOK
  <2> QED
    BY <1>15, <2>1 DEF CongestionBegin, TypeOK
<1>16. CASE DoubleLoad(w)
  <2>1. pc' \in [Workers -> Labels]
    BY <1>16 DEF DoubleLoad, Goto, TypeOK
  <2> QED
    BY <1>16, <2>1 DEF DoubleLoad, TypeOK
<1>17. CASE DoubleStore(w)
  <2>1. pc' \in [Workers -> Labels]
    BY <1>17 DEF DoubleStore, Goto, TypeOK
  <2>2. 2 * reg[w] \in Int
    BY DEF TypeOK
  <2>3. time' \in Nat
    BY <1>17, <2>2, Wraps DEF DoubleStore
  <2> QED
    BY <1>17, <2>1, <2>3 DEF DoubleStore, TypeOK
<1>20. CASE Relief(w)
  BY <1>20 DEF Relief, TypeOK
<1> QED
  BY <1>2, <1>3, <1>4, <1>5, <1>6, <1>7, <1>8, <1>9, <1>10, <1>11, <1>12, <1>13,
     <1>14, <1>15, <1>16, <1>17, <1>20 DEF Worker

(* So does every access of tune_filter.                                     *)
LEMMA TypeTune ==
  ASSUME TypeOK, TuneFilter, UNCHANGED cores
  PROVE  TypeOK'
<1> USE DEF TypeOK, CLabels, cores
<1>a. MaxTime \in Nat
  BY Sizes
<1>1. ASSUME NEW t \in Thresholds, SetTime(t) PROVE TypeOK'
  BY <1>1, FilterRaceAssumption DEF SetTime, CGoto
<1>2. CASE KeepTime
  BY <1>2 DEF KeepTime, CGoto
<1>3. CASE LoadMin
  BY <1>3 DEF LoadMin, CGoto
<1>4. CASE StoreMin
  BY <1>4 DEF StoreMin, CGoto
<1>5. ASSUME NEW d \in Deltas, SetDelta(d) PROVE TypeOK'
  BY <1>5 DEF SetDelta, CGoto
<1>6. ASSUME NEW v \in Speeds, SetSpeed(v) PROVE TypeOK'
  BY <1>6 DEF SetSpeed, CGoto
<1>7. CASE ClampTime
  BY <1>7 DEF ClampTime, CGoto
<1>8. CASE TimeToMax
  BY <1>8, <1>a DEF TimeToMax, CGoto
<1>9. CASE ClampMin
  BY <1>9 DEF ClampMin, CGoto
<1>10. CASE MinToMax
  BY <1>10, <1>a DEF MinToMax, CGoto
<1> QED
  BY <1>1, <1>2, <1>3, <1>4, <1>5, <1>6, <1>7, <1>8, <1>9, <1>10 DEF TuneFilter

-----------------------------------------------------------------------------
(* The worker that makes an access still has in its hands what it needs,    *)
(* when the threshold was within its bounds as its operation began.         *)
LEMMA OwnStep ==
  ASSUME NEW w \in Workers, TypeOK, Worker(w), UNCHANGED settings, CoreInv(w),
         TimeBusy(w) => timeMin <= MaxTime,
         ~TimeBusy(w) /\ TimeBusy(w)' => time <= MaxTime
  PROVE  CoreInv(w)' /\ (TimeBusy(w) /\ ~TimeBusy(w)' => time' <= MaxTime)
<1> USE DEF Labels, TimeLabels, Tuning, Doubling, Raising, Lowering, Unclamped, TimeBusy
<1> DEFINE Goal == CoreInv(w)' /\ (TimeBusy(w) /\ ~TimeBusy(w)' => time' <= MaxTime)
<1> SUFFICES Goal
  OBVIOUS
<1>a. /\ MaxTime \in Nat /\ Word \in Nat /\ 2 * MaxTime < Word
      /\ delta \in Nat /\ speed \in Nat /\ MaxTime + delta < Word
  BY Sizes
<1>b. timeMin' = timeMin /\ delta' = delta /\ speed' = speed
  BY DEF settings
<1>2. ASSUME NEW e \in 1 .. MaxElapsed, TuneBegin(w, e) PROVE Goal
  BY <1>2, <1>a, <1>b DEF TuneBegin, Goto, Overload, Quiet, CoreInv, Threshold, Counts, Decision, TypeOK
<1>3. CASE RaiseLoad(w)
  BY <1>3, <1>a, <1>b DEF RaiseLoad, Goto, Up, Down, Overload, Quiet, CoreInv, Threshold,
     Counts, Decision, TypeOK
<1>4. CASE RaiseStore(w)
  <2> DEFINE x == reg[w] + delta
  <2>1. x \in Nat /\ x < Word
    BY <1>4, <1>a DEF RaiseStore, Goto, CoreInv, Threshold, TypeOK
  <2>2. x % Word = x
    <3> HIDE DEF x
    <3> QED BY <2>1, <1>a, Fits
  <2> QED
    BY <1>4, <1>a, <1>b, <2>2 DEF RaiseStore, Goto, Up, Down, Overload, Quiet, CoreInv, Threshold,
       Counts, Decision, TypeOK
<1>5. CASE ClampTest(w, "raise_clamp", "raise_max", "reset_count")
  BY <1>5, <1>a, <1>b DEF ClampTest, Goto, Up, Down, Overload, Quiet, CoreInv, Threshold,
     Counts, Decision, TypeOK
<1>6. CASE ClampStore(w, "raise_max", "reset_count")
  BY <1>6, <1>a, <1>b DEF ClampStore, Goto, Up, Down, Overload, Quiet, CoreInv, Threshold,
     Counts, Decision, TypeOK
<1>7. CASE LowerTest(w)
  <2> DEFINE x == timeMin + delta
  <2>1. x \in Nat /\ x < Word
    BY <1>7, <1>a DEF LowerTest, Goto, CoreInv, Threshold, TypeOK
  <2>2. x % Word = x
    <3> HIDE DEF x
    <3> QED BY <2>1, <1>a, Fits
  <2> QED
    BY <1>7, <1>a, <1>b, <2>2 DEF LowerTest, Goto, Up, Down, Overload, Quiet, CoreInv, Threshold,
       Counts, Decision, TypeOK
<1>8. CASE LowerLoad(w)
  BY <1>8, <1>a, <1>b DEF LowerLoad, Goto, Up, Down, Overload, Quiet, CoreInv, Threshold,
     Counts, Decision, TypeOK
<1>9. CASE LowerStore(w)
  <2> DEFINE x == reg[w] - delta
  <2>1. x \in Nat /\ x < Word
    BY <1>9, <1>a DEF LowerStore, Goto, CoreInv, Threshold, TypeOK
  <2>2. x % Word = x
    <3> HIDE DEF x
    <3> QED BY <2>1, <1>a, Fits
  <2> QED
    BY <1>9, <1>a, <1>b, <2>2 DEF LowerStore, Goto, Up, Down, Overload, Quiet, CoreInv, Threshold,
       Counts, Decision, TypeOK
<1>10. CASE LowerMin(w)
  BY <1>10, <1>a, <1>b DEF LowerMin, Goto, Up, Down, Overload, Quiet, CoreInv, Threshold,
     Counts, Decision, TypeOK
<1>11. CASE ResetCount(w)
  BY <1>11, <1>a, <1>b DEF ResetCount, Goto, Up, Down, Overload, Quiet, CoreInv, Threshold,
     Counts, Decision, TypeOK
<1>12. CASE ResetStart(w)
  BY <1>12, <1>a, <1>b DEF ResetStart, Goto, Up, Down, Overload, Quiet, CoreInv, Threshold,
     Counts, Decision, TypeOK
<1>13. CASE EnqueueLoad(w)
  BY <1>13, <1>a, <1>b DEF EnqueueLoad, Goto, Up, Down, Overload, Quiet, CoreInv, Threshold,
     Counts, Decision, TypeOK
<1>14. CASE EnqueueStore(w)
  BY <1>14, <1>a, <1>b DEF EnqueueStore, Goto, Up, Down, Overload, Quiet, CoreInv, Threshold,
     Counts, Decision, TypeOK
<1>15. CASE CongestionBegin(w)
  BY <1>15, <1>a, <1>b DEF CongestionBegin, Goto, Up, Down, Overload, Quiet, CoreInv, Threshold,
     Counts, Decision, TypeOK
<1>16. CASE DoubleLoad(w)
  BY <1>16, <1>a, <1>b DEF DoubleLoad, Goto, Up, Down, Overload, Quiet, CoreInv, Threshold,
     Counts, Decision, TypeOK
<1>17. CASE DoubleStore(w)
  <2> DEFINE x == 2 * reg[w]
  <2>1. x \in Nat /\ x < Word
    BY <1>17, <1>a DEF DoubleStore, Goto, CoreInv, Threshold, TypeOK
  <2>2. x % Word = x
    <3> HIDE DEF x
    <3> QED BY <2>1, <1>a, Fits
  <2> QED
    BY <1>17, <1>a, <1>b, <2>2 DEF DoubleStore, Goto, Up, Down, Overload, Quiet, CoreInv, Threshold,
       Counts, Decision, TypeOK
<1>18. CASE ClampTest(w, "double_clamp", "double_max", "poll")
  BY <1>18, <1>a, <1>b DEF ClampTest, Goto, Up, Down, Overload, Quiet, CoreInv, Threshold,
     Counts, Decision, TypeOK
<1>19. CASE ClampStore(w, "double_max", "poll")
  BY <1>19, <1>a, <1>b DEF ClampStore, Goto, Up, Down, Overload, Quiet, CoreInv, Threshold,
     Counts, Decision, TypeOK
<1>20. CASE Relief(w)
  BY <1>20, <1>a, <1>b DEF Relief, Goto, Up, Down, Overload, Quiet, CoreInv, Threshold,
     Counts, Decision, TypeOK
<1> QED
  BY <1>2, <1>3, <1>4, <1>5, <1>6, <1>7, <1>8, <1>9, <1>10, <1>11, <1>12, <1>13,
     <1>14, <1>15, <1>16, <1>17, <1>18, <1>19, <1>20 DEF Worker

-----------------------------------------------------------------------------
(* What a worker leaves alone: the others' registers and flags always, the  *)
(* threshold and the window outside its tunings and doublings, the count    *)
(* outside its tunings and countings.                                       *)
LEMMA WorkerFrame ==
  ASSUME NEW w \in Workers, TypeOK, Worker(w)
  PROVE  /\ \A v \in Workers \ {w} :
              /\ pc'[v] = pc[v] /\ reg'[v] = reg[v] /\ seen'[v] = seen[v]
              /\ hwCongested'[v] = hwCongested[v]
         /\ ~TimeBusy(w) /\ ~TimeBusy(w)' => time' = time /\ expired' = expired
         /\ ~CountBusy(w) /\ ~CountBusy(w)' => enqueued' = enqueued
<1> USE DEF Labels, TimeLabels, Tuning, Doubling, TimeBusy, CountBusy
<1> DEFINE Goal == /\ \A v \in Workers \ {w} :
                        /\ pc'[v] = pc[v] /\ reg'[v] = reg[v] /\ seen'[v] = seen[v]
                        /\ hwCongested'[v] = hwCongested[v]
                   /\ ~TimeBusy(w) /\ ~TimeBusy(w)' => time' = time /\ expired' = expired
                   /\ ~CountBusy(w) /\ ~CountBusy(w)' => enqueued' = enqueued
<1> SUFFICES Goal
  OBVIOUS
<1>2. ASSUME NEW e \in 1 .. MaxElapsed, TuneBegin(w, e) PROVE Goal
  BY <1>2 DEF TuneBegin, Goto, TypeOK
<1>3. CASE RaiseLoad(w)
  BY <1>3 DEF RaiseLoad, Goto, TypeOK
<1>4. CASE RaiseStore(w)
  BY <1>4 DEF RaiseStore, Goto, TypeOK
<1>5. CASE LowerTest(w)
  BY <1>5 DEF LowerTest, Goto, TypeOK
<1>6. CASE LowerLoad(w)
  BY <1>6 DEF LowerLoad, Goto, TypeOK
<1>7. CASE LowerStore(w)
  BY <1>7 DEF LowerStore, Goto, TypeOK
<1>8. CASE LowerMin(w)
  BY <1>8 DEF LowerMin, Goto, TypeOK
<1>9. CASE ResetCount(w)
  BY <1>9 DEF ResetCount, Goto, TypeOK
<1>10. CASE ResetStart(w)
  BY <1>10 DEF ResetStart, Goto, TypeOK
<1>11. CASE EnqueueLoad(w)
  BY <1>11 DEF EnqueueLoad, Goto, TypeOK
<1>12. CASE EnqueueStore(w)
  BY <1>12 DEF EnqueueStore, Goto, TypeOK
<1>13. CASE CongestionBegin(w)
  BY <1>13 DEF CongestionBegin, Goto, TypeOK
<1>14. CASE DoubleLoad(w)
  BY <1>14 DEF DoubleLoad, Goto, TypeOK
<1>15. CASE DoubleStore(w)
  BY <1>15 DEF DoubleStore, Goto, TypeOK
<1>16. CASE Relief(w)
  BY <1>16 DEF Relief, Goto, TypeOK
<1>17. CASE ClampTest(w, "raise_clamp", "raise_max", "reset_count")
  BY <1>17 DEF ClampTest, Goto, TypeOK
<1>18. CASE ClampStore(w, "raise_max", "reset_count")
  BY <1>18 DEF ClampStore, Goto, TypeOK
<1>19. CASE ClampTest(w, "double_clamp", "double_max", "poll")
  BY <1>19 DEF ClampTest, Goto, TypeOK
<1>20. CASE ClampStore(w, "double_max", "poll")
  BY <1>20 DEF ClampStore, Goto, TypeOK
<1> QED
  BY <1>2, <1>3, <1>4, <1>5, <1>6, <1>7, <1>8, <1>9, <1>10, <1>11, <1>12, <1>13,
     <1>14, <1>15, <1>16, <1>17, <1>18, <1>19, <1>20 DEF Worker

(* While operations do not overlap, a worker's access takes nothing from    *)
(* what another has in its hands.                                           *)
LEMMA OtherStep ==
  ASSUME NEW v \in Workers, NEW w \in Workers, v # w, TypeOK,
         Worker(w), UNCHANGED settings, ~Clash, ~Clash', CoreInv(v)
  PROVE  CoreInv(v)'
<1>1. /\ pc'[v] = pc[v] /\ reg'[v] = reg[v] /\ seen'[v] = seen[v]
      /\ hwCongested'[v] = hwCongested[v]
  BY WorkerFrame
<1>2. timeMin' = timeMin /\ delta' = delta /\ speed' = speed
  BY DEF settings
<1>3. pc[v] \in TimeLabels => time' = time /\ expired' = expired
  <2> SUFFICES ASSUME TimeBusy(v) PROVE time' = time /\ expired' = expired
    BY DEF TimeBusy, TimeLabels
  <2>1. TimeBusy(v)'
    BY <1>1 DEF TimeBusy
  <2>2. ~TimeBusy(w) /\ ~TimeBusy(w)'
    BY <2>1 DEF Clash
  <2> QED
    BY <2>2, WorkerFrame
<1>4. pc[v] \in Tuning \cup {"enqueue_store"} => enqueued' = enqueued
  <2> SUFFICES ASSUME CountBusy(v) PROVE enqueued' = enqueued
    BY DEF CountBusy
  <2>1. CountBusy(v)'
    BY <1>1 DEF CountBusy
  <2>2. ~CountBusy(w) /\ ~CountBusy(w)'
    BY <2>1 DEF Clash
  <2> QED
    BY <2>2, WorkerFrame
<1>5. Threshold(v)'
  BY <1>1, <1>2, <1>3 DEF CoreInv, Threshold, TimeLabels, Tuning, Doubling
<1>6. Counts(v)'
  BY <1>1, <1>2, <1>3, <1>4 DEF CoreInv, Counts, TimeLabels, Tuning, Doubling
<1>7. Decision(v)'
  <2>1. /\ Overload(seen[v])' = Overload(seen[v]) /\ Quiet(seen[v])' = Quiet(seen[v])
        /\ Up(reg[v])' = Up(reg[v]) /\ Down(reg[v])' = Down(reg[v])
    BY <1>1, <1>2 DEF Overload, Quiet, Up, Down
  <2> QED
    BY <1>1, <1>3, <2>1 DEF CoreInv, Decision, TimeLabels, Tuning, Doubling, Raising, Lowering
<1> QED
  BY <1>5, <1>6, <1>7 DEF CoreInv

(* An access of a worker, as long as operations do not overlap.             *)
LEMMA WorkerStep ==
  ASSUME NEW w \in Workers, TypeOK, Orderly, Worker(w), UNCHANGED settings, ~Clash'
  PROVE  Settled' /\ \A v \in Workers : CoreInv(v)'
<1>1. cpc' = cpc /\ creg' = creg /\ timeMin' = timeMin
  BY DEF settings
<1>2. TimeBusy(w) \/ TimeBusy(w)' => cpc = "idle"
  BY <1>1 DEF Orderly, Clash
<1>3. TimeBusy(w) => timeMin <= MaxTime
  BY <1>2 DEF Orderly, Settled
<1>4. \A v \in Workers \ {w} : TimeBusy(v)' = TimeBusy(v)
  <2>1. \A v \in Workers \ {w} : pc'[v] = pc[v]
    BY WorkerFrame
  <2> QED
    BY <2>1 DEF TimeBusy
<1>5. ~TimeBusy(w) /\ TimeBusy(w)' => time <= MaxTime
  <2> SUFFICES ASSUME ~TimeBusy(w), TimeBusy(w)' PROVE time <= MaxTime
    OBVIOUS
  <2>1. \A v \in Workers \ {w} : ~TimeBusy(v)'
    BY DEF Clash
  <2> QED
    BY <1>2, <1>4, <2>1 DEF Orderly, Settled
<1>6. CoreInv(w)
  BY DEF Orderly
<1>7. CoreInv(w)' /\ (TimeBusy(w) /\ ~TimeBusy(w)' => time' <= MaxTime)
  BY <1>3, <1>5, <1>6, OwnStep
<1>8. \A v \in Workers \ {w} : CoreInv(v)'
  BY OtherStep DEF Orderly
<1>9. Settled'
  <2>1. CASE cpc # "idle"
    <3>1. \A v \in Workers : ~TimeBusy(v)
      BY <2>1 DEF Orderly, Clash
    <3>2. ~TimeBusy(w)'
      BY <1>2, <2>1
    <3>3. time' = time
      BY <3>1, <3>2, WorkerFrame
    <3> QED
      BY <1>1, <3>1, <3>3 DEF Orderly, Settled
  <2>2. CASE cpc = "idle"
    <3>1. (\A v \in Workers : ~TimeBusy(v)') => time' <= MaxTime
      <4> SUFFICES ASSUME \A v \in Workers : ~TimeBusy(v)' PROVE time' <= MaxTime
        OBVIOUS
      <4>1. CASE TimeBusy(w)
        BY <1>7, <4>1
      <4>2. CASE ~TimeBusy(w)
        <5>1. \A v \in Workers : ~TimeBusy(v)
          BY <1>4, <4>2
        <5>2. time <= MaxTime
          BY <2>2, <5>1 DEF Orderly, Settled
        <5>3. time' = time
          BY <4>2, WorkerFrame
        <5> QED
          BY <5>2, <5>3
      <4> QED
        BY <4>1, <4>2
    <3>2. timeMin <= MaxTime
      BY <2>2 DEF Orderly, Settled
    <3> QED
      BY <1>1, <2>2, <3>1, <3>2 DEF Settled
  <2> QED
    BY <2>1, <2>2
<1> QED
  BY <1>7, <1>8, <1>9

(* tune_filter moves on with every access, so in the absence of an overlap  *)
(* it meets no worker at the threshold.                                     *)
LEMMA TuneMeetsNobody ==
  ASSUME TuneFilter, UNCHANGED cores, ~Clash, ~Clash'
  PROVE  \A v \in Workers : ~TimeBusy(v) /\ ~TimeBusy(v)'
<1>1. cpc # "idle" \/ cpc' # "idle"
  BY DEF TuneFilter, SetTime, KeepTime, LoadMin, StoreMin, SetDelta, SetSpeed, ClampTime,
     TimeToMax, ClampMin, MinToMax, CGoto
<1>2. \A v \in Workers : TimeBusy(v)' = TimeBusy(v)
  BY DEF TimeBusy, cores
<1> QED
  BY <1>1, <1>2 DEF Clash

(* An access of tune_filter, as long as operations do not overlap.          *)
LEMMA TuneStep ==
  ASSUME TypeOK, Orderly, TuneFilter, UNCHANGED cores, ~Clash'
  PROVE  Settled' /\ \A v \in Workers : CoreInv(v)'
<1>1. \A v \in Workers : ~TimeBusy(v) /\ ~TimeBusy(v)'
  BY TuneMeetsNobody DEF Orderly
<1>a. MaxTime \in Nat /\ time \in Nat /\ timeMin \in Nat /\ creg \in Nat
  BY Sizes DEF TypeOK
<1>2. ASSUME NEW v \in Workers PROVE CoreInv(v)'
  <2>1. /\ pc' = pc /\ seen' = seen /\ enqueued' = enqueued
        /\ hwCongested' = hwCongested
    BY DEF cores
  <2>2. pc'[v] \notin Tuning \cup Doubling
    BY <1>1 DEF TimeBusy
  <2>3. Counts(v)'
    BY <2>1, <2>2 DEF Orderly, CoreInv, Counts, Tuning, Doubling
  <2>4. Threshold(v)' /\ Decision(v)'
    BY <2>2 DEF Threshold, Decision, TimeLabels, Tuning, Doubling, Raising, Lowering
  <2> QED
    BY <2>3, <2>4 DEF CoreInv
<1>3. Settled
  BY DEF Orderly
<1>4. Settled'
  <2> USE <1>1, <1>3, <1>a DEF Settled, CGoto
  <2>1. ASSUME NEW t \in Thresholds, SetTime(t) PROVE Settled'
    BY <2>1 DEF SetTime
  <2>2. CASE KeepTime
    BY <2>2 DEF KeepTime
  <2>3. CASE LoadMin
    BY <2>3 DEF LoadMin
  <2>4. CASE StoreMin
    BY <2>4 DEF StoreMin
  <2>5. ASSUME NEW d \in Deltas, SetDelta(d) PROVE Settled'
    BY <2>5 DEF SetDelta
  <2>6. ASSUME NEW x \in Speeds, SetSpeed(x) PROVE Settled'
    BY <2>6 DEF SetSpeed
  <2>7. CASE ClampTime
    BY <2>7 DEF ClampTime
  <2>8. CASE TimeToMax
    BY <2>8 DEF TimeToMax
  <2>9. CASE ClampMin
    BY <2>9 DEF ClampMin
  <2>10. CASE MinToMax
    BY <2>10 DEF MinToMax
  <2> QED
    BY <2>1, <2>2, <2>3, <2>4, <2>5, <2>6, <2>7, <2>8, <2>9, <2>10 DEF TuneFilter
<1> QED
  BY <1>2, <1>4

(* The end of a window takes nothing from anybody.                          *)
LEMMA WindowStep ==
  ASSUME Orderly, WindowElapses
  PROVE  Settled' /\ \A v \in Workers : CoreInv(v)'
<1>1. UNCHANGED <<time, settings, enqueued, pc, reg, seen, hwCongested>> /\ expired'
  BY DEF WindowElapses
<1>2. Settled'
  BY <1>1 DEF Orderly, Settled, TimeBusy, settings
<1>3. ASSUME NEW v \in Workers PROVE CoreInv(v)'
  <2>1. CoreInv(v)
    BY DEF Orderly
  <2>2. Threshold(v)' /\ Counts(v)'
    BY <1>1, <2>1 DEF CoreInv, Threshold, Counts, settings
  <2>3. Decision(v)'
    BY <1>1, <2>1 DEF CoreInv, Decision, settings, Overload, Quiet, Up, Down
  <2> QED
    BY <2>2, <2>3 DEF CoreInv
<1> QED
  BY <1>2, <1>3

(* Every step keeps the invariant, or is where operations begin to overlap. *)
LEMMA RaceStep == RaceInv /\ [Next]_vars => RaceInv'
<1> SUFFICES ASSUME RaceInv, [Next]_vars PROVE RaceInv'
  OBVIOUS
<1>1. CASE Next
  <2>1. raced' = (raced \/ Clash')
    BY <1>1 DEF Next
  <2>2. CASE \E w \in Workers : Worker(w) /\ UNCHANGED settings
    <3>1. PICK w \in Workers : Worker(w) /\ UNCHANGED settings
      BY <2>2
    <3>2. TypeOK'
      BY <3>1, TypeWorker DEF RaceInv
    <3>3. Orderly /\ ~Clash' => Settled' /\ \A v \in Workers : CoreInv(v)'
      BY <3>1, WorkerStep DEF RaceInv
    <3> QED
      BY <2>1, <3>2, <3>3 DEF RaceInv, Orderly
  <2>3. CASE TuneFilter /\ UNCHANGED cores
    <3>1. TypeOK'
      BY <2>3, TypeTune DEF RaceInv
    <3>2. Orderly /\ ~Clash' => Settled' /\ \A v \in Workers : CoreInv(v)'
      BY <2>3, TuneStep DEF RaceInv
    <3> QED
      BY <2>1, <3>1, <3>2 DEF RaceInv, Orderly
  <2>4. CASE WindowElapses
    <3>1. TypeOK'
      BY <2>4 DEF WindowElapses, RaceInv, TypeOK, settings
    <3>2. Orderly => Settled' /\ \A v \in Workers : CoreInv(v)'
      BY <2>4, WindowStep
    <3> QED
      BY <2>1, <3>1, <3>2 DEF RaceInv, Orderly
  <2> QED
    BY <1>1, <2>2, <2>3, <2>4 DEF Next
<1>2. CASE UNCHANGED vars
  <2>1. TypeOK' /\ raced' = raced
    BY <1>2 DEF RaceInv, vars, TypeOK
  <2>2. Clash' = Clash /\ Settled' = Settled
    BY <1>2 DEF vars, Clash, Settled, TimeBusy, CountBusy
  <2>3. \A v \in Workers : CoreInv(v)' = CoreInv(v)
    BY <1>2 DEF vars, CoreInv, Threshold, Counts, Decision, Overload, Quiet, Up, Down
  <2> QED
    BY <2>1, <2>2, <2>3 DEF RaceInv, Orderly
<1> QED
  BY <1>1, <1>2

-----------------------------------------------------------------------------
(* What HeldOr gives when at most one worker is in S, when none is, and     *)
(* when nothing changes for those that are.                                 *)
LEMMA HeldOne ==
  ASSUME NEW p, NEW S, NEW f, NEW x, NEW w \in Workers,
         \A v \in Workers \ {w} : p[v] \notin S
  PROVE  HeldOr(p, S, f, x) = IF p[w] \in S THEN f[w] ELSE x
<1>1. CASE p[w] \in S
  <2>1. Holding(p, S) = {w}
    BY <1>1 DEF Holding
  <2>2. (CHOOSE v \in Holding(p, S) : TRUE) = w
    BY <2>1
  <2> QED
    BY <1>1, <2>1, <2>2 DEF HeldOr
<1>2. CASE p[w] \notin S
  BY <1>2 DEF Holding, HeldOr
<1> QED
  BY <1>1, <1>2

LEMMA HeldNone ==
  ASSUME NEW p, NEW S, NEW f, NEW x, \A v \in Workers : p[v] \notin S
  PROVE  HeldOr(p, S, f, x) = x
  BY DEF Holding, HeldOr

LEMMA HeldSame ==
  ASSUME NEW p, NEW q, NEW S, NEW f, NEW g, NEW x,
         \A v \in Workers : p[v] \in S <=> q[v] \in S,
         \A v \in Workers : p[v] \in S => f[v] = g[v]
  PROVE  HeldOr(p, S, f, x) = HeldOr(q, S, g, x)
<1>1. Holding(p, S) = Holding(q, S)
  BY DEF Holding
<1>2. CASE Holding(p, S) = {}
  BY <1>1, <1>2 DEF HeldOr
<1>3. CASE Holding(p, S) # {}
  <2> DEFINE v == CHOOSE v \in Holding(p, S) : TRUE
  <2>1. v \in Holding(p, S)
    BY <1>3
  <2>2. v \in Workers /\ p[v] \in S
    BY <2>1 DEF Holding
  <2>3. f[v] = g[v]
    BY <2>2
  <2> QED
    BY <1>1, <1>3, <2>3 DEF HeldOr
<1> QED
  BY <1>2, <1>3

(* The two halves of the mapping, before and after a step.                  *)
LEMMA Views ==
  /\ absTime = HeldOr(pc, Loaded, reg, IF cpc = "idle" THEN time ELSE AtMost(time))
  /\ absTime' = HeldOr(pc', Loaded, reg', IF cpc' = "idle" THEN time' ELSE AtMost(time'))
  /\ absEnqueued = HeldOr(pc, Tuning, seen, enqueued)
  /\ absEnqueued' = HeldOr(pc', Tuning, seen', enqueued')
BY DEF absTime, absEnqueued, HeldOr, Holding, AtMost

AbsSame ==
  /\ absTime' = absTime /\ absTimeMin' = absTimeMin /\ delta' = delta /\ speed' = speed
  /\ absEnqueued' = absEnqueued /\ expired' = expired /\ absCongested' = absCongested

(* A step that leaves the mapped variables alone is a stutter of Filter.    *)
LEMMA Stutter ==
  ASSUME AbsSame
  PROVE  UNCHANGED Atomic!vars
  BY DEF AbsSame, Atomic!vars

(* The flag of a worker as Filter sees it.                                  *)
Flag(w) == hwCongested[w] /\ pc[w] \notin Doubling \cup {"double"}

(* An access moves its own worker's flag only.                              *)
LEMMA FlagView ==
  ASSUME NEW w \in Workers, TypeOK, Worker(w)
  PROVE  /\ absCongested[w] = Flag(w)
         /\ Flag(w)' = Flag(w) => absCongested' = absCongested
         /\ Flag(w)' = TRUE => absCongested' = [absCongested EXCEPT ![w] = TRUE]
         /\ Flag(w)' = FALSE => absCongested' = [absCongested EXCEPT ![w] = FALSE]
<1>1. absCongested = [v \in Workers |-> Flag(v)]
  BY DEF absCongested, Flag
<1>2. absCongested' = [v \in Workers |-> Flag(v)']
  BY DEF absCongested, Flag
<1>3. \A v \in Workers \ {w} : Flag(v)' = Flag(v)
  <2>1. \A v \in Workers \ {w} : pc'[v] = pc[v] /\ hwCongested'[v] = hwCongested[v]
    BY WorkerFrame
  <2> QED
    BY <2>1 DEF Flag
<1> QED
  BY <1>1, <1>2, <1>3

(* The initial state of the program is one of Filter.                       *)
LEMMA InitMaps == Init => Atomic!Init
<1> SUFFICES ASSUME Init PROVE Atomic!Init
  OBVIOUS
<1>1. \A w \in Workers : pc[w] = "poll" /\ hwCongested[w] = FALSE
  BY DEF Init
<1>2. \A w \in Workers : pc[w] \notin Loaded /\ pc[w] \notin Tuning
  BY <1>1 DEF Loaded, Tuning, Doubling
<1>3. absTime = time /\ absEnqueued = enqueued
  BY <1>2, Views, HeldNone DEF Init
<1>4. absTimeMin = timeMin
  BY DEF Init, absTimeMin
<1>5. absCongested = [w \in Workers |-> FALSE]
  BY <1>1 DEF absCongested
<1> QED
  BY <1>3, <1>4, <1>5 DEF Init, Atomic!Init

(* While a worker tunes or doubles, Filter sees the values it holds.        *)
LEMMA BusyView ==
  ASSUME NEW w \in Workers, TypeOK, Worker(w), UNCHANGED settings, ~Clash, ~Clash',
         TimeBusy(w) \/ TimeBusy(w)'
  PROVE  /\ absTime = IF pc[w] \in Loaded THEN reg[w] ELSE time
         /\ absTime' = IF pc'[w] \in Loaded THEN reg'[w] ELSE time'
         /\ absEnqueued = IF pc[w] \in Tuning THEN seen[w] ELSE enqueued
         /\ absEnqueued' = IF pc'[w] \in Tuning THEN seen'[w] ELSE enqueued'
         /\ absTimeMin = timeMin /\ absTimeMin' = timeMin
         /\ timeMin' = timeMin /\ delta' = delta /\ speed' = speed
<1>1. cpc = "idle" /\ cpc' = "idle"
  BY DEF Clash, settings
<1>2. \A v \in Workers \ {w} : ~TimeBusy(v) /\ ~TimeBusy(v)'
  <2>1. \A v \in Workers \ {w} : TimeBusy(v)' = TimeBusy(v)
    <3>1. \A v \in Workers \ {w} : pc'[v] = pc[v]
      BY WorkerFrame
    <3> QED
      BY <3>1 DEF TimeBusy
  <2> QED
    BY <2>1 DEF Clash
<1>3. \A v \in Workers \ {w} :
         /\ pc[v] \notin Loaded /\ pc'[v] \notin Loaded
         /\ pc[v] \notin Tuning /\ pc'[v] \notin Tuning
  BY <1>2 DEF TimeBusy, Loaded
<1>4. /\ absTime = IF pc[w] \in Loaded THEN reg[w] ELSE time
      /\ absTime' = IF pc'[w] \in Loaded THEN reg'[w] ELSE time'
  <2>1. \A v \in Workers \ {w} : pc[v] \notin Loaded
    BY <1>3
  <2>2. \A v \in Workers \ {w} : pc'[v] \notin Loaded
    BY <1>3
  <2>3. HeldOr(pc, Loaded, reg, time) = IF pc[w] \in Loaded THEN reg[w] ELSE time
    BY <2>1, HeldOne
  <2>4. HeldOr(pc', Loaded, reg', time') = IF pc'[w] \in Loaded THEN reg'[w] ELSE time'
    BY <2>2, HeldOne
  <2> QED
    BY <1>1, <2>3, <2>4, Views
<1>5. /\ absEnqueued = IF pc[w] \in Tuning THEN seen[w] ELSE enqueued
      /\ absEnqueued' = IF pc'[w] \in Tuning THEN seen'[w] ELSE enqueued'
  <2>1. \A v \in Workers \ {w} : pc[v] \notin Tuning
    BY <1>3
  <2>2. \A v \in Workers \ {w} : pc'[v] \notin Tuning
    BY <1>3
  <2>3. HeldOr(pc, Tuning, seen, enqueued) = IF pc[w] \in Tuning THEN seen[w] ELSE enqueued
    BY <2>1, HeldOne
  <2>4. HeldOr(pc', Tuning, seen', enqueued') =
          IF pc'[w] \in Tuning THEN seen'[w] ELSE enqueued'
    BY <2>2, HeldOne
  <2> QED
    BY <2>3, <2>4, Views
<1> QED
  BY <1>1, <1>4, <1>5 DEF absTimeMin, settings

(* Outside its tunings and doublings a worker does not touch the threshold  *)
(* Filter sees.                                                             *)
LEMMA FreeView ==
  ASSUME NEW w \in Workers, TypeOK, Worker(w), UNCHANGED settings,
         ~TimeBusy(w), ~TimeBusy(w)'
  PROVE  /\ absTime' = absTime /\ absTimeMin' = absTimeMin
         /\ delta' = delta /\ speed' = speed /\ expired' = expired
         /\ enqueued' = enqueued => absEnqueued' = absEnqueued
<1>1. /\ time' = time /\ expired' = expired
      /\ \A v \in Workers \ {w} : pc'[v] = pc[v] /\ reg'[v] = reg[v] /\ seen'[v] = seen[v]
  BY WorkerFrame
<1>2. /\ cpc' = cpc /\ timeMin' = timeMin /\ delta' = delta /\ speed' = speed
  BY DEF settings
<1>3. \A v \in Workers :
         /\ (pc[v] \in Loaded) <=> (pc'[v] \in Loaded)
         /\ pc[v] \in Loaded => reg[v] = reg'[v]
         /\ (pc[v] \in Tuning) <=> (pc'[v] \in Tuning)
         /\ pc[v] \in Tuning => seen[v] = seen'[v]
  BY <1>1 DEF TimeBusy, Loaded
<1>4. absTime' = absTime
  <2> DEFINE x == IF cpc = "idle" THEN time ELSE AtMost(time)
  <2>1. absTime = HeldOr(pc, Loaded, reg, x) /\ absTime' = HeldOr(pc', Loaded, reg', x)
    BY <1>1, <1>2, Views
  <2> HIDE DEF x
  <2>2. HeldOr(pc, Loaded, reg, x) = HeldOr(pc', Loaded, reg', x)
    <3>1. \A v \in Workers : pc[v] \in Loaded <=> pc'[v] \in Loaded
      BY <1>3
    <3>2. \A v \in Workers : pc[v] \in Loaded => reg[v] = reg'[v]
      BY <1>3
    <3> QED
      BY <3>1, <3>2, HeldSame
  <2> QED
    BY <2>1, <2>2
<1>5. enqueued' = enqueued => absEnqueued' = absEnqueued
  <2>1. HeldOr(pc, Tuning, seen, enqueued) = HeldOr(pc', Tuning, seen', enqueued)
    <3>1. \A v \in Workers : pc[v] \in Tuning <=> pc'[v] \in Tuning
      BY <1>3
    <3>2. \A v \in Workers : pc[v] \in Tuning => seen[v] = seen'[v]
      BY <1>3
    <3> QED
      BY <3>1, <3>2, HeldSame
  <2> QED
    BY <2>1, Views
<1> QED
  BY <1>1, <1>2, <1>4, <1>5 DEF absTimeMin, AtMost

(* Every access of a worker is a stutter of Filter, or the step of Filter   *)
(* its function stands for.                                                 *)
LEMMA WorkerMaps ==
  ASSUME NEW w \in Workers, TypeOK, Orderly, Orderly', Worker(w), UNCHANGED settings
  PROVE  Atomic!Next \/ AbsSame
<1> USE DEF Labels, TimeLabels, Tuning, Doubling, Loaded, TimeBusy
<1>a. CoreInv(w) /\ CoreInv(w)' /\ ~Clash /\ ~Clash'
  BY DEF Orderly
<1>b. MaxTime \in Nat /\ delta \in Nat /\ speed \in Nat /\ time \in Nat /\ timeMin \in Nat
  BY Sizes DEF TypeOK
<1> DEFINE Busy == TimeBusy(w) \/ TimeBusy(w)'
<1> DEFINE Seen == /\ absTime = IF pc[w] \in Loaded THEN reg[w] ELSE time
                   /\ absTime' = IF pc'[w] \in Loaded THEN reg'[w] ELSE time'
                   /\ absEnqueued = IF pc[w] \in Tuning THEN seen[w] ELSE enqueued
                   /\ absEnqueued' = IF pc'[w] \in Tuning THEN seen'[w] ELSE enqueued'
                   /\ absTimeMin = timeMin /\ absTimeMin' = timeMin
                   /\ timeMin' = timeMin /\ delta' = delta /\ speed' = speed
<1>c. Busy => Seen
  BY <1>a, BusyView
<1>d. /\ absCongested[w] = Flag(w)
      /\ Flag(w)' = Flag(w) => absCongested' = absCongested
      /\ Flag(w)' = TRUE => absCongested' = [absCongested EXCEPT ![w] = TRUE]
      /\ Flag(w)' = FALSE => absCongested' = [absCongested EXCEPT ![w] = FALSE]
  BY FlagView
<1>e. ASSUME Busy, Flag(w)' = Flag(w), expired' = expired,
             (IF pc'[w] \in Loaded THEN reg'[w] ELSE time') =
               (IF pc[w] \in Loaded THEN reg[w] ELSE time),
             (IF pc'[w] \in Tuning THEN seen'[w] ELSE enqueued') =
               (IF pc[w] \in Tuning THEN seen[w] ELSE enqueued)
      PROVE  AbsSame
  BY <1>c, <1>d, <1>e DEF AbsSame
<1> HIDE DEF Seen
<1>2. ASSUME NEW e \in 1 .. MaxElapsed, TuneBegin(w, e) PROVE AbsSame
  BY <1>2, <1>e DEF TuneBegin, Goto, Flag, TypeOK
<1>3. CASE RaiseLoad(w)
  <2>1. Flag(w)' = Flag(w)
    BY <1>3 DEF RaiseLoad, Goto, Flag, TypeOK
  <2> QED
    BY <1>3, <1>a, <2>1, <1>e DEF RaiseLoad, Goto, TypeOK
<1>4. CASE RaiseStore(w)
  <2>1. Flag(w)' = Flag(w)
    BY <1>4 DEF RaiseStore, Goto, Flag, TypeOK
  <2> QED
    BY <1>4, <1>a, <2>1, <1>e DEF RaiseStore, Goto, TypeOK
<1>5. CASE ClampTest(w, "raise_clamp", "raise_max", "reset_count")
  <2>1. Flag(w)' = Flag(w)
    BY <1>5 DEF ClampTest, Goto, Flag, TypeOK
  <2> QED
    BY <1>5, <1>a, <2>1, <1>e DEF ClampTest, Goto, TypeOK
<1>6. CASE ClampStore(w, "raise_max", "reset_count")
  <2>1. Flag(w)' = Flag(w)
    BY <1>6 DEF ClampStore, Goto, Flag, TypeOK
  <2> QED
    BY <1>6, <1>a, <2>1, <1>e DEF ClampStore, Goto, TypeOK
<1>7. CASE LowerTest(w)
  <2>1. Flag(w)' = Flag(w)
    BY <1>7 DEF LowerTest, Goto, Flag, TypeOK
  <2> QED
    BY <1>7, <1>a, <2>1, <1>e DEF LowerTest, Goto, TypeOK
<1>8. CASE LowerLoad(w)
  <2>1. Flag(w)' = Flag(w)
    BY <1>8 DEF LowerLoad, Goto, Flag, TypeOK
  <2> QED
    BY <1>8, <1>a, <2>1, <1>e DEF LowerLoad, Goto, TypeOK, CoreInv, Threshold
<1>9. CASE LowerStore(w)
  <2>1. Flag(w)' = Flag(w)
    BY <1>9 DEF LowerStore, Goto, Flag, TypeOK
  <2> QED
    BY <1>9, <1>a, <2>1, <1>e DEF LowerStore, Goto, TypeOK
<1>10. CASE LowerMin(w)
  <2>1. Flag(w)' = Flag(w)
    BY <1>10 DEF LowerMin, Goto, Flag, TypeOK
  <2> QED
    BY <1>10, <1>a, <2>1, <1>e DEF LowerMin, Goto, TypeOK
<1>11. CASE ResetCount(w)
  <2>1. Flag(w)' = Flag(w)
    BY <1>11 DEF ResetCount, Goto, Flag, TypeOK
  <2> QED
    BY <1>11, <1>a, <2>1, <1>e DEF ResetCount, Goto, TypeOK
<1>12. CASE ResetStart(w)
  <2>1. /\ absTime = reg[w] /\ absTime' = time
        /\ absEnqueued = seen[w] /\ absEnqueued' = 0
        /\ absTimeMin = timeMin /\ absTimeMin' = timeMin
        /\ delta' = delta /\ speed' = speed
        /\ expired /\ expired' = FALSE /\ speed # 0
    BY <1>12, <1>a, <1>c DEF ResetStart, Goto, TypeOK, CoreInv, Counts, Seen
  <2>2. absCongested' = absCongested
    <3>1. Flag(w)' = Flag(w)
      BY <1>12 DEF ResetStart, Goto, Flag, TypeOK
    <3> QED
      BY <3>1, <1>d
  <2>3. \/ Overload(seen[w]) /\ time = Up(reg[w])
        \/ Quiet(seen[w]) /\ time = Down(reg[w])
    BY <1>12, <1>a DEF ResetStart, Goto, CoreInv, Decision
  <2>4. PICK e \in 1 .. MaxElapsed :
          time = IF seen[w] \div e > speed THEN Up(reg[w]) ELSE Down(reg[w])
    BY <2>3 DEF Overload, Quiet
  <2>5. Atomic!Raised = Up(reg[w]) /\ Atomic!Lowered = Down(reg[w])
    BY <2>1 DEF Atomic!Raised, Atomic!Lowered, Atomic!AtMost, Up, Down
  <2>6. Atomic!Tune(e)
    BY <2>1, <2>2, <2>4, <2>5 DEF Atomic!Tune
  <2> QED
    BY <2>6 DEF Atomic!Next
<1>f. ASSUME ~TimeBusy(w), ~TimeBusy(w)'
      PROVE  /\ absTime' = absTime /\ absTimeMin' = absTimeMin
             /\ delta' = delta /\ speed' = speed /\ expired' = expired
             /\ enqueued' = enqueued => absEnqueued' = absEnqueued
  BY <1>f, FreeView
<1>13. CASE EnqueueLoad(w)
  <2>1. ~TimeBusy(w) /\ ~TimeBusy(w)' /\ enqueued' = enqueued /\ Flag(w)' = Flag(w)
    BY <1>13 DEF EnqueueLoad, Goto, Flag, TypeOK
  <2> QED
    BY <2>1, <1>d, <1>f DEF AbsSame
<1>14. CASE EnqueueStore(w)
  <2>1. /\ ~TimeBusy(w) /\ ~TimeBusy(w)' /\ Flag(w)' = Flag(w)
        /\ pc[w] = "enqueue_store" /\ pc'[w] = "poll"
        /\ enqueued' = enqueued + 1 /\ enqueued < MaxEnqueued
    BY <1>14, <1>a DEF EnqueueStore, Goto, Flag, TypeOK, CoreInv, Counts
  <2>2. \A v \in Workers : pc[v] \notin Tuning /\ pc'[v] \notin Tuning
    <3>1. CountBusy(w)
      BY <2>1 DEF CountBusy
    <3>2. \A v \in Workers \ {w} : ~CountBusy(v)
      BY <1>a, <3>1 DEF Clash
    <3>3. \A v \in Workers \ {w} : pc'[v] = pc[v]
      BY WorkerFrame
    <3> QED
      BY <2>1, <3>2, <3>3 DEF CountBusy
  <2>3. absEnqueued = enqueued
    <3>1. \A v \in Workers : pc[v] \notin Tuning
      BY <2>2
    <3> QED
      BY <3>1, HeldNone, Views
  <2>4. absEnqueued' = enqueued'
    <3>1. \A v \in Workers : pc'[v] \notin Tuning
      BY <2>2
    <3> QED
      BY <3>1, HeldNone, Views
  <2>5. Atomic!Enqueue
    BY <2>1, <2>3, <2>4, <1>d, <1>f DEF Atomic!Enqueue
  <2> QED
    BY <2>5 DEF Atomic!Next
<1>15. CASE CongestionBegin(w)
  <2>1. ~TimeBusy(w) /\ ~TimeBusy(w)' /\ enqueued' = enqueued /\ Flag(w)' = Flag(w)
    BY <1>15 DEF CongestionBegin, Goto, Flag, TypeOK
  <2> QED
    BY <2>1, <1>d, <1>f DEF AbsSame
<1>16. CASE DoubleLoad(w)
  <2>1. Flag(w)' = Flag(w)
    BY <1>16 DEF DoubleLoad, Goto, Flag, TypeOK
  <2> QED
    BY <1>16, <1>a, <2>1, <1>e DEF DoubleLoad, Goto, TypeOK
<1>17. CASE DoubleStore(w)
  <2>1. Flag(w)' = Flag(w)
    BY <1>17 DEF DoubleStore, Goto, Flag, TypeOK
  <2> QED
    BY <1>17, <1>a, <2>1, <1>e DEF DoubleStore, Goto, TypeOK
<1>18. CASE ClampTest(w, "double_clamp", "double_max", "poll")
  <2>1. CASE time > MaxTime
    <3>1. Flag(w)' = Flag(w)
      BY <1>18, <2>1 DEF ClampTest, Goto, Flag, TypeOK
    <3> QED
      BY <1>18, <2>1, <3>1, <1>e DEF ClampTest, Goto, TypeOK
  <2>2. CASE ~(time > MaxTime)
    <3>1. Flag(w) = FALSE /\ Flag(w)' = TRUE
      BY <1>18, <1>a, <2>2 DEF ClampTest, Goto, Flag, TypeOK, CoreInv, Counts
    <3>2. /\ absTime = reg[w] /\ absTime' = time
          /\ absEnqueued' = absEnqueued /\ absTimeMin' = absTimeMin
          /\ delta' = delta /\ speed' = speed /\ expired' = expired
      BY <1>18, <1>c, <2>2 DEF ClampTest, Goto, TypeOK, Seen
    <3>3. time = 2 * reg[w] /\ time <= MaxTime
      BY <1>18, <1>a, <1>b, <2>2 DEF ClampTest, Goto, CoreInv, Threshold
    <3>4. Atomic!Doubled = time
      BY <3>2, <3>3, <1>b DEF Atomic!Doubled, Atomic!AtMost
    <3>5. Atomic!Congestion(w)
      BY <3>1, <3>2, <3>4, <1>d DEF Atomic!Congestion
    <3> QED
      BY <3>5 DEF Atomic!Next
  <2> QED
    BY <2>1, <2>2
<1>19. CASE ClampStore(w, "double_max", "poll")
  <2>1. Flag(w) = FALSE /\ Flag(w)' = TRUE
    BY <1>19, <1>a DEF ClampStore, Goto, Flag, TypeOK, CoreInv, Counts
  <2>2. /\ absTime = reg[w] /\ absTime' = MaxTime
        /\ absEnqueued' = absEnqueued /\ absTimeMin' = absTimeMin
        /\ delta' = delta /\ speed' = speed /\ expired' = expired
    BY <1>19, <1>c DEF ClampStore, Goto, TypeOK, Seen
  <2>3. 2 * reg[w] > MaxTime
    BY <1>19, <1>a DEF ClampStore, Goto, CoreInv, Threshold
  <2>4. Atomic!Doubled = MaxTime
    BY <2>2, <2>3 DEF Atomic!Doubled, Atomic!AtMost
  <2>5. Atomic!Congestion(w)
    BY <2>1, <2>2, <2>4, <1>d DEF Atomic!Congestion
  <2> QED
    BY <2>5 DEF Atomic!Next
<1>20. CASE Relief(w)
  <2>1. /\ ~TimeBusy(w) /\ ~TimeBusy(w)' /\ enqueued' = enqueued
        /\ Flag(w) = TRUE /\ Flag(w)' = FALSE
    BY <1>20 DEF Relief, Flag, TypeOK
  <2>2. Atomic!Relief(w)
    BY <2>1, <1>d, <1>f DEF Atomic!Relief
  <2> QED
    BY <2>2 DEF Atomic!Next
<1> QED
  BY <1>2, <1>3, <1>4, <1>5, <1>6, <1>7, <1>8, <1>9, <1>10, <1>11, <1>12, <1>13,
     <1>14, <1>15, <1>16, <1>17, <1>18, <1>19, <1>20 DEF Worker

(* Every access of tune_filter is a stutter of Filter, or one of its two    *)
(* settings.                                                                *)
LEMMA TuneMaps ==
  ASSUME TypeOK, Orderly, Orderly', TuneFilter, UNCHANGED cores
  PROVE  Atomic!Next \/ AbsSame
<1>a. /\ MaxTime \in Nat /\ time \in Nat /\ timeMin \in Nat /\ creg \in Nat
      /\ delta \in Deltas /\ speed \in Speeds
  BY Sizes DEF TypeOK
<1>b. \A v \in Workers : pc[v] \notin Loaded /\ pc'[v] \notin Loaded
  <2>1. \A v \in Workers : ~TimeBusy(v) /\ ~TimeBusy(v)'
    BY TuneMeetsNobody DEF Orderly
  <2> QED
    BY <2>1 DEF TimeBusy, Loaded
<1>c. absTime = IF cpc = "idle" THEN time ELSE AtMost(time)
  <2>1. \A v \in Workers : pc[v] \notin Loaded
    BY <1>b
  <2> QED
    BY <2>1, Views, HeldNone
<1>d. absTime' = IF cpc' = "idle" THEN time' ELSE AtMost(time')
  <2>1. \A v \in Workers : pc'[v] \notin Loaded
    BY <1>b
  <2> QED
    BY <2>1, Views, HeldNone
<1>e. absEnqueued' = absEnqueued /\ absCongested' = absCongested /\ expired' = expired
  BY DEF cores, absEnqueued, absCongested, HeldOr, Holding
<1>f. Settled /\ Settled' /\ \A v \in Workers : ~TimeBusy(v) /\ ~TimeBusy(v)'
  BY TuneMeetsNobody DEF Orderly
<1>1. ASSUME NEW t \in Thresholds, SetTime(t) PROVE Atomic!Next
  <2>1. absTime' = AtMost(t) /\ absTimeMin' = AtMost(t) /\ delta' = delta /\ speed' = speed
    BY <1>1, <1>d DEF SetTime, CGoto, absTimeMin, AtMost
  <2>2. Atomic!TuneThreshold(t)
    BY <2>1, <1>e DEF Atomic!TuneThreshold, Atomic!AtMost, AtMost
  <2> QED
    BY <2>2 DEF Atomic!Next
<1>2. CASE KeepTime
  BY <1>2, <1>a, <1>c, <1>d, <1>e, <1>f
     DEF KeepTime, CGoto, AbsSame, absTimeMin, AtMost, Settled
<1>3. CASE LoadMin
  BY <1>3, <1>a, <1>c, <1>d, <1>e DEF LoadMin, CGoto, AbsSame, absTimeMin, AtMost
<1>4. CASE StoreMin
  BY <1>4, <1>a, <1>c, <1>d, <1>e, <1>f
     DEF StoreMin, CGoto, AbsSame, absTimeMin, AtMost, Settled
<1>5. ASSUME NEW d \in Deltas, SetDelta(d) PROVE Atomic!Next
  <2>1. absTime' = absTime /\ absTimeMin' = absTimeMin /\ delta' = d /\ speed' = speed
    BY <1>5, <1>c, <1>d DEF SetDelta, CGoto, absTimeMin, AtMost
  <2>2. Atomic!TuneRate(d, speed)
    BY <2>1, <1>e DEF Atomic!TuneRate
  <2> QED
    BY <2>2, <1>a DEF Atomic!Next
<1>6. ASSUME NEW v \in Speeds, SetSpeed(v) PROVE Atomic!Next
  <2>1. absTime' = absTime /\ absTimeMin' = absTimeMin /\ delta' = delta /\ speed' = v
    BY <1>6, <1>c, <1>d DEF SetSpeed, CGoto, absTimeMin, AtMost
  <2>2. Atomic!TuneRate(delta, v)
    BY <2>1, <1>e DEF Atomic!TuneRate
  <2> QED
    BY <2>2, <1>a DEF Atomic!Next
<1>7. CASE ClampTime
  BY <1>7, <1>a, <1>c, <1>d, <1>e DEF ClampTime, CGoto, AbsSame, absTimeMin, AtMost
<1>8. CASE TimeToMax
  BY <1>8, <1>a, <1>c, <1>d, <1>e, <1>f
     DEF TimeToMax, CGoto, AbsSame, absTimeMin, AtMost, Settled
<1>9. CASE ClampMin
  BY <1>9, <1>a, <1>c, <1>d, <1>e, <1>f
     DEF ClampMin, CGoto, AbsSame, absTimeMin, AtMost, Settled
<1>10. CASE MinToMax
  BY <1>10, <1>a, <1>c, <1>d, <1>e, <1>f
     DEF MinToMax, CGoto, AbsSame, absTimeMin, AtMost, Settled
<1> QED
  BY <1>1, <1>2, <1>3, <1>4, <1>5, <1>6, <1>7, <1>8, <1>9, <1>10 DEF TuneFilter

(* The end of a window is the same step in both.                            *)
LEMMA WindowMaps ==
  ASSUME WindowElapses
  PROVE  Atomic!Next
<1>1. /\ ~expired /\ expired' = TRUE
      /\ UNCHANGED <<time, settings, enqueued, pc, reg, seen, hwCongested>>
  BY DEF WindowElapses
<1>2. absTime' = absTime /\ absEnqueued' = absEnqueued
  BY <1>1, Views DEF settings, AtMost, HeldOr, Holding
<1>3. absTimeMin' = absTimeMin /\ absCongested' = absCongested
  BY <1>1 DEF settings, absTimeMin, absCongested, AtMost
<1>4. Atomic!WindowElapses
  BY <1>1, <1>2, <1>3 DEF Atomic!WindowElapses, settings
<1> QED
  BY <1>4 DEF Atomic!Next

(* Until operations overlap every step is one of Filter, or none.           *)
LEMMA StepMaps ==
  ASSUME RaceInv, RaceInv', [Next]_vars
  PROVE  [Atomic!Next \/ raced']_(Atomic!vars)
<1>1. CASE UNCHANGED vars
  <2>1. UNCHANGED Atomic!vars
    BY <1>1 DEF vars, Atomic!vars, absTime, absTimeMin, absEnqueued, absCongested,
       AtMost, HeldOr, Holding
  <2> QED
    BY <2>1
<1>2. CASE Next /\ ~raced'
  <2>1. TypeOK /\ Orderly /\ Orderly'
    BY <1>2 DEF Next, RaceInv
  <2>2. Atomic!Next \/ AbsSame
    <3>1. ASSUME NEW w \in Workers, Worker(w), UNCHANGED settings
          PROVE  Atomic!Next \/ AbsSame
      BY <2>1, <3>1, WorkerMaps
    <3>2. CASE TuneFilter /\ UNCHANGED cores
      BY <2>1, <3>2, TuneMaps
    <3>3. CASE WindowElapses
      BY <3>3, WindowMaps
    <3> QED
      BY <1>2, <3>1, <3>2, <3>3 DEF Next
  <2> QED
    BY <2>2, Stutter
<1>3. CASE raced'
  BY <1>3
<1> QED
  BY <1>1, <1>2, <1>3

(* Whatever the set of worker cores, until two operations on the threshold  *)
(* or on the count overlap the loads, stores, tests and clamps of           *)
(* flowQoS_filter_runtime_tune, flowQoS_filter_congestion_cb,               *)
(* flowQoS_conntrack_tune_filter and of the counting in                     *)
(* flowQoS_offload_conn implement the operations of Filter, so what is      *)
(* proved of those holds of the code up to that moment.                     *)
THEOREM AtomicityUntilRaced == Spec => AtomicUntilRaced
<1>1. RaceInv /\ [Next]_vars => [Atomic!Next \/ raced']_(Atomic!vars)
  BY RaceStep, StepMaps
<1> QED
  BY RaceInit, RaceStep, InitMaps, <1>1, PTL DEF Spec, AtomicUntilRaced
=============================================================================
