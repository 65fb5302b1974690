------------------------ MODULE UsageMeteringProofs ------------------------
(***************************************************************************)
(* What the billing job marks as reported, Stripe has received, and what   *)
(* Stripe charges beyond the dearest usage of a period is paid for by a    *)
(* failure, a crash or an overlap each time: for any number of overlapping *)
(* runs, any prices and quotas.                                            *)
(***************************************************************************)
EXTENDS UsageMetering, FiniteSetTheorems, TLAPS

JobRecord == [st : JobState, paid : BOOLEAN, period : Period,
              last : Reported, over : Nat, units : Nat]

Covered(r, b) == r.period \in Period => r.units <= b[r.period]

(* A run remembers an old currentUsage: what that one says was received is *)
(* received still.  Between the meter event and the write the run is about *)
(* to mark its own sum.                                                    *)
JobInv == \A j \in Job :
  /\ Covered(job[j].last, billed)
  /\ job[j].st = "reported" => job[j].units <= billed[job[j].period]

IInv == TypeOK /\ Covered(last, billed) /\ JobInv

-----------------------------------------------------------------------------
(* Operators.                                                              *)

LEMMA IdleType == Idle \in JobRecord
BY MeteringAssumption DEF Idle, JobRecord, JobState, Period, Reported, Unreported

(* Overages, blocks and prices are natural numbers.                        *)
LEMMA OverageType == ASSUME NEW n \in Nat PROVE Overage(n) \in Nat
BY MeteringAssumption DEF Overage

LEMMA BlocksType == ASSUME NEW n \in Nat PROVE Blocks(n) \in Nat
<1> DEFINE a == n + RunBlock - 1
<1>1. a \in Nat /\ RunBlock \in Nat \ {0}
  BY MeteringAssumption
<1>2. a \div RunBlock \in Nat
  <2> HIDE DEF a
  <2> QED BY <1>1
<1> QED BY <1>2 DEF Blocks

LEMMA ProductType == ASSUME NEW a \in Nat, NEW b \in Nat PROVE a * b \in Nat
OBVIOUS

LEMMA PriceType ==
  ASSUME NEW m \in Nat, NEW n \in Nat
  PROVE  Blocks(m) * BlockUnits + Overage(n) * TokenUnits \in Nat
<1>1. Blocks(m) * BlockUnits \in Nat
  BY BlocksType, ProductType, MeteringAssumption
<1>2. Overage(n) * TokenUnits \in Nat
  BY OverageType, ProductType, MeteringAssumption
<1> QED BY <1>1, <1>2

LEMMA LastOfType ==
  ASSUME TypeOK, NEW j \in Job PROVE LastOf(j) \in Nat
BY DEF TypeOK, LastOf, Reported

(* The event raises one period's sum by what is new.                       *)
LEMMA ReceivedEffect ==
  ASSUME TypeOK, NEW j \in Job, job[j].units > LastOf(j)
  PROVE  /\ Received(j) \in [Period -> Nat]
         /\ \A p \in Period : billed[p] <= Received(j)[p]
         /\ Received(j)[job[j].period] = billed[job[j].period] + (job[j].units - LastOf(j))
<1>1. LastOf(j) \in Nat /\ job[j].units \in Nat /\ job[j].period \in Period
  BY LastOfType DEF TypeOK
<1>2. job[j].units - LastOf(j) \in Nat
  BY <1>1
<1>3. PICK d \in Nat : d = job[j].units - LastOf(j)
  BY <1>2
<1>4. Received(j) = [billed EXCEPT ![job[j].period] = @ + d]
  BY <1>3 DEF Received
<1>5. billed \in [Period -> Nat]
  BY DEF TypeOK
<1> QED BY <1>1, <1>3, <1>4, <1>5

(* What was covered stays covered when no sum falls.                       *)
LEMMA CoveredStays ==
  ASSUME NEW r \in Reported, NEW b \in [Period -> Nat], NEW c \in [Period -> Nat],
         \A p \in Period : b[p] <= c[p], Covered(r, b)
  PROVE  Covered(r, c)
BY DEF Covered, Reported

(* The effect of a step on one run's record.                               *)
LEMMA JobEffect ==
  ASSUME TypeOK, NEW j \in Job, NEW r \in JobRecord, job' = [job EXCEPT ![j] = r]
  PROVE  /\ job' \in [Job -> JobRecord] /\ job'[j] = r
         /\ \A k \in Job \ {j} : job'[k] = job[k]
BY DEF TypeOK, JobRecord

-----------------------------------------------------------------------------
(* The steps.                                                              *)

LEMMA UsageStep ==
  ASSUME IInv, AiRun \/ DeleteSession \/ Renew \/ Unsubscribe
  PROVE  IInv'
<1>1. TypeOK'
  <2>1. CASE AiRun
    BY <2>1 DEF IInv, TypeOK, AiRun
  <2>2. CASE DeleteSession
    <3>1. PICK p \in 1 .. begun : runs[p] > 0 /\ runs' = [runs EXCEPT ![p] = @ - 1]
      BY <2>2 DEF DeleteSession
    <3>2. p \in Period /\ runs[p] - 1 \in Nat
      BY <3>1, MeteringAssumption DEF IInv, TypeOK, Period
    <3> QED BY <2>2, <3>1, <3>2 DEF IInv, TypeOK, DeleteSession
  <2>3. CASE Renew
    <3>1. period' \in Period /\ begun' \in Period
      BY <2>3, MeteringAssumption DEF IInv, TypeOK, Renew, Period
    <3> QED BY <2>3, <3>1 DEF IInv, TypeOK, Renew
  <2>4. CASE Unsubscribe
    BY <2>4 DEF IInv, TypeOK, Unsubscribe
  <2> QED BY <2>1, <2>2, <2>3, <2>4
<1>2. UNCHANGED <<last, billed, job>>
  BY DEF AiRun, DeleteSession, Renew, Unsubscribe
<1> QED BY <1>1, <1>2 DEF IInv, Covered, JobInv

LEMMA LateStep == ASSUME IInv, LateEvent PROVE IInv'
<1>1. TypeOK'
  <2>1. period' \in Period /\ faults' \in Nat
    BY MeteringAssumption DEF IInv, TypeOK, LateEvent, Fault, Period
  <2> QED BY <2>1 DEF IInv, TypeOK, LateEvent
<1>2. UNCHANGED <<last, billed, job>>
  BY DEF LateEvent
<1> QED BY <1>1, <1>2 DEF IInv, Covered, JobInv

LEMMA StartStep == ASSUME IInv, NEW j \in Job, Start(j) PROVE IInv'
<1> DEFINE r == [Idle EXCEPT !.st = "started", !.paid = paid, !.period = period, !.last = last]
<1>1. r \in JobRecord /\ r.last = last /\ r.st = "started"
  BY IdleType DEF IInv, TypeOK, Idle, JobRecord, JobState
<1>2. job' = [job EXCEPT ![j] = r] /\ UNCHANGED <<usage, last, billed>>
  BY DEF Start
<1>3. faults' \in Nat
  BY DEF Start, Fault, IInv, TypeOK
<1>4. /\ job' \in [Job -> JobRecord] /\ job'[j] = r
      /\ \A k \in Job \ {j} : job'[k] = job[k]
  <2> HIDE DEF r
  <2> QED BY <1>1, <1>2, JobEffect DEF IInv
<1>5. TypeOK'
  BY <1>2, <1>3, <1>4 DEF IInv, TypeOK, JobRecord, usage
<1>6. JobInv'
  BY <1>1, <1>2, <1>4 DEF IInv, JobInv
<1> QED BY <1>2, <1>5, <1>6 DEF IInv

(* Counting and pricing only fill in the run's own record.                 *)
LEMMA CountStep == ASSUME IInv, NEW j \in Job, Count(j) PROVE IInv'
<1>1. job[j] \in JobRecord /\ runs[job[j].period] \in Nat
  BY DEF IInv, TypeOK, JobRecord
<1> DEFINE r == [job[j] EXCEPT !.st = IF job[j].paid THEN "counted" ELSE "free",
                               !.over = Overage(runs[job[j].period])]
<1>2. r \in JobRecord /\ r.last = job[j].last /\ r.st # "reported"
  BY <1>1, OverageType DEF JobRecord, JobState
<1>3. job' = [job EXCEPT ![j] = r] /\ UNCHANGED <<usage, last, billed, faults>>
  BY DEF Count
<1>4. /\ job' \in [Job -> JobRecord] /\ job'[j] = r
      /\ \A k \in Job \ {j} : job'[k] = job[k]
  <2> HIDE DEF r
  <2> QED BY <1>2, <1>3, JobEffect DEF IInv
<1>5. TypeOK'
  BY <1>3, <1>4 DEF IInv, TypeOK, JobRecord, usage
<1>6. JobInv'
  BY <1>2, <1>3, <1>4 DEF IInv, JobInv
<1> QED BY <1>3, <1>5, <1>6 DEF IInv

LEMMA PriceStep == ASSUME IInv, NEW j \in Job, Price(j) PROVE IInv'
<1> DEFINE u == IF job[j].over = 0 THEN 0
                ELSE Blocks(job[j].over) * BlockUnits
                     + Overage(runs[job[j].period]) * TokenUnits
           r == [job[j] EXCEPT !.st = "priced", !.over = 0, !.units = u]
<1>1. job[j] \in JobRecord /\ runs[job[j].period] \in Nat /\ job[j].over \in Nat
  BY DEF IInv, TypeOK, JobRecord
<1>2. u \in Nat
  BY <1>1, PriceType
<1>3. job' = [job EXCEPT ![j] = r] /\ UNCHANGED <<usage, last, billed, faults>>
  BY DEF Price
<1> HIDE DEF u
<1>4. r \in JobRecord /\ r.last = job[j].last /\ r.st # "reported"
  BY <1>1, <1>2 DEF JobRecord, JobState
<1>5. /\ job' \in [Job -> JobRecord] /\ job'[j] = r
      /\ \A k \in Job \ {j} : job'[k] = job[k]
  <2> HIDE DEF r
  <2> QED BY <1>3, <1>4, JobEffect DEF IInv
<1>6. TypeOK'
  BY <1>3, <1>5 DEF IInv, TypeOK, JobRecord, usage
<1>7. JobInv'
  BY <1>3, <1>4, <1>5 DEF IInv, JobInv
<1> QED BY <1>3, <1>6, <1>7 DEF IInv

LEMMA ReportStep == ASSUME IInv, NEW j \in Job, Report(j) PROVE IInv'
<1>1. job[j] \in JobRecord /\ LastOf(j) \in Nat
  BY LastOfType DEF IInv, TypeOK, JobRecord
<1>2. PICK s \in {"unchanged", "reported", "failed"} :
        /\ job' = [job EXCEPT ![j].st = s]
        /\ s = "reported" => job[j].units > LastOf(j) /\ billed' = Received(j)
        /\ \/ billed' = billed
           \/ job[j].units > LastOf(j) /\ billed' = Received(j)
  BY DEF Report
<1>3. UNCHANGED <<usage, last>> /\ faults' \in Nat
  BY DEF Report, Fault, IInv, TypeOK
<1> DEFINE r == [job[j] EXCEPT !.st = s]
<1>4. r \in JobRecord /\ r.last = job[j].last /\ r.st = s
      /\ r.units = job[j].units /\ r.period = job[j].period
  BY <1>1 DEF JobRecord, JobState
<1>5. /\ job' \in [Job -> JobRecord] /\ job'[j] = r
      /\ \A k \in Job \ {j} : job'[k] = job[k]
  <2>1. job' = [job EXCEPT ![j] = r]
    BY <1>2
  <2> HIDE DEF r
  <2> QED BY <1>4, <2>1, JobEffect DEF IInv
<1>6. billed' \in [Period -> Nat] /\ \A p \in Period : billed[p] <= billed'[p]
  BY <1>2, ReceivedEffect DEF IInv, TypeOK
<1>7. TypeOK'
  BY <1>3, <1>5, <1>6 DEF IInv, TypeOK, JobRecord, usage
<1>8. Covered(last, billed)'
  BY <1>3, <1>6, CoveredStays DEF IInv, TypeOK
<1>9. JobInv'
  <2> SUFFICES ASSUME NEW k \in Job
               PROVE  /\ Covered(job[k].last, billed)'
                      /\ (job[k].st = "reported" =>
                            job[k].units <= billed[job[k].period])'
    BY DEF JobInv
  <2>1. job'[k].last = job[k].last /\ job'[k].units = job[k].units
        /\ job'[k].period = job[k].period /\ job[k] \in JobRecord
    BY <1>4, <1>5 DEF IInv, TypeOK, JobRecord
  <2>2. Covered(job[k].last, billed)'
    <3>1. Covered(job[k].last, billed')
      BY <1>6, <2>1, CoveredStays DEF IInv, TypeOK, JobInv, JobRecord
    <3> QED BY <2>1, <3>1 DEF Covered
  <2>3. CASE k # j
    BY <1>5, <1>6, <2>1, <2>2, <2>3 DEF IInv, TypeOK, JobInv, JobRecord
  <2>4. CASE k = j
    <3>1. ASSUME s = "reported" PROVE job[j].units <= billed'[job[j].period]
      <4>1. Received(j)[job[j].period]
              = billed[job[j].period] + (job[j].units - LastOf(j))
        BY <1>2, <3>1, ReceivedEffect DEF IInv
      <4>2. LastOf(j) <= billed[job[j].period]
        BY DEF IInv, TypeOK, JobInv, LastOf, Covered
      <4>3. billed[job[j].period] \in Nat /\ job[j].units \in Nat
        BY DEF IInv, TypeOK
      <4> QED BY <1>1, <1>2, <3>1, <4>1, <4>2, <4>3
    <3> QED BY <1>4, <1>5, <2>1, <2>2, <2>4, <3>1
  <2> QED BY <2>3, <2>4
<1> QED BY <1>7, <1>8, <1>9 DEF IInv

LEMMA WriteStep == ASSUME IInv, NEW j \in Job, Write(j) PROVE IInv'
<1>1. UNCHANGED <<usage, billed>> /\ faults' \in Nat
  BY DEF Write, Fault, IInv, TypeOK
<1>2. /\ job' \in [Job -> JobRecord] /\ job'[j] = Idle
      /\ \A k \in Job \ {j} : job'[k] = job[k]
  BY IdleType, JobEffect DEF IInv, Write
<1>3. last' \in Reported /\ Covered(last, billed)'
  <2>1. CASE last' = last
    BY <1>1, <2>1 DEF IInv, TypeOK, Covered
  <2>2. CASE last' = Unreported
    BY <2>2, MeteringAssumption DEF Unreported, Reported, Covered, Period
  <2>3. CASE /\ job[j].st = "reported"
             /\ last' = [units |-> job[j].units, period |-> job[j].period]
    BY <1>1, <2>3, MeteringAssumption
    DEF IInv, TypeOK, JobInv, Covered, Reported, Period
  <2>4. CASE last' = [units |-> LastOf(j), period |-> job[j].period]
    <3>1. LastOf(j) \in Nat /\ LastOf(j) <= billed[job[j].period]
      BY LastOfType DEF IInv, TypeOK, JobInv, LastOf, Covered
    <3> QED
      BY <1>1, <2>4, <3>1, MeteringAssumption DEF IInv, TypeOK, Covered, Reported, Period
  <2> QED BY <2>1, <2>2, <2>3, <2>4 DEF Write, Marked
<1>4. TypeOK'
  BY <1>1, <1>2, <1>3 DEF IInv, TypeOK, JobRecord, usage
<1>5. JobInv'
  BY <1>1, <1>2 DEF IInv, JobInv, Idle, Unreported, Covered, Period
<1> QED BY <1>3, <1>4, <1>5 DEF IInv

LEMMA CrashStep == ASSUME IInv, Crash PROVE IInv'
<1>1. UNCHANGED <<usage, last, billed>> /\ faults' \in Nat
      /\ job' = [j \in Job |-> Idle]
  BY DEF Crash, Fault, IInv, TypeOK
<1>2. TypeOK'
  BY <1>1, IdleType DEF IInv, TypeOK, JobRecord, usage
<1>3. JobInv'
  BY <1>1 DEF JobInv, Idle, Unreported, Covered, Period
<1> QED BY <1>1, <1>2, <1>3 DEF IInv, Covered

-----------------------------------------------------------------------------
(* Charging twice.  A run that has read currentUsage and not yet reported  *)
(* claims its period: it will add what it finds beyond what it read.  All  *)
(* claims but one were started by an overlap, so each of the others is     *)
(* paid for by a failure of its own.  An event that brings a period back   *)
(* pays for what that period has been charged before.                      *)
Due(p)     == Units(peak[p])
Live(p)    == paid /\ period = p
Active     == {j \in Job : ~Off(j)}
Claimants(p) ==
  {j \in Job : /\ job[j].st \in {"started", "counted", "priced"}
               /\ job[j].paid /\ job[j].period = p}
Margin(p)  == 1 + faults - Cardinality(Claimants(p))
Said(r, p) == IF r.period = p THEN r.units ELSE 0
(* A run that found the plan free leaves nothing marked.                   *)
Mark(j, p) == IF job[j].paid THEN Said(Marked(j), p) ELSE 0

(* A sum b is explained by x and by what one claimant read.                *)
Explained(b, C, x) == b <= x \/ \E c \in C : b <= x + c
Credits(p) == {LastOf(j) : j \in Claimants(p)}

(* Each failure allows the dearest usage once more; a pending claim takes  *)
(* one away in advance.                                                    *)
Bounded(p) == Explained(billed[p], Credits(p), Margin(p) * Due(p))

(* A run that is done claiming will mark enough to explain the rest.       *)
Handed(p) ==
  Live(p) => \A j \in Active \ Claimants(p) :
    Explained(billed[p], Credits(p), (Margin(p) - 1) * Due(p) + Mark(j, p))

(* Between two runs currentUsage explains it.                              *)
Rested(p) ==
  Live(p) /\ Active = {} => billed[p] <= faults * Due(p) + Said(last, p)

LedgerInv == \A p \in Period : Bounded(p) /\ Handed(p) /\ Rested(p)

(* What a run knows never exceeds the dearest usage of its period.         *)
RunOK(r) == r.st # "off" =>
  /\ r.period <= begun
  /\ r.st \in {"counted", "priced", "unchanged", "reported", "failed"} => r.paid
  /\ r.over <= Overage(peak[r.period])
  /\ r.units <= Due(r.period)
  /\ \A p \in Period : Said(r.last, p) <= Due(p)

UseInv ==
  /\ period <= begun
  /\ \A p \in Period : /\ runs[p] <= peak[p]
                       /\ Said(last, p) <= Due(p)
                       /\ p > begun => billed[p] = 0
RunsInv  == \A j \in Job : RunOK(job[j])
StartInv == IsFiniteSet(Active) /\ Cardinality(Active) <= 1 + faults
WorkInv  == UseInv /\ RunsInv /\ StartInv

-----------------------------------------------------------------------------
(* Arithmetic.                                                             *)
LEMMA ProductMonotone ==
  ASSUME NEW a \in Nat, NEW u \in Nat, NEW v \in Nat, u <= v
  PROVE  a * u <= a * v
<1>1. PICK d \in Nat : v = u + d
  <2>1. v - u \in Nat /\ v = u + (v - u)
    OBVIOUS
  <2> QED BY <2>1
<1>2. a * v = a * u + a * d
  BY <1>1
<1>3. a * d \in Nat /\ a * u \in Nat
  BY ProductType
<1> QED BY <1>2, <1>3

LEMMA ProductSwap ==
  ASSUME NEW a \in Nat, NEW b \in Nat, NEW u \in Nat, a <= b
  PROVE  a * u <= b * u
<1>1. u * a <= u * b
  BY ProductMonotone
<1> QED BY <1>1

LEMMA ProductSucc ==
  ASSUME NEW a \in Nat, NEW u \in Nat
  PROVE  (a + 1) * u = a * u + u /\ a * u \in Nat
BY ProductType

LEMMA DivMonotone ==
  ASSUME NEW a \in Nat, NEW b \in Nat, NEW n \in Nat \ {0}, a <= b
  PROVE  a \div n <= b \div n
<1>1. /\ a = n * (a \div n) + (a % n) /\ a % n \in 0 .. n - 1 /\ a \div n \in Nat
      /\ b = n * (b \div n) + (b % n) /\ b % n \in 0 .. n - 1 /\ b \div n \in Nat
  OBVIOUS
<1>2. SUFFICES ASSUME a \div n >= b \div n + 1 PROVE FALSE
  BY <1>1
<1>3. n * (b \div n + 1) <= n * (a \div n)
  BY <1>1, <1>2, ProductMonotone
<1>4. n * (b \div n + 1) = n * (b \div n) + n
  BY <1>1
<1> QED BY <1>1, <1>3, <1>4

LEMMA OverageMonotone ==
  ASSUME NEW m \in Nat, NEW n \in Nat, m <= n
  PROVE  Overage(m) <= Overage(n)
BY MeteringAssumption DEF Overage

LEMMA BlocksMonotone ==
  ASSUME NEW m \in Nat, NEW n \in Nat, m <= n
  PROVE  Blocks(m) <= Blocks(n)
<1> DEFINE a == m + RunBlock - 1
           b == n + RunBlock - 1
<1>1. a \in Nat /\ b \in Nat /\ a <= b /\ RunBlock \in Nat \ {0}
  BY MeteringAssumption
<1>2. a \div RunBlock <= b \div RunBlock
  <2> HIDE DEF a, b
  <2> QED BY <1>1, DivMonotone
<1> QED BY <1>2 DEF Blocks

(* The price of k counted and n priced runs.                               *)
LEMMA PriceMonotone ==
  ASSUME NEW k \in Nat, NEW n \in Nat, NEW m \in Nat,
         k <= Overage(m), n <= m
  PROVE  Blocks(k) * BlockUnits + Overage(n) * TokenUnits
           <= Blocks(Overage(m)) * BlockUnits + Overage(m) * TokenUnits
<1>1. /\ Overage(n) \in Nat /\ Overage(m) \in Nat /\ Overage(n) <= Overage(m)
      /\ BlockUnits \in Nat /\ TokenUnits \in Nat
  BY OverageType, OverageMonotone, MeteringAssumption
<1>2. /\ Blocks(k) \in Nat /\ Blocks(Overage(m)) \in Nat
      /\ Blocks(k) <= Blocks(Overage(m))
  BY <1>1, BlocksType, BlocksMonotone
<1>3. Blocks(k) * BlockUnits <= Blocks(Overage(m)) * BlockUnits
  BY <1>1, <1>2, ProductSwap
<1>4. Overage(n) * TokenUnits <= Overage(m) * TokenUnits
  BY <1>1, ProductSwap
<1>5. /\ Blocks(k) * BlockUnits \in Nat /\ Blocks(Overage(m)) * BlockUnits \in Nat
      /\ Overage(n) * TokenUnits \in Nat /\ Overage(m) * TokenUnits \in Nat
  BY <1>1, <1>2, ProductType
<1> QED BY <1>3, <1>4, <1>5

LEMMA UnitsType == ASSUME NEW n \in Nat PROVE Units(n) \in Nat
BY OverageType, PriceType DEF Units

LEMMA UnitsMonotone ==
  ASSUME NEW m \in Nat, NEW n \in Nat, m <= n
  PROVE  Units(m) <= Units(n)
<1>1. Overage(m) \in Nat /\ Overage(n) \in Nat /\ Overage(m) <= Overage(n)
  BY OverageType, OverageMonotone
<1>2. Units(m) \in Nat /\ Units(n) \in Nat
  BY UnitsType
<1>3. CASE Overage(m) = 0
  BY <1>2, <1>3 DEF Units
<1>4. CASE Overage(m) # 0
  <2>1. Overage(n) # 0
    BY <1>1, <1>4
  <2>2. Blocks(Overage(m)) * BlockUnits + Overage(m) * TokenUnits
          <= Blocks(Overage(n)) * BlockUnits + Overage(n) * TokenUnits
    BY <1>1, PriceMonotone
  <2> QED BY <1>4, <2>1, <2>2 DEF Units
<1> QED BY <1>3, <1>4

(* What is dear stays dear as the peaks rise.                              *)
LEMMA DueType == ASSUME TypeOK, NEW p \in Period PROVE Due(p) \in Nat
BY UnitsType DEF TypeOK, Due

LEMMA DueRises ==
  ASSUME TypeOK, TypeOK', \A p \in Period : peak[p] <= peak'[p], NEW p \in Period
  PROVE  /\ Due(p) \in Nat /\ Due(p)' \in Nat /\ Due(p) <= Due(p)'
         /\ Overage(peak[p]) \in Nat /\ Overage(peak'[p]) \in Nat
         /\ Overage(peak[p]) <= Overage(peak'[p])
<1>1. peak[p] \in Nat /\ peak'[p] \in Nat /\ peak[p] <= peak'[p]
  BY DEF TypeOK
<1> QED BY <1>1, UnitsType, UnitsMonotone, OverageType, OverageMonotone DEF Due

LEMMA SaidType ==
  ASSUME NEW r \in Reported, NEW p PROVE Said(r, p) \in Nat
BY DEF Said, Reported

-----------------------------------------------------------------------------
(* The steps of the runs.                                                  *)

(* A run's knowledge stays good while peaks rise and periods end.          *)
LEMMA RunStays ==
  ASSUME TypeOK, TypeOK', NEW r \in JobRecord, RunOK(r),
         \A p \in Period : peak[p] <= peak'[p], begun <= begun'
  PROVE  RunOK(r)'
<1>1. SUFFICES ASSUME r.st # "off"
               PROVE  /\ r.period <= begun'
                      /\ r.st \in {"counted", "priced", "unchanged", "reported", "failed"} => r.paid
                      /\ r.over <= Overage(peak'[r.period])
                      /\ r.units <= Due(r.period)'
                      /\ \A p \in Period : Said(r.last, p) <= Due(p)'
  BY DEF RunOK, Due
<1>2. /\ r.period <= begun
      /\ r.st \in {"counted", "priced", "unchanged", "reported", "failed"} => r.paid
      /\ r.over <= Overage(peak[r.period])
      /\ r.units <= Due(r.period)
      /\ \A p \in Period : Said(r.last, p) <= Due(p)
  BY <1>1 DEF RunOK
<1>3. /\ r.period \in Period /\ r.over \in Nat /\ r.units \in Nat /\ r.last \in Reported
      /\ begun \in Nat /\ begun' \in Nat /\ r.period \in Nat
  BY MeteringAssumption DEF TypeOK, JobRecord, Period
<1>4. r.over <= Overage(peak'[r.period]) /\ r.units <= Due(r.period)'
  BY <1>2, <1>3, DueRises
<1>5. ASSUME NEW p \in Period PROVE Said(r.last, p) <= Due(p)'
  BY <1>2, <1>3, DueRises, SaidType
<1> QED BY <1>2, <1>3, <1>4, <1>5

(* Nothing but the usage changes: runs, units and claims are as before.    *)
LEMMA UsageWork ==
  ASSUME IInv, IInv', WorkInv, AiRun \/ DeleteSession \/ Renew \/ Unsubscribe
  PROVE  /\ WorkInv'
         /\ \A p \in Period : /\ peak[p] <= peak'[p]
                              /\ Live(p)' /\ ~Live(p) => p > begun
         /\ UNCHANGED <<last, billed, job, faults>>
<1>1. TypeOK /\ TypeOK' /\ UNCHANGED <<last, billed, job, faults>>
  BY DEF IInv, AiRun, DeleteSession, Renew, Unsubscribe
<1>2. /\ \A p \in Period : peak[p] \in Nat /\ runs[p] \in Nat /\ p \in Nat
      /\ period \in Nat /\ begun \in Nat /\ period' \in Nat /\ begun' \in Nat
  <2>1. \A p \in Period : p \in Nat
    BY MeteringAssumption DEF Period
  <2> QED BY <1>1, <2>1 DEF TypeOK
<1>3. \A p \in Period : peak[p] <= peak'[p] /\ runs'[p] <= peak'[p]
  <2>1. CASE AiRun
    BY <1>1, <1>2, <2>1 DEF AiRun, WorkInv, UseInv, TypeOK
  <2>2. CASE DeleteSession
    <3>1. PICK q \in 1 .. begun : runs[q] > 0 /\ runs' = [runs EXCEPT ![q] = @ - 1]
      BY <2>2 DEF DeleteSession
    <3>2. q \in Period /\ peak' = peak
      BY <1>1, <2>2, MeteringAssumption DEF DeleteSession, TypeOK, Period
    <3>3. \A p \in Period : runs'[p] <= runs[p]
      BY <1>1, <1>2, <3>1, <3>2 DEF TypeOK
    <3> QED BY <1>1, <1>2, <3>2, <3>3 DEF WorkInv, UseInv, TypeOK
  <2>3. CASE Renew \/ Unsubscribe
    BY <1>2, <2>3 DEF Renew, Unsubscribe, WorkInv, UseInv
  <2> QED BY <2>1, <2>2, <2>3
<1>4. /\ begun <= begun'
      /\ \A p \in Period : Live(p)' /\ ~Live(p) => p > begun
      /\ period <= begun => period' <= begun'
  BY <1>2 DEF Live, AiRun, DeleteSession, Renew, Unsubscribe
<1>5. UseInv'
  <2>1. ASSUME NEW p \in Period PROVE Said(last', p) <= Due(p)'
    <3>1. Said(last, p) <= Due(p) /\ Said(last, p) \in Nat
      BY <1>1, SaidType DEF WorkInv, UseInv, TypeOK
    <3> QED BY <1>1, <1>3, <3>1, DueRises
  <2>2. \A p \in Period : p > begun' => billed'[p] = 0
    BY <1>1, <1>2, <1>4 DEF WorkInv, UseInv
  <2>3. period' <= begun'
    BY <1>4 DEF WorkInv, UseInv
  <2> QED BY <1>3, <2>1, <2>2, <2>3 DEF UseInv
<1>6. RunsInv'
  <2> SUFFICES ASSUME NEW j \in Job PROVE RunOK(job[j])'
    BY DEF RunsInv
  <2>1. job[j] \in JobRecord /\ RunOK(job[j])
    BY <1>1 DEF TypeOK, JobRecord, WorkInv, RunsInv
  <2>2. PICK r \in JobRecord : r = job[j]
    BY <2>1
  <2>3. RunOK(r)
    BY <2>1, <2>2
  <2>4. RunOK(r)'
    BY <1>1, <1>3, <1>4, <2>3, RunStays
  <2> QED BY <1>1, <2>2, <2>4 DEF RunOK, Due
<1>7. StartInv'
  BY <1>1 DEF WorkInv, StartInv, Active, Off
<1> QED BY <1>1, <1>3, <1>4, <1>5, <1>6, <1>7 DEF WorkInv

LEMMA LateWork ==
  ASSUME IInv, IInv', WorkInv, LateEvent PROVE WorkInv'
<1>1. UNCHANGED <<begun, runs, peak, last, billed, job>> /\ faults' = faults + 1
      /\ faults \in Nat
  BY DEF LateEvent, Fault, IInv, TypeOK
<1>2. Active' = Active
  BY <1>1 DEF Active, Off
<1>3. StartInv'
  <2>1. Cardinality(Active) \in Nat
    BY FS_CardinalityType DEF WorkInv, StartInv
  <2> QED BY <1>1, <1>2, <2>1 DEF WorkInv, StartInv
<1>4. period' <= begun'
  BY <1>1, MeteringAssumption DEF LateEvent, IInv, TypeOK, Period
<1>5. UseInv' /\ RunsInv'
  BY <1>1, <1>4 DEF WorkInv, UseInv, RunsInv, RunOK, Due
<1> QED BY <1>3, <1>5 DEF WorkInv

(* A step of one run, seen from its record.                                *)
LEMMA RunWork ==
  ASSUME IInv, IInv', WorkInv, NEW j \in Job, NEW r \in JobRecord, RunOK(r)',
         job' = [job EXCEPT ![j] = r], UNCHANGED usage,
         job[j].st = "off" => r.st = "off", faults \in Nat, faults' \in Nat, faults <= faults',
         \A p \in Period : Said(last', p) <= Due(p),
         \A p \in Period : p > begun => billed'[p] = 0
  PROVE  WorkInv'
<1>1. TypeOK /\ TypeOK' /\ UNCHANGED <<paid, period, begun, runs, peak>>
  BY DEF IInv, usage
<1>2. job'[j] = r /\ \A k \in Job \ {j} : job'[k] = job[k]
  BY <1>1, JobEffect
<1>3. UseInv'
  BY <1>1 DEF WorkInv, UseInv, Due
<1>4. RunsInv'
  <2> SUFFICES ASSUME NEW k \in Job PROVE RunOK(job[k])'
    BY DEF RunsInv
  <2>1. CASE k = j
    BY <1>2, <2>1 DEF RunOK, Due
  <2>2. CASE k # j
    <3>1. RunOK(job[k])
      BY DEF WorkInv, RunsInv
    <3> QED BY <1>1, <1>2, <2>2, <3>1 DEF RunOK, Due
  <2> QED BY <2>1, <2>2
<1>5. StartInv'
  <2>1. Active' \subseteq Active
    BY <1>2 DEF Active, Off
  <2>2. /\ IsFiniteSet(Active') /\ Cardinality(Active') <= Cardinality(Active)
        /\ Cardinality(Active) \in Nat /\ Cardinality(Active') \in Nat
    BY <2>1, FS_Subset, FS_CardinalityType DEF WorkInv, StartInv
  <2> QED BY <2>2 DEF WorkInv, StartInv
<1> QED BY <1>3, <1>4, <1>5 DEF WorkInv

(* Counting and pricing fill in a run's own record.                        *)
LEMMA CountEffect ==
  ASSUME IInv, NEW j \in Job, Count(j)
  PROVE  /\ UNCHANGED <<usage, last, billed, faults>>
         /\ \E r \in JobRecord :
              /\ job' = [job EXCEPT ![j] = r]
              /\ r.st = IF job[j].paid THEN "counted" ELSE "free"
              /\ r.paid = job[j].paid /\ r.period = job[j].period /\ r.last = job[j].last
              /\ r.over = Overage(runs[job[j].period]) /\ r.units = job[j].units
<1>1. job[j] \in JobRecord /\ runs[job[j].period] \in Nat
  BY DEF IInv, TypeOK, JobRecord
<1> DEFINE r == [job[j] EXCEPT !.st = IF job[j].paid THEN "counted" ELSE "free",
                               !.over = Overage(runs[job[j].period])]
<1>2. /\ r \in JobRecord /\ r.st = IF job[j].paid THEN "counted" ELSE "free"
      /\ r.paid = job[j].paid /\ r.period = job[j].period /\ r.last = job[j].last
      /\ r.over = Overage(runs[job[j].period]) /\ r.units = job[j].units
  BY <1>1, OverageType DEF JobRecord, JobState
<1>3. job' = [job EXCEPT ![j] = r] /\ UNCHANGED <<usage, last, billed, faults>>
  BY DEF Count
<1> HIDE DEF r
<1> QED BY <1>2, <1>3

LEMMA PriceEffect ==
  ASSUME IInv, NEW j \in Job, Price(j)
  PROVE  /\ UNCHANGED <<usage, last, billed, faults>> /\ job[j].st = "counted"
         /\ \E r \in JobRecord :
              /\ job' = [job EXCEPT ![j] = r]
              /\ r.st = "priced" /\ r.paid = job[j].paid /\ r.period = job[j].period
              /\ r.last = job[j].last /\ r.over = 0
              /\ r.units = IF job[j].over = 0 THEN 0
                           ELSE Blocks(job[j].over) * BlockUnits
                                + Overage(runs[job[j].period]) * TokenUnits
<1> DEFINE u == IF job[j].over = 0 THEN 0
                ELSE Blocks(job[j].over) * BlockUnits
                     + Overage(runs[job[j].period]) * TokenUnits
           r == [job[j] EXCEPT !.st = "priced", !.over = 0, !.units = u]
<1>1. job[j] \in JobRecord /\ runs[job[j].period] \in Nat /\ job[j].over \in Nat
  BY DEF IInv, TypeOK, JobRecord
<1>2. u \in Nat
  BY <1>1, PriceType
<1>3. /\ job' = [job EXCEPT ![j] = r] /\ UNCHANGED <<usage, last, billed, faults>>
      /\ job[j].st = "counted"
  BY DEF Price
<1>4. u = IF job[j].over = 0 THEN 0
          ELSE Blocks(job[j].over) * BlockUnits + Overage(runs[job[j].period]) * TokenUnits
  OBVIOUS
<1> HIDE DEF u
<1>5. /\ r \in JobRecord /\ r.st = "priced" /\ r.paid = job[j].paid
      /\ r.period = job[j].period /\ r.last = job[j].last /\ r.over = 0 /\ r.units = u
  BY <1>1, <1>2 DEF JobRecord, JobState
<1> HIDE DEF r
<1> QED BY <1>3, <1>4, <1>5

(* A report changes the state of the run and what Stripe received.         *)
LEMMA ReportEffect ==
  ASSUME IInv, NEW j \in Job, Report(j)
  PROVE  /\ UNCHANGED <<usage, last>> /\ job[j].st = "priced"
         /\ \E r \in JobRecord :
              /\ job' = [job EXCEPT ![j] = r]
              /\ r.paid = job[j].paid /\ r.period = job[j].period /\ r.last = job[j].last
              /\ r.over = job[j].over /\ r.units = job[j].units
              /\ \/ /\ r.st = "unchanged" /\ job[j].units <= LastOf(j)
                    /\ UNCHANGED <<billed, faults>>
                 \/ /\ r.st = "reported" /\ job[j].units > LastOf(j)
                    /\ billed' = Received(j) /\ UNCHANGED faults
                 \/ /\ r.st = "failed" /\ job[j].units > LastOf(j)
                    /\ billed' \in {billed, Received(j)} /\ faults' = faults + 1
<1>1. job[j] \in JobRecord
  BY DEF IInv, TypeOK, JobRecord
<1>2. PICK s \in {"unchanged", "reported", "failed"} :
        /\ job' = [job EXCEPT ![j].st = s]
        /\ \/ /\ s = "unchanged" /\ job[j].units <= LastOf(j)
              /\ UNCHANGED <<billed, faults>>
           \/ /\ s = "reported" /\ job[j].units > LastOf(j)
              /\ billed' = Received(j) /\ UNCHANGED faults
           \/ /\ s = "failed" /\ job[j].units > LastOf(j)
              /\ billed' \in {billed, Received(j)} /\ faults' = faults + 1
  BY DEF Report, Fault
<1> DEFINE r == [job[j] EXCEPT !.st = s]
<1>3. /\ r \in JobRecord /\ r.st = s /\ r.paid = job[j].paid /\ r.period = job[j].period
      /\ r.last = job[j].last /\ r.over = job[j].over /\ r.units = job[j].units
  BY <1>1 DEF JobRecord, JobState
<1>4. job' = [job EXCEPT ![j] = r]
  BY <1>2
<1>5. UNCHANGED <<usage, last>> /\ job[j].st = "priced"
  BY DEF Report
<1> HIDE DEF r
<1> QED BY <1>2, <1>3, <1>4, <1>5

(* Each step of a run keeps what the runs know.                            *)
LEMMA CountWork ==
  ASSUME IInv, IInv', WorkInv, NEW j \in Job, Count(j) PROVE WorkInv'
<1>1. PICK r \in JobRecord :
        /\ job' = [job EXCEPT ![j] = r]
        /\ r.st = IF job[j].paid THEN "counted" ELSE "free"
        /\ r.paid = job[j].paid /\ r.period = job[j].period /\ r.last = job[j].last
        /\ r.over = Overage(runs[job[j].period]) /\ r.units = job[j].units
  BY CountEffect
<1>2. /\ UNCHANGED <<usage, last, billed, faults>> /\ job[j].st = "started"
      /\ UNCHANGED <<paid, period, begun, runs, peak>>
  BY CountEffect DEF Count, usage
<1>3. r.over <= Overage(peak[r.period])
  <2>1. /\ r.period \in Period /\ runs[r.period] \in Nat /\ peak[r.period] \in Nat
        /\ runs[r.period] <= peak[r.period]
    BY <1>1 DEF IInv, TypeOK, JobRecord, WorkInv, UseInv
  <2> QED BY <1>1, <2>1, OverageMonotone
<1>4. RunOK(job[j])
  BY DEF WorkInv, RunsInv
<1>5. RunOK(r)'
  BY <1>1, <1>2, <1>3, <1>4 DEF RunOK, Due
<1>6. faults \in Nat /\ faults' \in Nat /\ faults <= faults'
  BY <1>2 DEF IInv, TypeOK
<1> QED BY <1>1, <1>2, <1>5, <1>6, RunWork DEF WorkInv, UseInv

LEMMA PriceWork ==
  ASSUME IInv, IInv', WorkInv, NEW j \in Job, Price(j) PROVE WorkInv'
<1>1. PICK r \in JobRecord :
        /\ job' = [job EXCEPT ![j] = r]
        /\ r.st = "priced" /\ r.paid = job[j].paid /\ r.period = job[j].period
        /\ r.last = job[j].last /\ r.over = 0
        /\ r.units = IF job[j].over = 0 THEN 0
                     ELSE Blocks(job[j].over) * BlockUnits
                          + Overage(runs[job[j].period]) * TokenUnits
  BY PriceEffect
<1>2. /\ UNCHANGED <<usage, last, billed, faults>> /\ job[j].st = "counted"
      /\ UNCHANGED <<paid, period, begun, runs, peak>>
  BY PriceEffect DEF usage
<1>3. RunOK(job[j])
  BY DEF WorkInv, RunsInv
<1>4. /\ r.period \in Period /\ runs[r.period] \in Nat /\ peak[r.period] \in Nat
      /\ runs[r.period] <= peak[r.period] /\ job[j].over \in Nat
      /\ job[j].over <= Overage(peak[r.period]) /\ Overage(peak[r.period]) \in Nat
      /\ Due(r.period) \in Nat
  BY <1>1, <1>2, <1>3, OverageType, DueType DEF IInv, TypeOK, JobRecord, WorkInv, UseInv, RunOK
<1>5. r.over <= Overage(peak[r.period])
  BY <1>1, <1>4
<1>6. r.units <= Due(r.period)
  <2>1. CASE job[j].over = 0
    BY <1>1, <1>4, <2>1
  <2>2. CASE job[j].over # 0
    <3>1. Overage(peak[r.period]) # 0
      BY <1>4, <2>2
    <3>2. r.units <= Blocks(Overage(peak[r.period])) * BlockUnits
                     + Overage(peak[r.period]) * TokenUnits
      BY <1>1, <1>4, <2>2, PriceMonotone
    <3> QED BY <3>1, <3>2 DEF Due, Units
  <2> QED BY <2>1, <2>2
<1>7. RunOK(r)'
  BY <1>1, <1>2, <1>3, <1>5, <1>6 DEF RunOK, Due
<1>8. faults \in Nat /\ faults' \in Nat /\ faults <= faults'
  BY <1>2 DEF IInv, TypeOK
<1> QED BY <1>1, <1>2, <1>7, <1>8, RunWork DEF WorkInv, UseInv

LEMMA ReportWork ==
  ASSUME IInv, IInv', WorkInv, NEW j \in Job, Report(j) PROVE WorkInv'
<1>1. PICK r \in JobRecord :
        /\ job' = [job EXCEPT ![j] = r]
        /\ r.paid = job[j].paid /\ r.period = job[j].period /\ r.last = job[j].last
        /\ r.over = job[j].over /\ r.units = job[j].units
        /\ r.st \in {"unchanged", "reported", "failed"}
  BY ReportEffect
<1>2. /\ UNCHANGED <<usage, last>> /\ job[j].st = "priced"
      /\ UNCHANGED <<paid, period, begun, runs, peak>>
      /\ faults' \in {faults, faults + 1}
      /\ \/ billed' = billed
         \/ billed' = Received(j) /\ job[j].units > LastOf(j)
  BY ReportEffect DEF usage
<1>3. RunOK(job[j]) /\ job[j].period \in Period
  BY DEF WorkInv, RunsInv, IInv, TypeOK
<1>4. RunOK(r)'
  BY <1>1, <1>2, <1>3 DEF RunOK, Due
<1>5. ASSUME NEW p \in Period, p > begun PROVE billed'[p] = 0
  <2>1. billed[p] = 0
    BY <1>5 DEF WorkInv, UseInv
  <2>2. p # job[j].period
    BY <1>2, <1>3, <1>5, MeteringAssumption DEF RunOK, IInv, TypeOK, Period
  <2>3. CASE billed' = Received(j)
    BY <2>1, <2>2, <2>3 DEF Received, IInv, TypeOK
  <2> QED BY <1>2, <2>1, <2>3
<1>6. faults \in Nat /\ faults' \in Nat /\ faults <= faults'
  BY <1>2 DEF IInv, TypeOK
<1>7. \A p \in Period : Said(last', p) <= Due(p)
  BY <1>2 DEF WorkInv, UseInv
<1> QED BY <1>1, <1>2, <1>4, <1>5, <1>6, <1>7, RunWork

LEMMA WriteWork ==
  ASSUME IInv, IInv', WorkInv, NEW j \in Job, Write(j) PROVE WorkInv'
<1>1. /\ job' = [job EXCEPT ![j] = Idle] /\ UNCHANGED <<usage, billed>>
      /\ last' = last \/ last' = Marked(j)
      /\ faults' \in {faults, faults + 1}
      /\ job[j].st # "off"
  BY DEF Write, Fault
<1>2. Idle \in JobRecord /\ RunOK(Idle)'
  BY IdleType DEF RunOK, Idle
<1>3. ASSUME NEW p \in Period PROVE Said(last', p) <= Due(p)
  <2>1. CASE last' = last
    BY <2>1 DEF WorkInv, UseInv
  <2>2. CASE last' = Marked(j)
    <3>1. RunOK(job[j]) /\ job[j].period \in Period /\ Due(p) \in Nat
      BY DueType DEF WorkInv, RunsInv, IInv, TypeOK
    <3>2. Said(Unreported, p) = 0
      BY MeteringAssumption DEF Said, Unreported, Period
    <3>3. Said([units |-> job[j].units, period |-> job[j].period], p) <= Due(p)
      BY <1>1, <3>1 DEF Said, RunOK
    <3>4. Said([units |-> LastOf(j), period |-> job[j].period], p) <= Due(p)
      BY <1>1, <3>1 DEF Said, RunOK, LastOf
    <3> QED BY <2>2, <3>1, <3>2, <3>3, <3>4 DEF Marked
  <2> QED BY <1>1, <2>1, <2>2
<1>4. \A p \in Period : p > begun => billed'[p] = 0
  BY <1>1 DEF WorkInv, UseInv
<1>5. faults \in Nat /\ faults' \in Nat /\ faults <= faults'
  BY <1>1 DEF IInv, TypeOK
<1> QED BY <1>1, <1>2, <1>3, <1>4, <1>5, RunWork

(* A run that starts beside others costs a failure.                        *)
LEMMA StartEffect ==
  ASSUME IInv, NEW j \in Job, Start(j)
  PROVE  /\ UNCHANGED <<usage, last, billed>> /\ j \notin Active
         /\ \/ Active = {} /\ UNCHANGED faults
            \/ faults' = faults + 1
         /\ \E r \in JobRecord :
              /\ job' = [job EXCEPT ![j] = r] /\ r.st = "started" /\ r.paid = paid
              /\ r.period = period /\ r.last = last /\ r.over = 0 /\ r.units = 0
<1> DEFINE r == [Idle EXCEPT !.st = "started", !.paid = paid, !.period = period, !.last = last]
<1>1. /\ r \in JobRecord /\ r.st = "started" /\ r.paid = paid
      /\ r.period = period /\ r.last = last /\ r.over = 0 /\ r.units = 0
  BY IdleType DEF IInv, TypeOK, Idle, JobRecord, JobState
<1>2. job' = [job EXCEPT ![j] = r] /\ UNCHANGED <<usage, last, billed>> /\ j \notin Active
  BY DEF Start, Active
<1>3. \/ Active = {} /\ UNCHANGED faults
      \/ faults' = faults + 1
  BY DEF Start, Fault, Active
<1> HIDE DEF r
<1> QED BY <1>1, <1>2, <1>3

LEMMA StartWork ==
  ASSUME IInv, IInv', WorkInv, NEW j \in Job, Start(j) PROVE WorkInv'
<1>1. PICK r \in JobRecord :
        /\ job' = [job EXCEPT ![j] = r] /\ r.st = "started" /\ r.paid = paid
        /\ r.period = period /\ r.last = last /\ r.over = 0 /\ r.units = 0
  BY StartEffect
<1>2. /\ UNCHANGED <<paid, period, begun, runs, peak, last, billed>> /\ j \notin Active
      /\ (Active = {} /\ UNCHANGED faults) \/ faults' = faults + 1
      /\ faults \in Nat /\ period \in Period
  BY StartEffect DEF usage, IInv, TypeOK
<1>3. job'[j] = r /\ \A k \in Job \ {j} : job'[k] = job[k]
  BY <1>1, JobEffect DEF IInv
<1>4. UseInv'
  BY <1>2 DEF WorkInv, UseInv, Due
<1>5. RunsInv'
  <2> SUFFICES ASSUME NEW k \in Job PROVE RunOK(job[k])'
    BY DEF RunsInv
  <2>1. CASE k = j
    <3>1. /\ r.period <= begun
          /\ r.over <= Overage(peak[r.period]) /\ r.units <= Due(r.period)
          /\ \A p \in Period : Said(r.last, p) <= Due(p)
      <4>1. Overage(peak[period]) \in Nat /\ Due(period) \in Nat /\ period \in Nat
        <5>1. period \in Period /\ peak[period] \in Nat /\ TypeOK
          BY DEF IInv, TypeOK
        <5> QED BY <5>1, OverageType, DueType, MeteringAssumption DEF Period
      <4>2. \A p \in Period : Said(r.last, p) <= Due(p)
        BY <1>1 DEF WorkInv, UseInv
      <4> QED BY <1>1, <4>1, <4>2 DEF WorkInv, UseInv
    <3> QED BY <1>1, <1>2, <1>3, <2>1, <3>1 DEF RunOK, Due
  <2>2. CASE k # j
    <3>1. RunOK(job[k])
      BY DEF WorkInv, RunsInv
    <3>2. job'[k] = job[k] /\ UNCHANGED <<begun, peak>>
      BY <1>2, <1>3, <2>2
    <3> QED BY <3>1, <3>2 DEF RunOK, Due
  <2> QED BY <2>1, <2>2
<1>6. StartInv'
  <2>1. Active' = Active \cup {j}
    BY <1>1, <1>3 DEF Active, Off
  <2>2. /\ IsFiniteSet(Active') /\ Cardinality(Active') = Cardinality(Active) + 1
        /\ Cardinality(Active) \in Nat
    BY <1>2, <2>1, FS_AddElement, FS_CardinalityType DEF WorkInv, StartInv
  <2>3. CASE Active = {} /\ UNCHANGED faults
    BY <1>2, <2>2, <2>3, FS_EmptySet DEF StartInv
  <2>4. CASE faults' = faults + 1
    BY <1>2, <2>2, <2>4 DEF WorkInv, StartInv
  <2> QED BY <1>2, <2>3, <2>4
<1> QED BY <1>4, <1>5, <1>6 DEF WorkInv

LEMMA CrashWork ==
  ASSUME IInv, IInv', WorkInv, Crash PROVE WorkInv'
<1>1. UNCHANGED <<paid, period, begun, runs, peak, last, billed>> /\ faults' = faults + 1
      /\ job' = [j \in Job |-> Idle] /\ faults \in Nat
  BY DEF Crash, Fault, usage, IInv, TypeOK
<1>2. \A j \in Job : job'[j].st = "off"
  BY <1>1 DEF Idle
<1>3. UseInv'
  BY <1>1 DEF WorkInv, UseInv, Due
<1>4. RunsInv'
  BY <1>2 DEF RunsInv, RunOK
<1>5. Active' = {}
  BY <1>2 DEF Active, Off
<1>6. StartInv'
  BY <1>1, <1>5, FS_EmptySet DEF StartInv
<1> QED BY <1>3, <1>4, <1>6 DEF WorkInv

-----------------------------------------------------------------------------
(* What explains a sum.                                                    *)
LEMMA ExplainedMore ==
  ASSUME NEW b \in Nat, NEW C \in SUBSET Nat, NEW D \in SUBSET Nat, C \subseteq D,
         NEW x \in Nat, NEW y \in Nat, x <= y, Explained(b, C, x)
  PROVE  Explained(b, D, y)
BY DEF Explained

LEMMA ExplainedCap ==
  ASSUME NEW b \in Nat, NEW C \in SUBSET Nat, NEW x \in Nat, NEW u \in Nat,
         \A c \in C : c <= u, Explained(b, C, x)
  PROVE  b <= x + u
BY DEF Explained

(* A claimant that read l and reports u adds u - l: either l was the       *)
(* credit that explained the sum, or some other is still there.            *)
LEMMA ExplainedCharge ==
  ASSUME NEW b \in Nat, NEW C \in SUBSET Nat, NEW D \in SUBSET Nat,
         NEW x \in Nat, NEW u \in Nat, NEW l \in Nat, l <= u,
         \A c \in C : c = l \/ c \in D, Explained(b, C, x)
  PROVE  Explained(b + (u - l), D, x + u)
<1>1. CASE b <= x
  BY <1>1 DEF Explained
<1>2. ASSUME NEW c \in C, b <= x + c PROVE Explained(b + (u - l), D, x + u)
  <2>1. CASE c = l
    BY <1>2, <2>1 DEF Explained
  <2>2. CASE c \in D
    <3>1. b + (u - l) <= (x + u) + c
      BY <1>2
    <3> QED BY <2>2, <3>1 DEF Explained
  <2> QED BY <2>1, <2>2
<1> QED BY <1>1, <1>2 DEF Explained

(* A claimant that has nothing to add leaves the sum to what it read.      *)
LEMMA ExplainedUsed ==
  ASSUME NEW b \in Nat, NEW C \in SUBSET Nat, NEW D \in SUBSET Nat,
         NEW x \in Nat, NEW l \in Nat,
         \A c \in C : c = l \/ c \in D, Explained(b, C, x)
  PROVE  Explained(b, D, x + l)
<1>1. CASE b <= x
  BY <1>1 DEF Explained
<1>2. ASSUME NEW c \in C, b <= x + c PROVE Explained(b, D, x + l)
  <2>1. CASE c = l
    BY <1>2, <2>1 DEF Explained
  <2>2. CASE c \in D
    <3>1. b <= (x + l) + c
      BY <1>2
    <3> QED BY <2>2, <3>1 DEF Explained
  <2> QED BY <2>1, <2>2
<1> QED BY <1>1, <1>2 DEF Explained

(* The claims on a period: finitely many, at most one more than failures,  *)
(* and none has read more than the period's dearest usage.                 *)
LEMMA ClaimFacts ==
  ASSUME IInv, WorkInv, NEW p \in Period
  PROVE  /\ Claimants(p) \subseteq Active /\ IsFiniteSet(Claimants(p))
         /\ Cardinality(Claimants(p)) \in Nat /\ Margin(p) \in Nat /\ faults \in Nat
         /\ Margin(p) <= 1 + faults
         /\ Active # Claimants(p) => Margin(p) - 1 \in Nat
         /\ Claimants(p) # {} => Margin(p) <= faults
         /\ Credits(p) \in SUBSET Nat /\ \A c \in Credits(p) : c <= Due(p)
         /\ Due(p) \in Nat /\ billed[p] \in Nat
         /\ \A j \in Job : LastOf(j) \in Nat /\ Mark(j, p) \in Nat
<1>1. Claimants(p) \subseteq Active
  BY DEF Claimants, Active, Off
<1>2. /\ IsFiniteSet(Claimants(p)) /\ Cardinality(Claimants(p)) <= Cardinality(Active)
      /\ Cardinality(Active) = Cardinality(Claimants(p)) => Active = Claimants(p)
      /\ Cardinality(Claimants(p)) \in Nat /\ Cardinality(Active) \in Nat
  BY <1>1, FS_Subset, FS_CardinalityType DEF WorkInv, StartInv
<1>3. Claimants(p) # {} => Cardinality(Claimants(p)) >= 1
  BY <1>2, FS_EmptySet
<1>4. faults \in Nat /\ Cardinality(Active) <= 1 + faults
  BY DEF IInv, TypeOK, WorkInv, StartInv
<1>5. \A j \in Job : LastOf(j) \in Nat /\ Mark(j, p) \in Nat
  <2>1. \A j \in Job : LastOf(j) \in Nat /\ job[j].units \in Nat
    BY LastOfType DEF IInv, TypeOK
  <2> QED BY <2>1 DEF Mark, Said, Marked, Unreported
<1>6. ASSUME NEW j \in Claimants(p) PROVE LastOf(j) <= Due(p)
  <2>1. RunOK(job[j]) /\ job[j].st # "off" /\ job[j].period = p /\ j \in Job
    BY DEF Claimants, WorkInv, RunsInv
  <2>2. LastOf(j) = Said(job[j].last, p)
    BY <2>1 DEF LastOf, Said
  <2> QED BY <2>1, <2>2 DEF RunOK
<1>7. Credits(p) \in SUBSET Nat /\ \A c \in Credits(p) : c <= Due(p)
  BY <1>1, <1>5, <1>6 DEF Credits, Claimants
<1>8. Due(p) \in Nat /\ billed[p] \in Nat
  BY DueType DEF IInv, TypeOK
<1>9. /\ Margin(p) \in Nat /\ Margin(p) <= 1 + faults
      /\ Active # Claimants(p) => Margin(p) - 1 \in Nat
      /\ Claimants(p) # {} => Margin(p) <= faults
  BY <1>2, <1>3, <1>4 DEF Margin
<1> QED BY <1>1, <1>2, <1>4, <1>5, <1>7, <1>8, <1>9

(* The bound can only have grown for a period whose sum and claims stay.   *)
LEMMA LedgerStays ==
  ASSUME IInv, IInv', WorkInv, WorkInv', NEW p \in Period, Bounded(p), Handed(p),
         billed'[p] = billed[p], Claimants(p)' = Claimants(p), Credits(p)' = Credits(p),
         faults <= faults', Due(p) <= Due(p)', Live(p)' => Live(p),
         Live(p)' => \A j \in Active' \ Claimants(p) :
                       j \in Active /\ Mark(j, p)' = Mark(j, p)
  PROVE  Bounded(p)' /\ Handed(p)'
<1>1. /\ Margin(p) \in Nat /\ Margin(p)' \in Nat /\ Margin(p) <= Margin(p)'
      /\ Due(p) \in Nat /\ Due(p)' \in Nat /\ billed[p] \in Nat
      /\ Credits(p) \in SUBSET Nat
  <2>1. Cardinality(Claimants(p)) \in Nat /\ faults \in Nat /\ faults' \in Nat
    BY ClaimFacts DEF IInv, TypeOK
  <2>2. Margin(p) <= Margin(p)' /\ Margin(p)' \in Nat
    BY <2>1, ClaimFacts DEF Margin
  <2>3. Due(p)' \in Nat
    BY UnitsType DEF IInv, TypeOK, Due
  <2> QED BY <2>2, <2>3, ClaimFacts
<1>2. ASSUME NEW m \in Nat, NEW n \in Nat, m <= n
      PROVE  /\ m * Due(p) \in Nat /\ n * Due(p)' \in Nat
             /\ m * Due(p) <= n * Due(p)'
  <2>1. m * Due(p) <= n * Due(p) /\ n * Due(p) <= n * Due(p)'
    BY <1>1, <1>2, ProductMonotone, ProductSwap
  <2>2. m * Due(p) \in Nat /\ n * Due(p)' \in Nat /\ n * Due(p) \in Nat
    BY <1>1, ProductType
  <2> QED BY <2>1, <2>2
<1>3. Bounded(p)'
  <2>1. Explained(billed[p], Credits(p), Margin(p)' * Due(p)')
    BY <1>1, <1>2, ExplainedMore DEF Bounded
  <2> QED BY <2>1 DEF Bounded
<1>4. Handed(p)'
  <2> SUFFICES ASSUME Live(p)', NEW j \in Active' \ Claimants(p)
               PROVE  Explained(billed[p], Credits(p),
                                (Margin(p)' - 1) * Due(p)' + Mark(j, p)')
    BY DEF Handed
  <2>1. j \in Active \ Claimants(p) /\ Mark(j, p)' = Mark(j, p) /\ j \in Job
    BY DEF Active
  <2>2. Margin(p) - 1 \in Nat /\ Margin(p)' - 1 \in Nat /\ Mark(j, p) \in Nat
    BY <1>1, <2>1, ClaimFacts
  <2>3. /\ (Margin(p) - 1) * Due(p) \in Nat /\ (Margin(p)' - 1) * Due(p)' \in Nat
        /\ (Margin(p) - 1) * Due(p) <= (Margin(p)' - 1) * Due(p)'
    BY <1>1, <1>2, <2>2
  <2>4. Explained(billed[p], Credits(p), (Margin(p) - 1) * Due(p) + Mark(j, p))
    BY <2>1 DEF Handed
  <2>5. /\ (Margin(p) - 1) * Due(p) + Mark(j, p) \in Nat
        /\ (Margin(p)' - 1) * Due(p)' + Mark(j, p) \in Nat
        /\ (Margin(p) - 1) * Due(p) + Mark(j, p) <= (Margin(p)' - 1) * Due(p)' + Mark(j, p)
    BY <2>2, <2>3
  <2>6. Explained(billed[p], Credits(p), (Margin(p)' - 1) * Due(p)' + Mark(j, p))
    BY <1>1, <2>4, <2>5, ExplainedMore
  <2> QED BY <2>1, <2>6
<1> QED BY <1>3, <1>4

-----------------------------------------------------------------------------
(* The steps of the ledger.                                                *)

(* A period that becomes the current one has been charged nothing.         *)
LEMMA UsageLedger ==
  ASSUME IInv, IInv', WorkInv, LedgerInv, AiRun \/ DeleteSession \/ Renew \/ Unsubscribe
  PROVE  LedgerInv'
<1>1. /\ WorkInv' /\ UNCHANGED <<last, billed, job, faults>>
      /\ \A p \in Period : /\ peak[p] <= peak'[p]
                           /\ Live(p)' /\ ~Live(p) => p > begun
  BY UsageWork
<1> SUFFICES ASSUME NEW p \in Period PROVE (Bounded(p) /\ Handed(p) /\ Rested(p))'
  BY DEF LedgerInv
<1>2. Bounded(p) /\ Handed(p) /\ Rested(p)
  BY DEF LedgerInv
<1>3. /\ Claimants(p)' = Claimants(p) /\ Active' = Active
      /\ \A j \in Job : LastOf(j)' = LastOf(j) /\ Mark(j, p)' = Mark(j, p)
  BY <1>1 DEF Claimants, Active, Off, LastOf, Mark, Marked
<1>4. Credits(p)' = Credits(p)
  BY <1>1, <1>3 DEF Credits, Claimants, LastOf
<1>5. Due(p) \in Nat /\ Due(p)' \in Nat /\ Due(p) <= Due(p)' /\ faults \in Nat
  BY <1>1, DueRises DEF IInv, TypeOK
<1>6. CASE Live(p)' => Live(p)
  <2>1. Bounded(p)' /\ Handed(p)'
    BY <1>1, <1>2, <1>3, <1>4, <1>5, <1>6, LedgerStays DEF Active
  <2>2. Rested(p)'
    <3> SUFFICES ASSUME Live(p)', Active = {}
                 PROVE  billed[p] <= faults * Due(p)' + Said(last, p)
      BY <1>1, <1>3 DEF Rested
    <3>1. billed[p] <= faults * Due(p) + Said(last, p)
      BY <1>2, <1>6 DEF Rested
    <3>2. faults * Due(p) <= faults * Due(p)'
      BY <1>5, ProductMonotone
    <3>3. /\ faults * Due(p) \in Nat /\ faults * Due(p)' \in Nat
          /\ Said(last, p) \in Nat /\ billed[p] \in Nat
      BY <1>5, ProductType, SaidType, ClaimFacts DEF IInv, TypeOK
    <3> QED BY <3>1, <3>2, <3>3
  <2> QED BY <2>1, <2>2
<1>7. CASE Live(p)' /\ ~Live(p)
  <2>1. billed'[p] = 0
    BY <1>1, <1>7 DEF WorkInv, UseInv
  <2>2. /\ Margin(p)' \in Nat /\ faults' \in Nat
        /\ \A j \in Active' \ Claimants(p)' : Margin(p)' - 1 \in Nat /\ Mark(j, p)' \in Nat
    <3>1. /\ Margin(p) \in Nat
          /\ \A j \in Active \ Claimants(p) : Margin(p) - 1 \in Nat /\ Mark(j, p) \in Nat
      BY ClaimFacts DEF Active
    <3>2. Margin(p)' = Margin(p)
      BY <1>1, <1>3 DEF Margin
    <3> QED BY <1>1, <1>3, <1>5, <3>1, <3>2 DEF Active
  <2>3. Bounded(p)'
    <3>1. Margin(p)' * Due(p)' \in Nat
      BY <1>5, <2>2, ProductType
    <3> QED BY <2>1, <3>1 DEF Bounded, Explained
  <2>4. Handed(p)'
    <3> SUFFICES ASSUME NEW j \in Active' \ Claimants(p)'
                 PROVE  billed'[p] <= (Margin(p)' - 1) * Due(p)' + Mark(j, p)'
      BY DEF Handed, Explained
    <3>1. (Margin(p)' - 1) * Due(p)' \in Nat /\ Mark(j, p)' \in Nat
      BY <1>5, <2>2, ProductType
    <3> QED BY <2>1, <3>1
  <2>5. Rested(p)'
    <3>1. faults' * Due(p)' \in Nat /\ Said(last', p) \in Nat
      BY <1>5, <2>2, ProductType, SaidType DEF IInv, TypeOK
    <3> QED BY <2>1, <3>1 DEF Rested
  <2> QED BY <2>3, <2>4, <2>5
<1> QED BY <1>6, <1>7

(* A late event pays for all that a period that comes back may lack.       *)
LEMMA LateLedger ==
  ASSUME IInv, IInv', WorkInv, WorkInv', LedgerInv, LateEvent
  PROVE  LedgerInv'
<1>1. UNCHANGED <<begun, runs, peak, last, billed, job>> /\ faults' = faults + 1
  BY DEF LateEvent, Fault
<1> SUFFICES ASSUME NEW p \in Period PROVE (Bounded(p) /\ Handed(p) /\ Rested(p))'
  BY DEF LedgerInv
<1>2. Explained(billed[p], Credits(p), Margin(p) * Due(p))
  BY DEF LedgerInv, Bounded
<1>3. /\ Claimants(p)' = Claimants(p) /\ Active' = Active /\ Due(p)' = Due(p)
      /\ \A j \in Job : LastOf(j)' = LastOf(j)
  BY <1>1 DEF Claimants, Active, Off, LastOf, Due
<1>4. Credits(p)' = Credits(p)
  BY <1>3 DEF Credits, Claimants
<1>5. /\ Margin(p) \in Nat /\ Due(p) \in Nat /\ billed[p] \in Nat /\ faults \in Nat
      /\ Credits(p) \in SUBSET Nat /\ Cardinality(Claimants(p)) \in Nat
  BY ClaimFacts
<1>6. Margin(p)' = Margin(p) + 1
  BY <1>1, <1>3, <1>5 DEF Margin
<1>7. /\ Margin(p) * Due(p) \in Nat /\ (Margin(p) + 1) * Due(p) \in Nat
      /\ Margin(p) * Due(p) <= (Margin(p) + 1) * Due(p)
  BY <1>5, ProductType, ProductSwap
<1>8. Bounded(p)'
  <2>1. Explained(billed[p], Credits(p), (Margin(p) + 1) * Due(p))
    BY <1>2, <1>5, <1>7, ExplainedMore
  <2> QED BY <1>1, <1>3, <1>4, <1>6, <2>1 DEF Bounded
<1>9. Handed(p)'
  <2> SUFFICES ASSUME NEW j \in Active' \ Claimants(p)'
               PROVE  Explained(billed[p], Credits(p), Margin(p) * Due(p) + Mark(j, p)')
    BY <1>1, <1>3, <1>4, <1>5, <1>6 DEF Handed
  <2>1. Mark(j, p)' \in Nat
    <3>1. j \in Job /\ Mark(j, p) \in Nat
      BY <1>3, ClaimFacts DEF Active
    <3>2. Mark(j, p)' = Mark(j, p)
      BY <1>1, <1>3, <3>1 DEF Mark, Marked
    <3> QED BY <3>1, <3>2
  <2>2. Margin(p) * Due(p) + Mark(j, p)' \in Nat
        /\ Margin(p) * Due(p) <= Margin(p) * Due(p) + Mark(j, p)'
    BY <1>7, <2>1
  <2> QED BY <1>2, <1>5, <1>7, <2>2, ExplainedMore
<1>10. Rested(p)'
  <2> SUFFICES ASSUME Active = {}
               PROVE  billed[p] <= (faults + 1) * Due(p) + Said(last, p)
    BY <1>1, <1>3 DEF Rested
  <2>1. Claimants(p) = {} /\ Credits(p) = {} /\ Cardinality(Claimants(p)) = 0
    BY ClaimFacts, FS_EmptySet DEF Credits
  <2>2. Margin(p) = faults + 1 /\ billed[p] <= Margin(p) * Due(p)
    BY <1>2, <1>5, <2>1 DEF Margin, Explained
  <2>3. Said(last, p) \in Nat
    BY SaidType DEF IInv, TypeOK
  <2> QED BY <1>5, <1>7, <2>2, <2>3
<1> QED BY <1>8, <1>9, <1>10

(* A run that counts or prices keeps its claim and what it would mark.     *)
LEMMA OwnLedger ==
  ASSUME IInv, IInv', WorkInv, WorkInv', LedgerInv, NEW j \in Job, Count(j) \/ Price(j)
  PROVE  LedgerInv'
<1>1. PICK r \in JobRecord :
        /\ job' = [job EXCEPT ![j] = r]
        /\ r.paid = job[j].paid /\ r.period = job[j].period /\ r.last = job[j].last
        /\ \/ r.st = "counted" /\ job[j].paid /\ job[j].st = "started"
           \/ r.st = "free" /\ ~job[j].paid /\ job[j].st = "started"
           \/ r.st = "priced" /\ job[j].st = "counted"
  BY CountEffect, PriceEffect DEF Count
<1>2. UNCHANGED <<paid, period, begun, runs, peak, last, billed, faults>>
  BY CountEffect, PriceEffect DEF usage
<1>3. job'[j] = r /\ \A k \in Job \ {j} : job'[k] = job[k]
  BY <1>1, JobEffect DEF IInv
<1> SUFFICES ASSUME NEW p \in Period PROVE (Bounded(p) /\ Handed(p) /\ Rested(p))'
  BY DEF LedgerInv
<1>4. Bounded(p) /\ Handed(p) /\ Rested(p)
  BY DEF LedgerInv
<1>5. Claimants(p)' = Claimants(p) /\ Active' = Active /\ j \in Active'
  BY <1>1, <1>3 DEF Claimants, Active, Off
<1>6. \A k \in Job : LastOf(k)' = LastOf(k)
  BY <1>1, <1>3 DEF LastOf
<1>7. Credits(p)' = Credits(p)
  BY <1>5, <1>6 DEF Credits, Claimants
<1>8. ASSUME Live(p), NEW k \in Active' \ Claimants(p) PROVE Mark(k, p)' = Mark(k, p)
  <2>1. CASE k # j
    BY <1>3, <1>6, <2>1 DEF Active, Mark, Marked
  <2>2. CASE k = j
    <3>1. RunOK(job[j]) /\ job[j].st \in {"started", "counted"}
      BY <1>1 DEF WorkInv, RunsInv
    <3>2. job[j].paid => job[j].period # p
      BY <1>5, <1>8, <2>2, <3>1 DEF Claimants
    <3> QED BY <1>1, <1>3, <2>2, <3>2 DEF Mark, Marked, Said
  <2> QED BY <2>1, <2>2
<1>9. Due(p) \in Nat /\ faults \in Nat
  BY ClaimFacts
<1>10. Bounded(p)' /\ Handed(p)'
  <2>1. Due(p)' = Due(p) /\ Live(p)' = Live(p)
    BY <1>2 DEF Due, Live
  <2> QED BY <1>2, <1>4, <1>5, <1>7, <1>8, <1>9, <2>1, LedgerStays
<1>11. Rested(p)'
  BY <1>5 DEF Rested
<1> QED BY <1>10, <1>11

(* A run that starts claims the current period of a paid workspace: alone  *)
(* with what currentUsage says as its credit, beside others with a failure.*)
LEMMA StartLedger ==
  ASSUME IInv, IInv', WorkInv, WorkInv', LedgerInv, NEW j \in Job, Start(j)
  PROVE  LedgerInv'
<1>1. PICK r \in JobRecord :
        /\ job' = [job EXCEPT ![j] = r] /\ r.st = "started" /\ r.paid = paid
        /\ r.period = period /\ r.last = last
  BY StartEffect
<1>2. UNCHANGED <<paid, period, begun, runs, peak, last, billed>> /\ j \notin Active
  BY StartEffect DEF usage
<1>3. \/ Active = {} /\ UNCHANGED faults
      \/ faults' = faults + 1
  BY StartEffect
<1>4. job'[j] = r /\ \A k \in Job \ {j} : job'[k] = job[k]
  BY <1>1, JobEffect DEF IInv
<1> SUFFICES ASSUME NEW p \in Period PROVE (Bounded(p) /\ Handed(p) /\ Rested(p))'
  BY DEF LedgerInv
<1>5. Bounded(p) /\ Handed(p) /\ Rested(p)
  BY DEF LedgerInv
<1>6. Active' = Active \cup {j} /\ j \notin Claimants(p)
  BY <1>1, <1>2, <1>4 DEF Active, Off, Claimants
<1>7. \A k \in Job \ {j} : LastOf(k)' = LastOf(k) /\ Mark(k, p)' = Mark(k, p)
  BY <1>4 DEF LastOf, Mark, Marked
<1>8. Rested(p)'
  BY <1>6 DEF Rested
<1>9. Due(p)' = Due(p) /\ Live(p)' = Live(p) /\ faults \in Nat /\ Due(p) \in Nat
      /\ billed[p] \in Nat /\ Margin(p) \in Nat
  BY <1>2, ClaimFacts DEF Due, Live
<1>10. CASE ~Live(p)
  <2>1. Claimants(p)' = Claimants(p)
    BY <1>1, <1>4, <1>6, <1>10 DEF Claimants, Live
  <2>2. Credits(p)' = Credits(p)
    BY <1>6, <1>7, <2>1 DEF Credits, Claimants
  <2>3. faults <= faults'
    BY <1>3, <1>9
  <2> QED BY <1>2, <1>5, <1>8, <1>9, <1>10, <2>1, <2>2, <2>3, LedgerStays
<1>11. CASE Live(p)
  <2>1. Claimants(p)' = Claimants(p) \cup {j}
    BY <1>1, <1>4, <1>11 DEF Claimants, Live
  <2>2. Credits(p) \subseteq Credits(p)' /\ Said(last, p) \in Credits(p)'
    <3>1. Credits(p) \subseteq Credits(p)'
      BY <1>6, <1>7, <2>1 DEF Credits, Claimants
    <3>2. LastOf(j)' = Said(last, p)
      BY <1>1, <1>4, <1>11 DEF LastOf, Said, Live
    <3> QED BY <2>1, <3>1, <3>2 DEF Credits
  <2>3. /\ Cardinality(Claimants(p)') = Cardinality(Claimants(p)) + 1
        /\ Cardinality(Claimants(p)) \in Nat
    BY <1>6, <2>1, ClaimFacts, FS_AddElement
  <2>4. Credits(p) \in SUBSET Nat /\ Credits(p)' \in SUBSET Nat
    <3>1. Credits(p) \in SUBSET Nat
      BY ClaimFacts
    <3>2. \A k \in Job : LastOf(k)' \in Nat
      <4>1. \A k \in Job : job'[k].last \in Reported
        BY DEF IInv, TypeOK
      <4> QED BY <4>1 DEF LastOf, Reported
    <3> QED BY <3>1, <3>2 DEF Credits, Claimants
  <2>5. CASE Active = {} /\ UNCHANGED faults
    <3>1. Claimants(p) = {} /\ Cardinality(Claimants(p)) = 0
      BY <2>5, ClaimFacts, FS_EmptySet
    <3>2. Margin(p)' = faults
      BY <1>9, <2>3, <2>5, <3>1 DEF Margin
    <3>3. billed[p] <= faults * Due(p) + Said(last, p)
      BY <1>5, <1>11, <2>5 DEF Rested
    <3>4. Bounded(p)'
      BY <1>2, <1>9, <2>2, <3>2, <3>3 DEF Bounded, Explained
    <3>5. Active' \ Claimants(p)' = {}
      BY <1>6, <2>1, <2>5
    <3>6. Handed(p)'
      BY <3>5 DEF Handed
    <3> QED BY <1>8, <3>4, <3>6
  <2>6. CASE faults' = faults + 1
    <3>1. Margin(p)' = Margin(p)
      BY <1>9, <2>3, <2>6 DEF Margin
    <3>2. ASSUME NEW x \in Nat, Explained(billed[p], Credits(p), x)
          PROVE  Explained(billed[p], Credits(p)', x)
      BY <1>9, <2>2, <2>4, <3>2, ExplainedMore
    <3>3. Bounded(p)'
      <4>1. Margin(p) * Due(p) \in Nat
        BY <1>9, ProductType
      <4>2. Explained(billed[p], Credits(p)', Margin(p) * Due(p))
        BY <1>5, <3>2, <4>1 DEF Bounded
      <4> QED BY <1>2, <1>9, <3>1, <4>2 DEF Bounded
    <3>4. Handed(p)'
      <4> SUFFICES ASSUME NEW k \in Active' \ Claimants(p)'
                   PROVE  Explained(billed[p], Credits(p)', (Margin(p) - 1) * Due(p) + Mark(k, p)')
        BY <1>2, <1>9, <3>1 DEF Handed
      <4>1. k \in Active \ Claimants(p) /\ k \in Job \ {j}
        BY <1>6, <2>1 DEF Active
      <4>2. Mark(k, p)' = Mark(k, p) /\ Mark(k, p) \in Nat /\ Margin(p) - 1 \in Nat
        BY <1>7, <4>1, ClaimFacts
      <4>3. (Margin(p) - 1) * Due(p) \in Nat
        BY <1>9, <4>2, ProductType
      <4>4. (Margin(p) - 1) * Due(p) + Mark(k, p) \in Nat
        BY <4>2, <4>3
      <4>5. Explained(billed[p], Credits(p), (Margin(p) - 1) * Due(p) + Mark(k, p))
        BY <1>5, <1>11, <4>1 DEF Handed
      <4> QED BY <3>2, <4>2, <4>4, <4>5
    <3> QED BY <1>8, <3>3, <3>4
  <2> QED BY <1>3, <2>5, <2>6
<1> QED BY <1>10, <1>11

(* A run that writes leaves what it marks as the explanation, or a failure.*)
LEMMA WriteLedger ==
  ASSUME IInv, IInv', WorkInv, WorkInv', LedgerInv, NEW j \in Job, Write(j)
  PROVE  LedgerInv'
<1>1. /\ job' = [job EXCEPT ![j] = Idle] /\ UNCHANGED <<paid, period, begun, runs, peak, billed>>
      /\ job[j].st \in {"free", "unchanged", "reported", "failed"}
  BY DEF Write, usage
<1>2. \/ last' = Marked(j) /\ UNCHANGED faults
      \/ faults' = faults + 1
  BY DEF Write, Fault
<1>3. job'[j] = Idle /\ \A k \in Job \ {j} : job'[k] = job[k]
  BY <1>1, IdleType, JobEffect DEF IInv
<1> SUFFICES ASSUME NEW p \in Period PROVE (Bounded(p) /\ Handed(p) /\ Rested(p))'
  BY DEF LedgerInv
<1>4. Bounded(p) /\ Handed(p) /\ Rested(p)
  BY DEF LedgerInv
<1>5. /\ Claimants(p)' = Claimants(p) /\ Active' = Active \ {j}
      /\ j \in Active \ Claimants(p)
  BY <1>1, <1>3 DEF Claimants, Active, Off, Idle
<1>6. \A k \in Job \ {j} : LastOf(k)' = LastOf(k) /\ Mark(k, p)' = Mark(k, p)
  BY <1>3 DEF LastOf, Mark, Marked
<1>7. Credits(p)' = Credits(p)
  BY <1>5, <1>6 DEF Credits, Claimants
<1>8. /\ Due(p)' = Due(p) /\ Live(p)' = Live(p) /\ faults \in Nat /\ Due(p) \in Nat
      /\ billed[p] \in Nat /\ Margin(p) \in Nat
  BY <1>1, ClaimFacts DEF Due, Live
<1>9. faults <= faults'
  BY <1>2, <1>8
<1>10. \A k \in Active' \ Claimants(p) : k \in Active /\ Mark(k, p)' = Mark(k, p)
  BY <1>5, <1>6 DEF Active
<1>11. Bounded(p)' /\ Handed(p)'
  BY <1>1, <1>4, <1>5, <1>7, <1>8, <1>9, <1>10, LedgerStays
<1>12. Rested(p)'
  <2> SUFFICES ASSUME Live(p), Active' = {}
               PROVE  billed[p] <= faults' * Due(p) + Said(last', p)
    BY <1>1, <1>8 DEF Rested
  <2>1. Claimants(p) = {} /\ Credits(p) = {} /\ Cardinality(Claimants(p)) = 0
    BY <1>5, ClaimFacts, FS_EmptySet DEF Credits
  <2>2. Margin(p) = 1 + faults
    BY <1>8, <2>1 DEF Margin
  <2>3. CASE last' = Marked(j) /\ UNCHANGED faults
    <3>1. Explained(billed[p], Credits(p), (Margin(p) - 1) * Due(p) + Mark(j, p))
      BY <1>4, <1>5 DEF Handed
    <3>2. Margin(p) - 1 = faults
      BY <1>8, <2>2
    <3>3. billed[p] <= faults * Due(p) + Mark(j, p)
      BY <2>1, <3>1, <3>2 DEF Explained
    <3>4. Said(Marked(j), p) = Mark(j, p)
      <4>1. job[j].paid \/ job[j].st = "free"
        BY <1>1 DEF WorkInv, RunsInv, RunOK
      <4>2. Said(Unreported, p) = 0
        BY MeteringAssumption DEF Said, Unreported, Period
      <4> QED BY <4>1, <4>2 DEF Mark, Marked
    <3> QED BY <2>3, <3>3, <3>4
  <2>4. CASE faults' = faults + 1
    <3>1. billed[p] <= (1 + faults) * Due(p)
      BY <1>4, <2>1, <2>2 DEF Bounded, Explained
    <3>2. Said(last', p) \in Nat
      BY SaidType DEF IInv, TypeOK
    <3>3. faults' * Due(p) = (1 + faults) * Due(p) /\ (1 + faults) * Due(p) \in Nat
      BY <1>8, <2>4, ProductType
    <3> QED BY <1>8, <3>1, <3>2, <3>3
  <2> QED BY <1>2, <2>3, <2>4
<1> QED BY <1>11, <1>12

(* Whatever is pending, a period has been charged at most its dearest      *)
(* usage once and once more for each failure.                              *)
LEMMA ChargeBound ==
  ASSUME IInv, WorkInv, NEW p \in Period, Bounded(p)
  PROVE  billed[p] <= Due(p) * (1 + faults)
<1>1. /\ Margin(p) \in Nat /\ faults \in Nat /\ Due(p) \in Nat /\ billed[p] \in Nat
      /\ Margin(p) <= 1 + faults /\ (Claimants(p) # {} => Margin(p) <= faults)
      /\ Credits(p) \in SUBSET Nat /\ \A c \in Credits(p) : c <= Due(p)
  BY ClaimFacts
<1>2. (1 + faults) * Due(p) = faults * Due(p) + Due(p) /\ faults * Due(p) \in Nat
  BY <1>1, ProductSucc
<1>3. CASE Claimants(p) = {}
  <2>1. billed[p] <= Margin(p) * Due(p)
    BY <1>3 DEF Bounded, Explained, Credits
  <2>2. Margin(p) * Due(p) <= (1 + faults) * Due(p)
    BY <1>1, ProductSwap
  <2>3. Margin(p) * Due(p) \in Nat
    BY <1>1, ProductType
  <2> QED BY <1>1, <1>2, <2>1, <2>2, <2>3
<1>4. CASE Claimants(p) # {}
  <2>1. Margin(p) * Due(p) \in Nat
    BY <1>1, ProductType
  <2>2. billed[p] <= Margin(p) * Due(p) + Due(p)
    BY <1>1, <2>1, ExplainedCap DEF Bounded
  <2>3. Margin(p) * Due(p) <= faults * Due(p)
    BY <1>1, <1>4, ProductSwap
  <2> QED BY <1>1, <1>2, <2>1, <2>2, <2>3
<1> QED BY <1>3, <1>4

(* A crash ends all claims and pays for what they had in hand.             *)
LEMMA CrashLedger ==
  ASSUME IInv, IInv', WorkInv, WorkInv', LedgerInv, Crash
  PROVE  LedgerInv'
<1>1. UNCHANGED <<paid, period, begun, runs, peak, last, billed>> /\ faults' = faults + 1
      /\ job' = [j \in Job |-> Idle]
  BY DEF Crash, Fault, usage
<1> SUFFICES ASSUME NEW p \in Period PROVE (Bounded(p) /\ Handed(p) /\ Rested(p))'
  BY DEF LedgerInv
<1>2. /\ billed[p] <= Due(p) * (1 + faults) /\ billed[p] \in Nat
      /\ Due(p) \in Nat /\ faults \in Nat
  BY ChargeBound, ClaimFacts DEF LedgerInv
<1>3. Active' = {} /\ Claimants(p)' = {}
  BY <1>1 DEF Active, Off, Claimants, Idle
<1>4. Margin(p)' = faults' + 1
  BY <1>1, <1>2, <1>3, FS_EmptySet DEF Margin
<1>5. /\ Due(p) * (1 + faults) = faults' * Due(p) /\ faults' * Due(p) \in Nat
      /\ (faults' + 1) * Due(p) = faults' * Due(p) + Due(p)
  BY <1>1, <1>2, ProductSucc
<1>6. Bounded(p)'
  BY <1>1, <1>2, <1>4, <1>5 DEF Bounded, Explained, Due
<1>7. Rested(p)'
  <2>1. Said(last', p) \in Nat
    BY SaidType DEF IInv, TypeOK
  <2> QED BY <1>1, <1>2, <1>5, <2>1 DEF Rested, Due
<1>8. Handed(p)'
  BY <1>3 DEF Handed
<1> QED BY <1>6, <1>7, <1>8

(* What a report changes of the claims on its period: the run gives up its *)
(* claim, and d, what it found or what it had read, takes its place.       *)
LEMMA ReportCharge ==
  ASSUME IInv, IInv', WorkInv, NEW j \in Job, Report(j), NEW p \in Period,
         p = job[j].period
  PROVE  /\ j \in Claimants(p) /\ Claimants(p)' = Claimants(p) \ {j} /\ j \in Active'
         /\ \E d \in Nat :
              /\ d <= Due(p)
              /\ \A x \in Nat : Explained(billed[p], Credits(p), x)
                                  => Explained(billed'[p], Credits(p)', x + d)
              /\ \/ Margin(p)' = Margin(p) + 1 /\ Mark(j, p)' = d
                 \/ Margin(p)' = Margin(p) + 2 /\ Mark(j, p)' = 0
<1>1. PICK r \in JobRecord :
        /\ job' = [job EXCEPT ![j] = r]
        /\ r.paid = job[j].paid /\ r.period = job[j].period /\ r.last = job[j].last
        /\ r.over = job[j].over /\ r.units = job[j].units
        /\ \/ /\ r.st = "unchanged" /\ job[j].units <= LastOf(j)
              /\ UNCHANGED <<billed, faults>>
           \/ /\ r.st = "reported" /\ job[j].units > LastOf(j)
              /\ billed' = Received(j) /\ UNCHANGED faults
           \/ /\ r.st = "failed" /\ job[j].units > LastOf(j)
              /\ billed' \in {billed, Received(j)} /\ faults' = faults + 1
  BY ReportEffect
<1>2. job[j].st = "priced" /\ UNCHANGED <<paid, period, begun, runs, peak>>
  BY ReportEffect DEF usage
<1>3. job'[j] = r /\ \A k \in Job \ {j} : job'[k] = job[k]
  BY <1>1, JobEffect DEF IInv
<1>4. j \in Claimants(p)
  BY <1>2 DEF WorkInv, RunsInv, RunOK, Claimants
<1>5. Claimants(p)' = Claimants(p) \ {j} /\ j \in Active'
  BY <1>1, <1>3 DEF Claimants, Active, Off
<1>6. \A k \in Job : LastOf(k)' = LastOf(k)
  BY <1>1, <1>3 DEF LastOf
<1> DEFINE u == job[j].units
           l == LastOf(j)
           C == Credits(p)
           D == Credits(p)'
<1>7. /\ u \in Nat /\ l \in Nat /\ u <= Due(p) /\ l <= Due(p)
      /\ C \in SUBSET Nat /\ D \in SUBSET Nat /\ \A c \in C : c = l \/ c \in D
      /\ faults \in Nat /\ billed[p] \in Nat
  <2>1. u \in Nat /\ u <= Due(p)
    BY <1>2 DEF WorkInv, RunsInv, RunOK, IInv, TypeOK
  <2>2. l \in Nat /\ l \in C /\ C \in SUBSET Nat /\ (\A c \in C : c <= Due(p))
        /\ faults \in Nat /\ billed[p] \in Nat
    BY <1>4, ClaimFacts DEF Credits
  <2>3. D \in SUBSET C /\ \A c \in C : c = l \/ c \in D
    BY <1>5, <1>6 DEF Credits, Claimants
  <2> QED BY <2>1, <2>2, <2>3
<1>8. /\ Cardinality(Claimants(p)') = Cardinality(Claimants(p)) - 1
      /\ Cardinality(Claimants(p)) \in Nat
  BY <1>4, <1>5, ClaimFacts, FS_RemoveElement
<1>9. Mark(j, p)' = Said(Marked(j)', p)
  <2>1. job'[j].paid = job[j].paid /\ job[j].paid
    BY <1>1, <1>2, <1>3 DEF WorkInv, RunsInv, RunOK
  <2> QED BY <2>1 DEF Mark
<1>10. ASSUME billed'[p] = billed[p], NEW x \in Nat, Explained(billed[p], C, x)
       PROVE  Explained(billed'[p], D, x + l)
  <2> HIDE DEF u, l, C, D
  <2> QED BY <1>7, <1>10, ExplainedUsed
<1>11. ASSUME billed' = Received(j), u > l, NEW x \in Nat, Explained(billed[p], C, x)
       PROVE  Explained(billed'[p], D, x + u)
  <2>1. billed'[p] = billed[p] + (u - l)
    BY <1>11, ReceivedEffect DEF IInv
  <2>2. l <= u
    BY <1>7, <1>11
  <2> HIDE DEF u, l, C, D
  <2>3. Explained(billed[p] + (u - l), D, x + u)
    BY <1>7, <1>11, <2>2, ExplainedCharge
  <2> QED BY <2>1, <2>3
<1>12. CASE r.st = "unchanged" /\ UNCHANGED <<billed, faults>>
  <2>1. Marked(j)' = [units |-> l, period |-> p]
    BY <1>1, <1>3, <1>6, <1>12 DEF Marked
  <2>2. Mark(j, p)' = l
    BY <1>9, <2>1 DEF Said
  <2>3. Margin(p)' = Margin(p) + 1
    BY <1>7, <1>8, <1>12 DEF Margin
  <2>4. \A x \in Nat : Explained(billed[p], C, x) => Explained(billed'[p], D, x + l)
    BY <1>10, <1>12
  <2> HIDE DEF u, l, C, D
  <2>5. \E d \in Nat : /\ d <= Due(p)
                       /\ \A x \in Nat : Explained(billed[p], C, x) => Explained(billed'[p], D, x + d)
                       /\ Margin(p)' = Margin(p) + 1 /\ Mark(j, p)' = d
    BY <1>7, <2>2, <2>3, <2>4
  <2> USE DEF C, D
  <2> QED BY <1>4, <1>5, <2>5
<1>13. CASE r.st = "reported" /\ u > l /\ billed' = Received(j) /\ UNCHANGED faults
  <2>1. Marked(j)' = [units |-> u, period |-> p]
    BY <1>1, <1>3, <1>13 DEF Marked
  <2>2. Mark(j, p)' = u
    BY <1>9, <2>1 DEF Said
  <2>3. Margin(p)' = Margin(p) + 1
    BY <1>7, <1>8, <1>13 DEF Margin
  <2>4. \A x \in Nat : Explained(billed[p], C, x) => Explained(billed'[p], D, x + u)
    BY <1>11, <1>13
  <2> HIDE DEF u, l, C, D
  <2>5. \E d \in Nat : /\ d <= Due(p)
                       /\ \A x \in Nat : Explained(billed[p], C, x) => Explained(billed'[p], D, x + d)
                       /\ Margin(p)' = Margin(p) + 1 /\ Mark(j, p)' = d
    BY <1>7, <2>2, <2>3, <2>4
  <2> USE DEF C, D
  <2> QED BY <1>4, <1>5, <2>5
<1>14. CASE /\ r.st = "failed" /\ u > l /\ billed' \in {billed, Received(j)}
            /\ faults' = faults + 1
  <2>1. Marked(j)' = Unreported
    BY <1>1, <1>3, <1>14 DEF Marked
  <2>2. Mark(j, p)' = 0
    BY <1>9, <2>1, MeteringAssumption DEF Said, Unreported, Period
  <2>3. Margin(p)' = Margin(p) + 2
    BY <1>7, <1>8, <1>14 DEF Margin
  <2>4. PICK d \in {l, u} :
          \A x \in Nat : Explained(billed[p], C, x) => Explained(billed'[p], D, x + d)
    <3>1. CASE billed' = billed
      <4>1. \A x \in Nat : Explained(billed[p], C, x) => Explained(billed'[p], D, x + l)
        BY <1>10, <3>1
      <4> QED BY <4>1
    <3>2. CASE billed' = Received(j)
      <4>1. \A x \in Nat : Explained(billed[p], C, x) => Explained(billed'[p], D, x + u)
        BY <1>11, <1>14, <3>2
      <4> QED BY <4>1
    <3> QED BY <1>14, <3>1, <3>2
  <2> HIDE DEF u, l, C, D
  <2>5. d \in Nat /\ d <= Due(p)
    BY <1>7
  <2>6. \E e \in Nat : /\ e <= Due(p)
                       /\ \A x \in Nat : Explained(billed[p], C, x) => Explained(billed'[p], D, x + e)
                       /\ Margin(p)' = Margin(p) + 2 /\ Mark(j, p)' = 0
    BY <2>2, <2>3, <2>4, <2>5
  <2> USE DEF C, D
  <2> QED BY <1>4, <1>5, <2>6
<1> QED BY <1>1, <1>12, <1>13, <1>14

(* A report takes one claim away and allows, for what it added, the        *)
(* dearest usage once more; a failed one allows it twice.                  *)
LEMMA ReportLedger ==
  ASSUME IInv, IInv', WorkInv, WorkInv', LedgerInv, NEW j \in Job, Report(j)
  PROVE  LedgerInv'
<1>1. PICK r \in JobRecord :
        /\ job' = [job EXCEPT ![j] = r]
        /\ r.period = job[j].period /\ r.last = job[j].last /\ r.units = job[j].units
        /\ r.st \in {"unchanged", "reported", "failed"}
  BY ReportEffect
<1>2. /\ UNCHANGED <<paid, period, begun, runs, peak, last>> /\ job[j].st = "priced"
      /\ faults' \in {faults, faults + 1}
      /\ billed' = billed \/ billed' = Received(j)
  BY ReportEffect DEF usage
<1>3. job'[j] = r /\ \A k \in Job \ {j} : job'[k] = job[k]
  BY <1>1, JobEffect DEF IInv
<1>4. Active' = Active /\ j \in Active'
  BY <1>1, <1>2, <1>3 DEF Active, Off
<1>5. \A k \in Job : LastOf(k)' = LastOf(k)
  BY <1>1, <1>3 DEF LastOf
<1> SUFFICES ASSUME NEW p \in Period PROVE (Bounded(p) /\ Handed(p) /\ Rested(p))'
  BY DEF LedgerInv
<1>6. Bounded(p) /\ Handed(p)
  BY DEF LedgerInv
<1>7. Rested(p)'
  BY <1>4 DEF Rested
<1>8. /\ Due(p)' = Due(p) /\ Live(p)' = Live(p) /\ faults \in Nat /\ Due(p) \in Nat
      /\ billed[p] \in Nat /\ Margin(p) \in Nat
  BY <1>2, ClaimFacts DEF Due, Live
<1>9. \A k \in Job \ {j} : Mark(k, p)' = Mark(k, p)
  BY <1>3, <1>5 DEF Mark, Marked
<1>10. CASE p # job[j].period
  <2>1. billed'[p] = billed[p]
    BY <1>2, <1>10 DEF Received, IInv, TypeOK
  <2>2. Claimants(p)' = Claimants(p)
    BY <1>1, <1>3, <1>10 DEF Claimants
  <2>3. Credits(p)' = Credits(p)
    BY <1>5, <2>2 DEF Credits, Claimants
  <2>4. Mark(j, p)' = Mark(j, p)
    <3>1. Unreported.period # p
      BY MeteringAssumption DEF Unreported, Period
    <3> QED BY <1>1, <1>3, <1>10, <3>1 DEF Mark, Marked, Said
  <2>5. \A k \in Active' \ Claimants(p) : k \in Active /\ Mark(k, p)' = Mark(k, p)
    BY <1>4, <1>9, <2>4 DEF Active
  <2>6. faults <= faults' /\ Due(p) <= Due(p)'
    BY <1>2, <1>8
  <2>7. Bounded(p)' /\ Handed(p)'
    BY <1>6, <1>8, <2>1, <2>2, <2>3, <2>5, <2>6, LedgerStays
  <2> QED BY <1>7, <2>7
<1>11. CASE p = job[j].period
  <2> DEFINE k == Margin(p)
             u == Due(p)
  <2>1. j \in Claimants(p) /\ Claimants(p)' = Claimants(p) \ {j}
    BY <1>11, ReportCharge
  <2>2. PICK d \in Nat :
          /\ d <= u
          /\ \A x \in Nat : Explained(billed[p], Credits(p), x)
                              => Explained(billed'[p], Credits(p)', x + d)
          /\ \/ Margin(p)' = k + 1 /\ Mark(j, p)' = d
             \/ Margin(p)' = k + 2 /\ Mark(j, p)' = 0
    BY <1>11, ReportCharge
  <2>3. /\ k * u \in Nat /\ (k + 1) * u = k * u + u /\ (k + 2) * u = k * u + u + u
        /\ (k + 1) * u \in Nat /\ (k + 2) * u \in Nat
    <3>1. k * u \in Nat /\ (k + 1) * u = k * u + u
      BY <1>8, ProductSucc
    <3>2. (k + 1) + 1 = k + 2 /\ k + 1 \in Nat
      BY <1>8
    <3>3. ((k + 1) + 1) * u = (k + 1) * u + u
      BY <1>8, <3>2, ProductSucc
    <3> HIDE DEF k, u
    <3> QED BY <1>8, <3>1, <3>2, <3>3 DEF k, u
  <2>4. /\ Credits(p)' \in SUBSET Nat /\ billed'[p] \in Nat
        /\ Margin(p)' * u \in Nat /\ k * u + d <= Margin(p)' * u
        /\ (Margin(p)' - 1) * u \in Nat /\ k * u <= (Margin(p)' - 1) * u
    <3>1. Credits(p)' \in SUBSET Nat /\ billed'[p] \in Nat
      <4>1. \A i \in Job : LastOf(i) \in Nat
        BY ClaimFacts
      <4>2. Credits(p)' \in SUBSET Nat
        BY <1>5, <2>1, <4>1 DEF Credits, Claimants
      <4> QED BY <4>2 DEF IInv, TypeOK
    <3>2. Margin(p)' - 1 \in {k, k + 1} /\ Margin(p)' \in {k + 1, k + 2}
      BY <1>8, <2>2
    <3>3. /\ Margin(p)' * u \in {k * u + u, k * u + u + u}
          /\ (Margin(p)' - 1) * u \in {k * u, k * u + u}
      BY <2>3, <3>2
    <3> HIDE DEF k, u
    <3> QED BY <1>8, <2>2, <2>3, <3>1, <3>3 DEF u
  <2>5. Bounded(p)'
    <3>1. Explained(billed'[p], Credits(p)', k * u + d)
      BY <1>6, <2>2, <2>3 DEF Bounded
    <3>2. k * u + d \in Nat
      BY <2>2, <2>3
    <3>3. Explained(billed'[p], Credits(p)', Margin(p)' * u)
      <4> HIDE DEF k, u
      <4> QED BY <2>4, <3>1, <3>2, ExplainedMore
    <3> QED BY <1>8, <3>3 DEF Bounded
  <2>6. Handed(p)'
    <3> SUFFICES ASSUME Live(p), NEW i \in Active \ (Claimants(p) \ {j})
                 PROVE  Explained(billed'[p], Credits(p)', (Margin(p)' - 1) * u + Mark(i, p)')
      BY <1>4, <1>8, <2>1 DEF Handed
    <3>1. CASE i = j
      <4>1. Explained(billed'[p], Credits(p)', k * u + d)
        BY <1>6, <2>2, <2>3 DEF Bounded
      <4>2. k * u + d <= (Margin(p)' - 1) * u + Mark(j, p)'
            /\ (Margin(p)' - 1) * u + Mark(j, p)' \in Nat /\ k * u + d \in Nat
        <5>1. CASE Margin(p)' = k + 1 /\ Mark(j, p)' = d
          <6>1. Margin(p)' - 1 = k
            BY <1>8, <5>1
          <6> HIDE DEF k, u
          <6> QED BY <2>3, <5>1, <6>1
        <5>2. CASE Margin(p)' = k + 2 /\ Mark(j, p)' = 0
          <6>1. Margin(p)' - 1 = k + 1
            BY <1>8, <5>2
          <6>2. u \in Nat
            BY <1>8
          <6> HIDE DEF k, u
          <6> QED BY <2>2, <2>3, <5>2, <6>1, <6>2
        <5> QED BY <2>2, <5>1, <5>2
      <4> HIDE DEF k, u
      <4> QED BY <2>4, <3>1, <4>1, <4>2, ExplainedMore
    <3>2. CASE i # j
      <4>1. i \in Active \ Claimants(p) /\ i \in Job \ {j}
        BY <3>2 DEF Active
      <4>2. Mark(i, p)' = Mark(i, p) /\ Mark(i, p) \in Nat /\ k - 1 \in Nat
        BY <1>9, <4>1, ClaimFacts
      <4> DEFINE x == (k - 1) * u + Mark(i, p)
      <4>3. (k - 1) * u \in Nat /\ k * u = (k - 1) * u + u
        <5>1. (k - 1) + 1 = k
          BY <1>8
        <5>2. ((k - 1) + 1) * u = (k - 1) * u + u /\ (k - 1) * u \in Nat
          BY <1>8, <4>2, ProductSucc
        <5> HIDE DEF k, u
        <5> QED BY <5>1, <5>2
      <4>4. Explained(billed[p], Credits(p), x)
        BY <1>6, <4>1 DEF Handed
      <4>5. x \in Nat /\ x + d \in Nat /\ x + d <= k * u + Mark(i, p)
            /\ k * u + Mark(i, p) <= (Margin(p)' - 1) * u + Mark(i, p)
            /\ (Margin(p)' - 1) * u + Mark(i, p) \in Nat
        <5>1. u \in Nat
          BY <1>8
        <5> HIDE DEF k, u
        <5> QED BY <2>2, <2>4, <4>2, <4>3, <5>1
      <4>6. Explained(billed'[p], Credits(p)', x + d)
        BY <2>2, <4>4, <4>5
      <4>7. x + d <= (Margin(p)' - 1) * u + Mark(i, p)
        <5> HIDE DEF x
        <5>1. k * u \in Nat
          BY <2>3
        <5> HIDE DEF k, u
        <5> QED BY <4>2, <4>5, <5>1
      <4> HIDE DEF k, u, x
      <4> QED BY <2>4, <4>2, <4>5, <4>6, <4>7, ExplainedMore
    <3> QED BY <3>1, <3>2
  <2> QED BY <1>7, <2>5, <2>6
<1> QED BY <1>10, <1>11

-----------------------------------------------------------------------------
(* The ledger at the start and over any step.                              *)
LEMMA LedgerInit == Init => WorkInv /\ LedgerInv
<1> SUFFICES ASSUME Init PROVE WorkInv /\ LedgerInv
  OBVIOUS
<1>1. /\ paid = TRUE /\ period = 1 /\ begun = 1 /\ last = Unreported /\ faults = 0
      /\ \A p \in Period : runs[p] = 0 /\ peak[p] = 0 /\ billed[p] = 0
      /\ \A j \in Job : job[j].st = "off"
  BY DEF Init, Idle
<1>2. Active = {} /\ \A p \in Period : Claimants(p) = {}
  BY <1>1 DEF Active, Off, Claimants
<1>3. \A p \in Period : Due(p) \in Nat /\ Said(last, p) = 0
  BY <1>1, UnitsType, MeteringAssumption DEF Due, Said, Unreported, Period
<1>4. WorkInv
  <2>1. UseInv
    BY <1>1, <1>3 DEF UseInv
  <2>2. RunsInv
    BY <1>1 DEF RunsInv, RunOK
  <2>3. StartInv
    BY <1>1, <1>2, FS_EmptySet DEF StartInv
  <2> QED BY <2>1, <2>2, <2>3 DEF WorkInv
<1>5. ASSUME NEW p \in Period PROVE Bounded(p) /\ Handed(p) /\ Rested(p)
  <2>1. Margin(p) = 1
    <3>1. Claimants(p) = {} /\ Cardinality(Claimants(p)) = 0
      BY <1>2, FS_EmptySet
    <3> QED BY <1>1, <3>1 DEF Margin
  <2>2. Margin(p) * Due(p) \in Nat /\ faults * Due(p) \in Nat
    BY <1>1, <1>3, <2>1, ProductType
  <2> QED BY <1>1, <1>2, <1>3, <2>2 DEF Bounded, Explained, Handed, Rested
<1> QED BY <1>4, <1>5 DEF LedgerInv

LEMMA LedgerStep ==
  IInv /\ IInv' /\ WorkInv /\ LedgerInv /\ [Next]_vars => WorkInv' /\ LedgerInv'
<1> SUFFICES ASSUME IInv, IInv', WorkInv, LedgerInv, [Next]_vars
             PROVE  WorkInv' /\ LedgerInv'
  OBVIOUS
<1>1. CASE AiRun \/ DeleteSession \/ Renew \/ Unsubscribe
  BY <1>1, UsageWork, UsageLedger
<1>9. CASE LateEvent
  BY <1>9, LateWork, LateLedger
<1>2. ASSUME NEW j \in Job, Start(j) PROVE WorkInv' /\ LedgerInv'
  BY <1>2, StartWork, StartLedger
<1>3. ASSUME NEW j \in Job, Count(j) PROVE WorkInv' /\ LedgerInv'
  BY <1>3, CountWork, OwnLedger
<1>4. ASSUME NEW j \in Job, Price(j) PROVE WorkInv' /\ LedgerInv'
  BY <1>4, PriceWork, OwnLedger
<1>5. ASSUME NEW j \in Job, Report(j) PROVE WorkInv' /\ LedgerInv'
  BY <1>5, ReportWork, ReportLedger
<1>6. ASSUME NEW j \in Job, Write(j) PROVE WorkInv' /\ LedgerInv'
  BY <1>6, WriteWork, WriteLedger
<1>7. CASE Crash
  BY <1>7, CrashWork, CrashLedger
<1>8. CASE UNCHANGED vars
  <2>1. UNCHANGED <<paid, period, begun, runs, peak, last, billed, job, faults>>
    BY <1>8 DEF vars, usage
  <2>2. Active' = Active
    BY <2>1 DEF Active, Off
  <2>3. ASSUME NEW p \in Period
        PROVE  /\ Claimants(p)' = Claimants(p) /\ Credits(p)' = Credits(p)
               /\ Due(p)' = Due(p) /\ Live(p)' = Live(p)
               /\ \A j \in Job : Mark(j, p)' = Mark(j, p)
    <3>1. Claimants(p)' = Claimants(p)
      BY <2>1 DEF Claimants
    <3>2. \A j \in Job : LastOf(j)' = LastOf(j)
      BY <2>1 DEF LastOf
    <3> QED BY <2>1, <3>1, <3>2 DEF Credits, Claimants, Due, Live, Mark, Marked, LastOf
  <2>4. WorkInv'
    BY <2>1, <2>2 DEF WorkInv, UseInv, RunsInv, RunOK, StartInv, Due, Live
  <2>5. \A p \in Period : Margin(p)' = Margin(p)
    BY <2>1, <2>3 DEF Margin
  <2>6. LedgerInv'
    BY <2>1, <2>2, <2>3, <2>5 DEF LedgerInv, Bounded, Handed, Rested, Active
  <2> QED BY <2>4, <2>6
<1> QED BY <1>1, <1>2, <1>3, <1>4, <1>5, <1>6, <1>7, <1>8, <1>9 DEF Next, Step

-----------------------------------------------------------------------------
(* Theorems.                                                               *)

LEMMA Invariance == Spec => []IInv
<1>1. Init => IInv
  BY IdleType, MeteringAssumption
  DEF Init, IInv, TypeOK, JobInv, Covered, Idle, Unreported, Reported, JobRecord, Period, JobState
<1>2. IInv /\ [Next]_vars => IInv'
  <2> SUFFICES ASSUME IInv, [Next]_vars PROVE IInv'
    OBVIOUS
  <2>1. CASE UNCHANGED vars
    BY <2>1 DEF vars, usage, IInv, TypeOK, JobInv, Covered
  <2>2. CASE Next
    BY <2>2, UsageStep, LateStep, StartStep, CountStep, PriceStep, ReportStep, WriteStep, CrashStep
    DEF Next, Step
  <2> QED BY <2>1, <2>2
<1> QED BY <1>1, <1>2, PTL DEF Spec

(* The states of the metering have their types.                            *)
THEOREM TypeCorrect == Spec => []TypeOK
<1>1. IInv => TypeOK
  BY DEF IInv
<1> QED BY <1>1, Invariance, PTL

(* Units are marked as reported only when Stripe received them, whatever   *)
(* the quotas, the number of overlapping runs and the failures.            *)
THEOREM NothingMarkedUnbilled == Spec => []ReportedIsBilled
<1>1. IInv => ReportedIsBilled
  BY DEF IInv, Covered, ReportedIsBilled
<1> QED BY <1>1, Invariance, PTL

(* Charging a period more than its dearest usage takes a failure, a crash, *)
(* an overlapping start or a late event each time: for any number of       *)
(* overlapping runs, any interleaving with usage, deletions and renewals,  *)
(* and any prices.                                                         *)
THEOREM OverbillingIsPaidFor == Spec => []OverbillingNeedsFault
<1>1. Spec => [](WorkInv /\ LedgerInv)
  BY LedgerInit, LedgerStep, Invariance, PTL DEF Spec
<1>2. IInv /\ WorkInv /\ LedgerInv => OverbillingNeedsFault
  BY ChargeBound DEF LedgerInv, OverbillingNeedsFault, Due
<1> QED BY <1>1, <1>2, Invariance, PTL

(* Where no report fails, no run overlaps another, no event comes late and *)
(* the worker does not die, the worker keeps what its comment says ("only  *)
(* report the increase since last worker run"): no period is charged more  *)
(* than its usage.                                                         *)
THEOREM NoFaultNoOverbilling == Spec => [](faults = 0 => NeverOverbilled)
<1>1. IInv /\ OverbillingNeedsFault => (faults = 0 => NeverOverbilled)
  <2> SUFFICES ASSUME IInv, OverbillingNeedsFault, faults = 0, NEW p \in Period
               PROVE  billed[p] <= Units(peak[p])
    BY DEF NeverOverbilled
  <2>1. billed[p] <= Units(peak[p]) * (1 + faults) /\ Units(peak[p]) \in Nat
    BY UnitsType DEF OverbillingNeedsFault, IInv, TypeOK
  <2> QED BY <2>1
<1> QED BY <1>1, OverbillingIsPaidFor, Invariance, PTL
=============================================================================
