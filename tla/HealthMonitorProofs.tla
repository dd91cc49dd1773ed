------------------------- MODULE HealthMonitorProofs -------------------------
(***************************************************************************)
(* Proofs about HealthMonitor, for any number of mounts and any interval,  *)
(* timeout, bound and threshold: types, and that a volume is reported      *)
(* abnormal only after Threshold consecutive failed checks.  The inductive *)
(* invariant adds that failed checks in a row are no more than unhealthy   *)
(* ones in a row, which object a check counts on, which probe it waits     *)
(* for, and when a recovery holds the mutex.                               *)
(*                                                                         *)
(* A second invariant, SInv, is about the ages of the probes: as long as a *)
(* stat and the wait for a statfs fit into HungAfter, no probe of a mount  *)
(* that answers gets old enough to count as hung, and a recovery spares it.*)
(***************************************************************************)
EXTENDS HealthMonitor, TLAPS

\* Consecutive failed checks are consecutive unhealthy ones, too.
Earned(c) == c.fails <= c.streak /\ (c.abnormal => c.streak = Threshold)
CountersEarned == vol # None => Earned(vol)

\* A check that counts on the tracked object has one.
Tracked == hm.mine => vol \in Counters /\ Earned(vol)

\* A check that waits for the registered probe has one.
Waits == hm.pc \in Checks /\ hm.from = "health" => health \in HealthProbe

\* From its first recheck on, a recovery holds the volume's mutex.
Locked == hm.pc \notin {"idle", "check", "lock"} => mutex = "hm"

IInv == TypeOK /\ CountersEarned /\ Tracked /\ Waits /\ Locked

-------------------------------------------------------------------------------
(* Lemmas about the operators.                                             *)

\* The constants are positive, and so is the largest age.
LEMMA Constants ==
  /\ Interval \in Nat \ {0} /\ Timeout \in Nat \ {0} /\ HungAfter \in Nat \ {0}
  /\ Threshold \in Nat \ {0} /\ Bound \in Nat \ {0} /\ StatBound \in Nat \ {0}
  /\ MaxAge \in Nat \ {0}
  BY HealthAssumption DEF MaxAge

\* Fresh counters, the idle goroutine and new probes have their types.
LEMMA FreshType == Fresh \in Counters /\ Earned(Fresh)
  BY Constants DEF Fresh, Counters, Earned

\* The idle goroutine.
LEMMA IdleType == Idle \in Monitor
  BY Constants, FreshType DEF Idle, Monitor, PCs, Checks

\* An age is counted up to its bound.
LEMMA OlderType == ASSUME NEW a \in 0 .. MaxAge PROVE Older(a) \in 0 .. MaxAge
  BY Constants DEF Older

\* The health probe a check joins or starts.
LEMMA LoadOrStoreType == TypeOK => LoadOrStore(health) \in HealthProbe
  BY Constants DEF TypeOK, LoadOrStore, HealthProbe

\* A statfs probe that begins.
LEMMA NewStatfsType == TypeOK => NewStatfs \in StatfsProbe
  BY Constants DEF TypeOK, NewStatfs, StatfsProbe

\* One field of a probe or of the goroutine's record at a time: the record
\* keeps its type and the fields the invariant speaks of.
LEMMA ProbeFields ==
  ASSUME NEW h \in HealthProbe
  PROVE  /\ \A x \in {"stat", "statfs", "closed"} : [h EXCEPT !.stage = x] \in HealthProbe
         /\ \A x \in {"ok", "dead", "slow"} : [h EXCEPT !.result = x] \in HealthProbe
         /\ \A x \in 0 .. MaxAge : [h EXCEPT !.age = x] \in HealthProbe
         /\ \A x \in 0 .. Timeout : [h EXCEPT !.wait = x] \in HealthProbe
         /\ \A x \in Mounts \cup {None} : [h EXCEPT !.on = x] \in HealthProbe
  BY DEF HealthProbe

Same(s, r) == s \in Monitor /\ s.pc = r.pc /\ s.mine = r.mine /\ s.from = r.from

\* The wait, the age and the held counters.
LEMMA MonitorFields ==
  ASSUME NEW r \in Monitor
  PROVE  /\ \A x \in 0 .. Timeout : Same([r EXCEPT !.wait = x], r)
         /\ \A x \in 0 .. MaxAge : Same([r EXCEPT !.age = x], r)
         /\ \A x \in Counters : Same([r EXCEPT !.held = x], r)
  BY DEF Monitor, Same

\* The flags.
LEMMA MonitorFlags ==
  ASSUME NEW r \in Monitor, NEW x \in BOOLEAN
  PROVE  /\ Same([r EXCEPT !.hung = x], r)
         /\ LET s == [r EXCEPT !.mine = x]
            IN  s \in Monitor /\ s.pc = r.pc /\ s.mine = x /\ s.from = r.from
  BY DEF Monitor, Same

\* The program counter.
LEMMA MonitorPc ==
  ASSUME NEW r \in Monitor, NEW x \in PCs
  PROVE  LET s == [r EXCEPT !.pc = x]
         IN  s \in Monitor /\ s.pc = x /\ s.mine = r.mine /\ s.from = r.from
  BY DEF Monitor

\* The probe the goroutine waits for.
LEMMA MonitorFrom ==
  ASSUME NEW r \in Monitor, NEW x \in {"health", "orphan", "ok", "dead", "slow"}
  PROVE  LET s == [r EXCEPT !.from = x]
         IN  s \in Monitor /\ s.pc = r.pc /\ s.mine = r.mine /\ s.from = x
  BY DEF Monitor

\* A closed health probe.
LEMMA CloseType ==
  ASSUME NEW h \in HealthProbe, NEW r \in {"ok", "dead", "slow"}
  PROVE  Close(h, r) \in HealthProbe
<1> DEFINE h1 == [h EXCEPT !.stage = "closed"]
           h2 == [h1 EXCEPT !.result = r]
           h3 == [h2 EXCEPT !.age = 0]
           h4 == [h3 EXCEPT !.wait = 0]
<1>1. 0 \in 0 .. MaxAge /\ 0 \in 0 .. Timeout
  BY Constants
<1>2. h1 \in HealthProbe
  BY ProbeFields
<1> HIDE DEF h1
<1>3. h2 \in HealthProbe
  BY <1>2, ProbeFields
<1> HIDE DEF h2
<1>4. h3 \in HealthProbe
  BY <1>1, <1>3, ProbeFields
<1> HIDE DEF h3
<1>5. h4 \in HealthProbe
  BY <1>1, <1>4, ProbeFields
<1> QED
  BY <1>5 DEF Close, h1, h2, h3

\* A check that begins has its probe.
LEMMA BeginCheckType ==
  ASSUME TypeOK, NEW r \in Monitor, BeginCheck(r)
  PROVE  /\ hm' \in Monitor /\ health' \in HealthProbe
         /\ hm'.pc = r.pc /\ hm'.mine = r.mine
<1> DEFINE r1 == [r EXCEPT !.wait = 0]
           r2 == [r1 EXCEPT !.from = "health"]
<1>1. r1 \in Monitor /\ r1.pc = r.pc /\ r1.mine = r.mine
  BY Constants, MonitorFields DEF Same
<1>2. hm' = r2
  BY DEF BeginCheck
<1> HIDE DEF r1
<1>3. r2 \in Monitor /\ r2.pc = r.pc /\ r2.mine = r.mine
  BY <1>1, MonitorFrom
<1> QED
  BY <1>2, <1>3, LoadOrStoreType DEF BeginCheck

\* What the counters become.
LEMMA NoteUnhealthyType ==
  ASSUME NEW c \in Counters, Earned(c)
  PROVE  /\ NoteUnhealthy(c) \in Counters
         /\ NoteUnhealthy(c).fails = c.fails /\ NoteUnhealthy(c).abnormal = c.abnormal
         /\ NoteUnhealthy(c).streak = Threshold \/ NoteUnhealthy(c).streak = c.streak + 1
         /\ c.abnormal => NoteUnhealthy(c).streak = Threshold
  BY Constants DEF NoteUnhealthy, Counters, Earned

\* A healthy check earns what it counts.
LEMMA NoteHealthyType ==
  ASSUME NEW c \in Counters
  PROVE  NoteHealthy(c) \in Counters /\ Earned(NoteHealthy(c))
<1> DEFINE c1 == [c EXCEPT !.fails = 0]
           c2 == [c1 EXCEPT !.streak = 0]
           c3 == [c2 EXCEPT !.abnormal = FALSE]
<1>1. c1 \in Counters /\ c1.fails = 0
  BY Constants DEF Counters
<1> HIDE DEF c1
<1>2. c2 \in Counters /\ c2.fails = 0 /\ c2.streak = 0
  BY <1>1, Constants DEF Counters
<1> HIDE DEF c2
<1>3. c3 \in Counters /\ c3.fails = 0 /\ c3.streak = 0 /\ ~c3.abnormal
  BY <1>2, Constants DEF Counters
<1> HIDE DEF c3
<1>4. Earned(c3)
  BY <1>3 DEF Earned
<1> QED
  BY <1>3, <1>4 DEF NoteHealthy, c1, c2, c3

\* So does a failed check.
LEMMA FailedType ==
  ASSUME NEW c \in Counters, Earned(c)
  PROVE  Failed(NoteUnhealthy(c)) \in Counters /\ Earned(Failed(NoteUnhealthy(c)))
<1> DEFINE n == NoteUnhealthy(c)
<1>1. /\ n \in Counters /\ n.fails = c.fails /\ n.abnormal = c.abnormal
      /\ n.streak = Threshold \/ n.streak = c.streak + 1
      /\ c.abnormal => n.streak = Threshold
  BY NoteUnhealthyType
<1>2. c.fails <= c.streak /\ c.fails \in 0 .. Threshold - 1 /\ c.streak \in 0 .. Threshold
  BY DEF Earned, Counters
<1>3. n.fails \in 0 .. Threshold - 1 /\ n.streak \in 0 .. Threshold /\ n.abnormal \in BOOLEAN
  BY <1>1 DEF Counters
<1> SUFFICES Failed(n) \in Counters /\ Earned(Failed(n))
  OBVIOUS
<1> HIDE DEF n
<1>4. CASE n.fails + 1 < Threshold
  <2> DEFINE m == [n EXCEPT !.fails = n.fails + 1]
  <2>1. Failed(n) = m
    BY <1>4 DEF Failed
  <2>2. /\ m \in Counters /\ m.fails = n.fails + 1
        /\ m.streak = n.streak /\ m.abnormal = n.abnormal
    BY <1>1, <1>3, <1>4, Constants DEF Counters
  <2>3. n.fails + 1 <= n.streak
    BY <1>1, <1>2, <1>3, <1>4, Constants
  <2> HIDE DEF m
  <2> QED
    BY <1>1, <2>1, <2>2, <2>3 DEF Earned
<1>5. CASE ~(n.fails + 1 < Threshold)
  <2> DEFINE m == [n EXCEPT !.fails = 0]
             l == [m EXCEPT !.abnormal = TRUE]
  <2>1. Failed(n) = l
    BY <1>5 DEF Failed
  <2>2. n.streak = Threshold
    BY <1>1, <1>2, <1>3, <1>5, Constants
  <2>3. m \in Counters /\ m.fails = 0 /\ m.streak = n.streak
    BY <1>1, Constants DEF Counters
  <2> HIDE DEF m
  <2>4. l \in Counters /\ l.fails = 0 /\ l.streak = n.streak
    BY <2>3 DEF Counters
  <2> HIDE DEF l
  <2> QED
    BY <1>3, <2>1, <2>2, <2>4, Constants DEF Earned
<1> QED
  BY <1>4, <1>5

\* So does a check that timed out.
LEMMA SlowType ==
  ASSUME NEW c \in Counters, Earned(c), NEW hung \in BOOLEAN,
         hung => NoteUnhealthy(c).streak >= Threshold
  PROVE  LET s == [[NoteUnhealthy(c) EXCEPT !.fails = 0] EXCEPT !.abnormal = @ \/ hung]
         IN  s \in Counters /\ Earned(s)
<1> DEFINE n == NoteUnhealthy(c)
<1>1. n \in Counters /\ (n.abnormal => n.streak = Threshold)
  BY NoteUnhealthyType
<1>2. hung => n.streak = Threshold
  BY <1>1, Constants DEF Counters
<1> HIDE DEF n
<1> DEFINE m == [n EXCEPT !.fails = 0]
           s == [m EXCEPT !.abnormal = @ \/ hung]
<1>3. /\ m \in Counters /\ m.fails = 0
      /\ m.streak = n.streak /\ m.abnormal = n.abnormal
  BY <1>1, Constants DEF Counters
<1> HIDE DEF m
<1>4. PICK b \in BOOLEAN : b = (m.abnormal \/ hung)
  OBVIOUS
<1>5. s = [m EXCEPT !.abnormal = b]
  BY <1>4
<1>6. b => n.streak = Threshold
  BY <1>1, <1>2, <1>3, <1>4
<1>7. [m EXCEPT !.abnormal = b] \in Counters /\ Earned([m EXCEPT !.abnormal = b])
  <2>1. LET t == [m EXCEPT !.abnormal = b]
        IN  t \in Counters /\ t.fails = 0 /\ t.streak = n.streak /\ t.abnormal = b
    BY <1>3 DEF Counters
  <2> QED
    BY <1>1, <1>6, <2>1, Constants DEF Earned, Counters
<1> QED
  BY <1>5, <1>7 DEF n, m

-------------------------------------------------------------------------------
(* The initial state and the steps.                                        *)

\* The invariant holds initially.
LEMMA InitIInv == Init => IInv
<1> SUFFICES ASSUME Init PROVE IInv
  OBVIOUS
<1>1. TypeOK
  <2>1. ticker \in 0 .. Interval /\ hm \in Monitor
    BY IdleType, Constants DEF Init
  <2> QED
    BY <2>1 DEF Init, TypeOK
<1>2. hm.pc = "idle" /\ hm.mine = FALSE
  BY DEF Init, Idle
<1>3. CountersEarned
  BY DEF Init, CountersEarned
<1> QED
  BY <1>1, <1>2, <1>3 DEF IInv, Tracked, Waits, Locked, Checks

\* The invariant after a step that leaves the counters alone and sends the
\* goroutine nowhere.
LEMMA HmStays ==
  ASSUME IInv, TypeOK', vol' = vol, hm' = hm, mutex' = mutex,
         health' = health \/ health' \in HealthProbe
  PROVE  IInv'
  BY DEF IInv, CountersEarned, Tracked, Waits, Locked

\* The goroutine is done, and the counters are in order.
LEMMA HmLeaves ==
  ASSUME TypeOK', hm' = Idle, CountersEarned'
  PROVE  IInv'
  BY DEF IInv, Idle, Tracked, Waits, Locked, Checks

\* A recovery goes on, under the mutex.
LEMMA HmGoesOn ==
  ASSUME IInv, TypeOK', vol' = vol, hm'.mine = hm.mine, mutex' = "hm",
         hm'.pc \notin Checks
  PROVE  IInv'
  BY DEF IInv, CountersEarned, Tracked, Waits, Locked

\* Probes answer, time out and are forgotten.
LEMMA ProbesKeep ==
  ASSUME IInv, Probes
  PROVE  IInv'
<1> USE DEF IInv
<1>1. health # None => health \in HealthProbe
  BY DEF TypeOK
<1>2. CASE StatReturns
  <2>1. health \in HealthProbe
    BY <1>1, <1>2 DEF StatReturns
  <2>2. health' \in HealthProbe
    <3>1. CASE health' = Close(health, "dead")
      BY <2>1, <3>1, CloseType
    <3>2. CASE health' = Close([health EXCEPT !.on = None], "dead")
      <4>1. [health EXCEPT !.on = None] \in HealthProbe
        BY <2>1, ProbeFields
      <4> QED
        BY <3>2, <4>1, CloseType
    <3>3. CASE health' = [health EXCEPT !.stage = "statfs", !.on = path]
      <4> DEFINE h == [health EXCEPT !.stage = "statfs"]
      <4>1. h \in HealthProbe /\ health' = [h EXCEPT !.on = path]
        BY <2>1, <3>3, ProbeFields
      <4> HIDE DEF h
      <4> QED
        BY <4>1, ProbeFields DEF TypeOK
    <3> QED
      BY <1>2, <3>1, <3>2, <3>3 DEF StatReturns
  <2>3. statfs' \in StatfsProbe \cup {None}
    BY <1>2, NewStatfsType DEF StatReturns, TypeOK
  <2>4. TypeOK'
    BY <1>2, <2>2, <2>3 DEF StatReturns, TypeOK
  <2> QED
    BY <1>2, <2>2, <2>4, HmStays DEF StatReturns
<1>3. CASE StatfsReturns
  <2>1. health' \in HealthProbe \/ health' = health
    BY <1>1, <1>3, CloseType DEF StatfsReturns
  <2>2. statfs' = None /\ UNCHANGED <<path, weed, vol, silent, ticker>>
    BY <1>3 DEF StatfsReturns
  <2>3. CASE UNCHANGED <<hm, mutex>>
    <3>1. TypeOK'
      BY <2>1, <2>2, <2>3 DEF TypeOK
    <3> QED
      BY <2>1, <2>2, <2>3, <3>1, HmStays
  <2>4. CASE hm.pc = "isdead" /\ hm' = [hm EXCEPT !.pc = "detach"] /\ UNCHANGED mutex
    <3>1. hm' \in Monitor /\ hm'.pc = "detach" /\ hm'.mine = hm.mine
      BY <2>4, MonitorPc DEF TypeOK, PCs
    <3>2. TypeOK'
      BY <2>1, <2>2, <2>4, <3>1 DEF TypeOK
    <3>3. mutex' = "hm"
      BY <2>4 DEF Locked
    <3> QED
      BY <2>2, <3>1, <3>2, <3>3, HmGoesOn DEF Checks
  <2>5. CASE hm' = Idle /\ mutex' = "free"
    <3>1. TypeOK'
      BY <2>1, <2>2, <2>5, IdleType DEF TypeOK
    <3> QED
      BY <2>2, <2>5, <3>1, HmLeaves DEF CountersEarned
  <2> QED
    BY <1>3, <2>3, <2>4, <2>5 DEF StatfsReturns
<1>4. CASE ProbeTimeout
  <2>1. health' \in HealthProbe
    BY <1>1, <1>4, CloseType DEF ProbeTimeout
  <2>2. TypeOK'
    BY <1>4, <2>1 DEF ProbeTimeout, TypeOK
  <2> QED
    BY <1>4, <2>1, <2>2, HmStays DEF ProbeTimeout
<1>5. CASE Forget
  <2>1. health.result \in {"ok", "dead", "slow"}
    BY <1>1, <1>5 DEF Forget, HealthProbe
  <2>2. /\ hm' \in Monitor /\ hm'.pc = hm.pc /\ hm'.mine = hm.mine
        /\ hm'.pc \in Checks => hm'.from # "health"
    <3>1. CASE hm.pc \in Checks /\ hm.from = "health"
      <4>1. hm' = [hm EXCEPT !.from = health.result]
        BY <1>5, <3>1 DEF Forget
      <4>2. PICK f \in {"health", "orphan", "ok", "dead", "slow"} :
              f = health.result /\ f # "health"
        BY <2>1
      <4>3. hm \in Monitor
        BY DEF TypeOK
      <4>4. LET r == [hm EXCEPT !.from = f]
            IN  r \in Monitor /\ r.pc = hm.pc /\ r.mine = hm.mine /\ r.from = f
        BY ONLY <4>3, MonitorFrom, f \in {"health", "orphan", "ok", "dead", "slow"}
      <4>5. hm' = [hm EXCEPT !.from = f]
        BY <4>1, <4>2
      <4> QED
        BY ONLY <4>2, <4>4, <4>5
    <3>2. CASE ~(hm.pc \in Checks /\ hm.from = "health")
      BY <1>5, <3>2 DEF Forget, TypeOK
    <3> QED
      BY <3>1, <3>2
  <2>3. TypeOK'
    BY <1>5, <2>2 DEF Forget, TypeOK
  <2> QED
    BY <1>5, <2>2, <2>3 DEF Forget, CountersEarned, Tracked, Waits, Locked
<1> QED
  BY <1>2, <1>3, <1>4, <1>5 DEF Probes

\* A check counts on the object it began with.
LEMMA CheckCounts ==
  ASSUME IInv, Check
  PROVE  vol' = vol \/ (vol' \in Counters /\ Earned(vol'))
<1>0. hm.mine => Loaded \in Counters /\ Earned(Loaded)
  BY DEF IInv, Tracked, Loaded
<1>1. CASE CheckSlow
  <2>1. PICK r \in Results : LET c == [NoteUnhealthy(Loaded) EXCEPT !.fails = 0]
                                 hung == c.streak >= Threshold /\ r[2] > HungAfter
                             IN  Save([c EXCEPT !.abnormal = @ \/ hung])
    BY <1>1 DEF CheckSlow
  <2> DEFINE c == [NoteUnhealthy(Loaded) EXCEPT !.fails = 0]
             hung == c.streak >= Threshold /\ r[2] > HungAfter
  <2>2. CASE hm.mine
    <3>1. NoteUnhealthy(Loaded) \in Counters
      BY <1>0, <2>2, NoteUnhealthyType
    <3>2. c.streak = NoteUnhealthy(Loaded).streak
      BY <3>1 DEF Counters
    <3>3. vol' = [c EXCEPT !.abnormal = @ \/ hung]
      BY <2>1, <2>2 DEF Save
    <3>4. hung \in BOOLEAN /\ (hung => NoteUnhealthy(Loaded).streak >= Threshold)
      BY <3>2
    <3> HIDE DEF hung
    <3> QED
      BY <1>0, <2>2, <3>3, <3>4, SlowType
  <2> QED
    BY <2>1, <2>2 DEF Save
<1>2. CASE CheckDead
  BY <1>0, <1>2, FailedType DEF CheckDead, Save
<1>3. CASE CheckOK
  BY <1>0, <1>3, NoteHealthyType DEF CheckOK, Save
<1> QED
  BY <1>1, <1>2, <1>3 DEF Check

\* After a check the goroutine is done, or goes for the mutex.
LEMMA CheckEnds ==
  ASSUME Check
  PROVE  hm' \in Monitor /\ hm'.pc \in {"idle", "lock"} /\ hm'.mine = FALSE
<1>1. hm' = Idle \/ hm' = [Idle EXCEPT !.pc = "lock"]
        \/ hm' = [Idle EXCEPT !.pc = "lock", !.hung = TRUE]
  BY DEF Check, CheckSlow, CheckDead, CheckOK
<1>2. Idle.pc = "idle" /\ Idle.mine = FALSE
  BY DEF Idle
<1> DEFINE l == [Idle EXCEPT !.pc = "lock"]
<1>3. l \in Monitor /\ l.pc = "lock" /\ l.mine = FALSE
  BY <1>2, IdleType, MonitorPc DEF PCs
<1> HIDE DEF l
<1>4. Same([l EXCEPT !.hung = TRUE], l)
  BY <1>3, MonitorFlags
<1> QED
  BY <1>1, <1>2, <1>3, <1>4, IdleType DEF Same, l

\* A check counts on the object it began with and ends, or goes for the
\* mutex.
LEMMA CheckKeeps ==
  ASSUME IInv, Check
  PROVE  IInv'
<1> USE DEF IInv
<1>2. UNCHANGED <<path, weed, mutex, statfs, health, ticker>> /\ silent' \in BOOLEAN
  BY DEF Check, CheckSlow, CheckDead, CheckOK, TypeOK
<1>3. vol' = vol \/ (vol' \in Counters /\ Earned(vol'))
  BY CheckCounts
<1>4. hm' \in Monitor /\ hm'.pc \in {"idle", "lock"} /\ hm'.mine = FALSE
  BY CheckEnds
<1>5. TypeOK'
  BY <1>2, <1>3, <1>4 DEF TypeOK
<1> QED
  BY <1>2, <1>3, <1>4, <1>5 DEF CountersEarned, Tracked, Waits, Locked, Checks

\* A new mount, at the path.
LEMMA MountNewType ==
  ASSUME TypeOK, NEW m \in Mounts, MountNew(m)
  PROVE  /\ path' \in Mounts \cup {None}
         /\ weed' \in [Mounts -> {"quick", "busy", "hung", "dead"}]
         /\ silent' \in BOOLEAN
  BY DEF TypeOK, MountNew

\* A check begins: the sweep's, or a recheck under the mutex.
LEMMA BeginKeeps ==
  ASSUME IInv, NEW r \in Monitor, BeginCheck(r), r.pc \in Checks,
         r.mine => vol \in Counters /\ Earned(vol),
         r.pc # "check" => mutex' = "hm",
         UNCHANGED <<path, weed, vol, statfs, silent>>,
         mutex' \in {mutex, "hm"}, ticker' \in 0 .. Interval
  PROVE  IInv'
<1> USE DEF IInv
<1>1. /\ hm' \in Monitor /\ health' \in HealthProbe
      /\ hm'.pc = r.pc /\ hm'.mine = r.mine
  BY BeginCheckType
<1>2. TypeOK'
  BY <1>1 DEF TypeOK
<1> QED
  BY <1>1, <1>2 DEF CountersEarned, Tracked, Waits, Locked, Checks

\* A sweep begins a check of the tracked object.
LEMMA SweepKeeps ==
  ASSUME IInv, Sweep
  PROVE  IInv'
<1> DEFINE c == [Idle EXCEPT !.pc = "check"]
           r == [c EXCEPT !.mine = TRUE]
<1>1. c \in Monitor /\ c.pc = "check"
  BY IdleType, MonitorPc DEF PCs, Checks
<1> HIDE DEF c
<1>2. r \in Monitor /\ r.pc = "check"
  BY <1>1, MonitorFlags
<1>3. BeginCheck(r)
  BY DEF Sweep, c
<1> HIDE DEF r
<1>4. vol \in Counters /\ Earned(vol)
  BY DEF Sweep, Sweeps, IInv, TypeOK, CountersEarned
<1>5. ticker' \in 0 .. Interval /\ UNCHANGED <<path, weed, vol, mutex, statfs, silent>>
  BY Constants DEF Sweep
<1> QED
  BY <1>2, <1>3, <1>4, <1>5, BeginKeeps DEF Checks

\* A recovery takes the mutex and checks again.
LEMMA RecoverKeeps ==
  ASSUME IInv, Recover
  PROVE  IInv'
<1> USE DEF IInv
<1>1. UNCHANGED <<path, weed, vol, statfs, silent, ticker>>
  BY DEF Recover
<1>2. CASE Leave /\ UNCHANGED health
  <2>1. TypeOK'
    BY <1>1, <1>2, IdleType DEF Leave, TypeOK
  <2> QED
    BY <1>1, <1>2, <2>1, HmLeaves DEF Leave, CountersEarned
<1>3. CASE mutex' = "hm" /\ BeginCheck([hm EXCEPT !.pc = "recheck"])
  <2> DEFINE r == [hm EXCEPT !.pc = "recheck"]
  <2>1. r \in Monitor /\ r.pc = "recheck" /\ r.mine = hm.mine
    BY MonitorPc DEF TypeOK, PCs, Checks
  <2>2. BeginCheck(r)
    BY <1>3
  <2> HIDE DEF r
  <2>3. r.mine => vol \in Counters /\ Earned(vol)
    BY <2>1 DEF Tracked
  <2>4. ticker' \in 0 .. Interval
    BY <1>1 DEF TypeOK
  <2> QED
    BY <1>1, <1>3, <2>1, <2>2, <2>3, <2>4, BeginKeeps DEF Checks
<1> QED
  BY <1>2, <1>3 DEF Recover

\* The steps of a recovery that go on to pc l.
GoesTo(l) == hm' = [hm EXCEPT !.pc = l]

\* The goroutine goes on, at another step.
LEMMA GoesToType ==
  ASSUME TypeOK, NEW l \in PCs, GoesTo(l)
  PROVE  hm' \in Monitor /\ hm'.pc = l /\ hm'.mine = hm.mine
  BY MonitorPc DEF GoesTo, TypeOK

\* The steps of a recovery.
LEMMA RecoveryKeeps ==
  ASSUME IInv, Recovery \/ UnmountUnknown \/ RecoverFails
  PROVE  IInv'
<1> USE DEF IInv
<1>1. Idle \in Monitor /\ hm \in Monitor
  BY IdleType DEF TypeOK
<1>2. CASE Recheck
  <2>1. UNCHANGED <<path, weed, vol, statfs, health, silent, ticker>>
    BY <1>2 DEF Recheck
  <2>2. CASE Leave
    <3>1. TypeOK'
      BY <1>1, <2>1, <2>2 DEF Leave, TypeOK
    <3> QED
      BY <2>1, <2>2, <3>1, HmLeaves DEF Leave, CountersEarned
  <2>3. ASSUME NEW l \in {"unmount", "mounted"}, GoesTo(l), UNCHANGED mutex
        PROVE  IInv'
    <3>1. hm' \in Monitor /\ hm'.pc = l /\ hm'.mine = hm.mine
      BY <2>3, GoesToType DEF PCs
    <3>2. mutex = "hm"
      BY <1>2 DEF Recheck, Locked
    <3>3. TypeOK'
      BY <2>1, <2>3, <3>1 DEF TypeOK
    <3> QED
      BY <2>1, <2>3, <3>1, <3>2, <3>3, HmGoesOn DEF Checks
  <2>4. Leave \/ \E l \in {"unmount", "mounted"} : GoesTo(l) /\ UNCHANGED mutex
    BY <1>2 DEF Recheck, GoesTo
  <2> QED
    BY <2>2, <2>3, <2>4
<1>3. CASE RecoverUnmount \/ UnmountUnknown \/ ResetUnmounted \/ Detach \/ CleanUp
  <2>1. PICK l \in {"reset", "again", "cleanup", "stage"} : GoesTo(l)
    BY <1>3
    DEF RecoverUnmount, UnmountUnknown, ResetUnmounted, Detach, CleanUp, GoesTo
  <2>2. hm' \in Monitor /\ hm'.pc = l /\ hm'.mine = hm.mine
    BY <2>1, GoesToType DEF PCs
  <2>3. mutex' = "hm" /\ vol' = vol
    BY <1>3
    DEF RecoverUnmount, UnmountUnknown, ResetUnmounted, Detach, CleanUp, Locked
  <2>4. /\ path' \in Mounts \cup {None} /\ silent' \in BOOLEAN
        /\ weed' \in [Mounts -> {"quick", "busy", "hung", "dead"}]
        /\ statfs' \in StatfsProbe \cup {None} /\ health' \in HealthProbe \cup {None}
        /\ ticker' = ticker
    BY <1>3
    DEF RecoverUnmount, UnmountUnknown, ResetUnmounted, Detach, CleanUp, ResetStatfsProbe,
        TypeOK
  <2>5. TypeOK'
    BY <2>2, <2>3, <2>4 DEF TypeOK
  <2> QED
    BY <2>2, <2>3, <2>5, HmGoesOn DEF Checks
<1>4. CASE RecheckAgain
  <2> DEFINE r == [hm EXCEPT !.pc = "recheck2"]
  <2>1. r \in Monitor /\ r.pc = "recheck2" /\ r.mine = hm.mine
    BY <1>1, MonitorPc DEF PCs, Checks
  <2>2. BeginCheck(r) /\ UNCHANGED <<path, weed, vol, mutex, statfs, silent, ticker>>
    BY <1>4 DEF RecheckAgain
  <2> HIDE DEF r
  <2>3. mutex = "hm"
    BY <1>4 DEF RecheckAgain, Locked
  <2>4. (r.mine => vol \in Counters /\ Earned(vol)) /\ ticker' \in 0 .. Interval
    BY <2>1, <2>2 DEF Tracked, TypeOK
  <2> QED
    BY <2>1, <2>2, <2>3, <2>4, BeginKeeps DEF Checks
<1>5. CASE CheckMounted
  <2>1. statfs' \in StatfsProbe \cup {None}
    BY <1>5, NewStatfsType DEF CheckMounted, TypeOK
  <2>2. UNCHANGED <<path, weed, vol, mutex, health, silent, ticker>> /\ mutex = "hm"
    BY <1>5 DEF CheckMounted, Locked
  <2>3. hm' \in Monitor /\ hm'.pc \notin Checks /\ hm'.mine = hm.mine
    <3>1. CASE GoesTo("detach")
      BY <3>1, GoesToType DEF PCs, Checks
    <3>2. CASE hm' = [hm EXCEPT !.pc = "isdead", !.wait = 0]
      <4> DEFINE h == [hm EXCEPT !.pc = "isdead"]
      <4>1. h \in Monitor /\ h.pc = "isdead" /\ h.mine = hm.mine
        BY <1>1, MonitorPc DEF PCs
      <4>2. hm' = [h EXCEPT !.wait = 0]
        BY <3>2
      <4> HIDE DEF h
      <4>3. Same([h EXCEPT !.wait = 0], h)
        BY <4>1, Constants, MonitorFields
      <4> QED
        BY <4>1, <4>2, <4>3 DEF Same, Checks
    <3> QED
      BY <1>5, <3>1, <3>2 DEF CheckMounted, GoesTo
  <2>4. TypeOK'
    BY <2>1, <2>2, <2>3 DEF TypeOK
  <2> QED
    BY <2>2, <2>3, <2>4, HmGoesOn
<1>6. CASE IsDeadTimeout
  <2>1. UNCHANGED <<path, weed, vol, statfs, health, silent, ticker>> /\ mutex = "hm"
    BY <1>6 DEF IsDeadTimeout, Locked
  <2>2. CASE GoesTo("detach") /\ UNCHANGED mutex
    <3>1. hm' \in Monitor /\ hm'.pc = "detach" /\ hm'.mine = hm.mine
      BY <2>2, GoesToType DEF PCs
    <3>2. TypeOK'
      BY <2>1, <2>2, <3>1 DEF TypeOK
    <3> QED
      BY <2>1, <2>2, <3>1, <3>2, HmGoesOn DEF Checks
  <2>3. CASE Leave
    <3>1. TypeOK'
      BY <1>1, <2>1, <2>3 DEF Leave, TypeOK
    <3> QED
      BY <2>1, <2>3, <3>1, HmLeaves DEF Leave, CountersEarned
  <2> QED
    BY <1>6, <2>2, <2>3 DEF IsDeadTimeout, GoesTo
<1>7. CASE Restage
  <2>1. PICK m \in Mounts : MountNew(m)
    BY <1>7 DEF Restage
  <2>2. TypeOK'
    BY <1>1, <1>7, <2>1, MountNewType, FreshType DEF Restage, Leave, TypeOK
  <2>3. CountersEarned'
    BY <1>7, FreshType DEF Restage, CountersEarned
  <2> QED
    BY <1>7, <2>2, <2>3, HmLeaves DEF Restage, Leave
<1>8. CASE RecoverFails
  <2>1. TypeOK'
    BY <1>1, <1>8 DEF RecoverFails, Leave, TypeOK
  <2> QED
    BY <1>8, <2>1, HmLeaves DEF RecoverFails, Leave, CountersEarned
<1> QED
  BY <1>2, <1>3, <1>4, <1>5, <1>6, <1>7, <1>8 DEF Recovery

\* Handlers and statistics.
LEMMA RpcKeeps ==
  ASSUME IInv, RpcLock \/ Rpc \/ StatsProbe
  PROVE  IInv'
<1> USE DEF IInv
<1>1. CASE RpcLock \/ RpcUnlock
  <2>1. TypeOK'
    BY <1>1 DEF RpcLock, RpcUnlock, TypeOK
  <2> QED
    BY <1>1, <2>1 DEF RpcLock, RpcUnlock, CountersEarned, Tracked, Waits, Locked
<1>2. CASE RpcCheck
  <2>1. health' \in HealthProbe
    BY <1>2, LoadOrStoreType DEF RpcCheck
  <2>2. TypeOK'
    BY <1>2, <2>1 DEF RpcCheck, TypeOK
  <2> QED
    BY <1>2, <2>1, <2>2, HmStays DEF RpcCheck
<1>3. CASE StatsProbe
  <2>1. TypeOK'
    BY <1>3, NewStatfsType DEF StatsProbe, TypeOK
  <2> QED
    BY <1>3, <2>1, HmStays DEF StatsProbe
<1>4. CASE RpcStage
  <2>1. PICK m \in Mounts : MountNew(m)
    BY <1>4 DEF RpcStage
  <2>2. TypeOK'
    BY <1>4, <2>1, MountNewType, FreshType DEF RpcStage, TypeOK
  <2>3. CountersEarned' /\ Tracked'
    BY <1>4, FreshType DEF RpcStage, CountersEarned, Tracked
  <2> QED
    BY <1>4, <2>2, <2>3 DEF RpcStage, Waits, Locked
<1>5. CASE RpcUnmount
  <2>1. weed' \in [Mounts -> {"quick", "busy", "hung", "dead"}]
    BY <1>5 DEF RpcUnmount, TypeOK
  <2>2. TypeOK'
    BY <1>5, <2>1 DEF RpcUnmount, TypeOK
  <2> QED
    BY <1>5, <2>2 DEF RpcUnmount, CountersEarned, Tracked, Waits, Locked
<1>6. CASE RpcUnstaged
  <2> DEFINE lost == hm.pc = "check" /\ hm.from = "health"
             f == IF lost THEN "orphan" ELSE hm.from
             a == IF lost THEN health.age ELSE hm.age
             c == IF hm.mine THEN vol ELSE hm.held
             h1 == [hm EXCEPT !.from = f]
             h2 == [h1 EXCEPT !.age = a]
             h3 == [h2 EXCEPT !.mine = FALSE]
             h4 == [h3 EXCEPT !.held = c]
  <2>1. hm \in Monitor /\ f \in {"health", "orphan", "ok", "dead", "slow"}
    BY DEF TypeOK, Monitor
  <2>2. a \in 0 .. MaxAge
    BY <2>1 DEF Waits, Checks, HealthProbe, Monitor
  <2>3. c \in Counters
    BY <2>1 DEF Tracked, Monitor
  <2>4. hm' = h4
    <3>1. h1.age = hm.age /\ h3.held = hm.held
      BY <2>1 DEF Monitor
    <3> QED
      BY <1>6, <3>1 DEF RpcUnstaged
  <2>5. lost => f # "health"
    OBVIOUS
  <2>6. ~lost => f = hm.from
    OBVIOUS
  <2> HIDE DEF f, a, c
  <2>7. h1 \in Monitor /\ h1.pc = hm.pc /\ h1.from = f
    BY <2>1, MonitorFrom
  <2> HIDE DEF h1
  <2>8. h2 \in Monitor /\ h2.pc = hm.pc /\ h2.from = f
    BY <2>2, <2>7, MonitorFields DEF Same
  <2> HIDE DEF h2
  <2>9. h3 \in Monitor /\ h3.pc = hm.pc /\ h3.from = f /\ h3.mine = FALSE
    BY <2>8, MonitorFlags
  <2> HIDE DEF h3
  <2>10. Same(h4, h3)
    BY <2>3, <2>9, MonitorFields
  <2>11. hm' \in Monitor /\ hm'.pc = hm.pc /\ hm'.from = f /\ hm'.mine = FALSE
    BY <2>4, <2>9, <2>10 DEF Same
  <2>12. TypeOK'
    BY <1>6, <2>11 DEF RpcUnstaged, ResetStatfsProbe, TypeOK
  <2>13. hm.pc \in {"idle", "check", "lock"}
    BY <1>6 DEF RpcUnstaged, Locked
  <2>14. Waits' /\ Locked'
    BY <2>5, <2>6, <2>11, <2>13 DEF Waits, Locked, Checks
  <2>15. CountersEarned' /\ Tracked'
    BY <1>6, <2>11 DEF RpcUnstaged, CountersEarned, Tracked
  <2> QED
    BY <2>12, <2>14, <2>15
<1> QED
  BY <1>1, <1>2, <1>3, <1>4, <1>5, <1>6 DEF Rpc

\* Time leaves a probe in flight.
LEMMA TickProbes ==
  ASSUME TypeOK, Tick
  PROVE  /\ health' \in HealthProbe \/ (health = None /\ health' = None)
         /\ statfs' \in StatfsProbe \/ (statfs = None /\ statfs' = None)
<1>1. health' \in HealthProbe \/ (health = None /\ health' = None)
  <2>1. CASE health # None
    <3> DEFINE w == IF health.stage = "statfs" THEN health.wait + 1 ELSE health.wait
               h == [health EXCEPT !.age = Older(health.age)]
    <3>1. health \in HealthProbe
      BY <2>1 DEF TypeOK
    <3>2. Older(health.age) \in 0 .. MaxAge
      BY <3>1, OlderType DEF HealthProbe
    <3>3. w \in 0 .. Timeout
      BY <2>1, <3>1, Constants DEF Tick, HealthProbe
    <3>4. h \in HealthProbe /\ h.wait = health.wait
      <4>1. h \in HealthProbe
        BY <3>1, <3>2, ProbeFields
      <4> QED
        BY <3>1, <4>1 DEF HealthProbe
    <3>5. health' = [h EXCEPT !.wait = w]
      BY <2>1, <3>4 DEF Tick
    <3> HIDE DEF w, h
    <3> QED
      BY <3>3, <3>4, <3>5, ProbeFields
  <2> QED
    BY <2>1 DEF Tick
<1>2. statfs' \in StatfsProbe \/ (statfs = None /\ statfs' = None)
  <2>1. CASE statfs # None
    <3>1. statfs \in StatfsProbe /\ Older(statfs.age) \in 0 .. MaxAge
      BY <2>1, OlderType DEF TypeOK, StatfsProbe
    <3>2. statfs' = [statfs EXCEPT !.age = Older(statfs.age)]
      BY <2>1 DEF Tick
    <3> QED
      BY <3>1, <3>2 DEF StatfsProbe
  <2> QED
    BY <2>1 DEF Tick
<1> QED
  BY <1>1, <1>2

\* weed, the mount service and time.
LEMMA WorldKeeps ==
  ASSUME IInv, ServiceReaps \/ (\E m \in Mounts : Weed(m)) \/ Tick
  PROVE  IInv'
<1> USE DEF IInv
<1>1. CASE ServiceReaps
  <2>1. TypeOK'
    BY <1>1 DEF ServiceReaps, TypeOK
  <2> QED
    BY <1>1, <2>1, HmStays DEF ServiceReaps
<1>2. ASSUME NEW m \in Mounts, Weed(m) PROVE IInv'
  <2>1. TypeOK'
    BY <1>2 DEF Weed, TypeOK
  <2> QED
    BY <1>2, <2>1, HmStays DEF Weed
<1>3. CASE Tick
  <2>1. hm' \in Monitor /\ hm'.pc = hm.pc /\ hm'.mine = hm.mine /\ hm'.from = hm.from
    <3>1. CASE Waiting
      <4> DEFINE a == IF hm.from = "orphan" THEN Older(hm.age) ELSE hm.age
                 h == [hm EXCEPT !.wait = hm.wait + 1]
      <4>1. hm \in Monitor /\ hm.wait + 1 \in 0 .. Timeout /\ hm.age \in 0 .. MaxAge
        BY <1>3, <3>1, Constants DEF Tick, TypeOK, Monitor
      <4>2. a \in 0 .. MaxAge
        BY <4>1, OlderType
      <4>3. Same(h, hm) /\ h.age = hm.age
        <5>1. Same(h, hm)
          BY <4>1, MonitorFields
        <5> QED
          BY <4>1, <5>1 DEF Monitor
      <4>4. hm' = [h EXCEPT !.age = a]
        BY <1>3, <3>1, <4>3 DEF Tick
      <4> HIDE DEF a, h
      <4>5. Same([h EXCEPT !.age = a], h)
        BY <4>2, <4>3, MonitorFields DEF Same
      <4> QED
        BY <4>3, <4>4, <4>5 DEF Same
    <3>2. CASE ~Waiting
      BY <1>3, <3>2 DEF Tick, TypeOK
    <3> QED
      BY <3>1, <3>2
  <2>2. /\ health' \in HealthProbe \/ (health = None /\ health' = None)
        /\ statfs' \in StatfsProbe \/ (statfs = None /\ statfs' = None)
    BY <1>3, TickProbes
  <2>4. ticker' \in 0 .. Interval
    BY <1>3, Constants DEF Tick, TypeOK
  <2>5. silent' \in BOOLEAN
    BY <1>3 DEF Tick
  <2>6. UNCHANGED <<path, weed, vol, mutex>>
    BY <1>3 DEF Tick
  <2>7. TypeOK'
    BY <2>1, <2>2, <2>4, <2>5, <2>6 DEF TypeOK
  <2> QED
    BY <2>1, <2>2, <2>6, <2>7 DEF CountersEarned, Tracked, Waits, Locked
<1> QED
  BY <1>1, <1>2, <1>3

\* Every step keeps the invariant.
LEMMA NextIInv == IInv /\ [Next]_vars => IInv'
<1> SUFFICES ASSUME IInv, [Next]_vars PROVE IInv'
  OBVIOUS
<1>1. CASE UNCHANGED vars
  BY <1>1 DEF vars, IInv, TypeOK, CountersEarned, Tracked, Waits, Locked
<1>2. CASE Next
  BY <1>2, ProbesKeep, CheckKeeps, SweepKeeps, RecoverKeeps, RecoveryKeeps, RpcKeeps,
     WorldKeeps
  DEF Next
<1> QED
  BY <1>1, <1>2

-------------------------------------------------------------------------------
(* Theorems.                                                               *)

\* The invariant holds in every reachable state.
THEOREM HealthInvariance == Spec => []IInv
  BY InitIInv, NextIInv, PTL DEF Spec

\* Probes, counters and the goroutine have their types: ages, waits and
\* counts stay within their bounds, and a check that waits for a probe finds
\* one, however probes are shared, reset and forgotten.
THEOREM HealthTypeCorrect == Spec => []TypeOK
<1>1. IInv => TypeOK
  BY DEF IInv
<1> QED
  BY <1>1, HealthInvariance, PTL

\* NodeGetVolumeStats reports a volume abnormal only after Threshold failed
\* checks in a row of the object that is tracked.
THEOREM AbnormalEarnedCorrect == Spec => []AbnormalEarned
<1>1. IInv => AbnormalEarned
  BY DEF IInv, CountersEarned, Earned, AbnormalEarned
<1> QED
  BY <1>1, HealthInvariance, PTL

-------------------------------------------------------------------------------
(* Which mounts a recovery tears down.                                     *)

\* A health probe is a stat, which a weed that is not hung answers within
\* StatBound, or which began no earlier than a check that is to end well, and
\* a statfs, which is waited for no longer than Timeout: together they stay
\* within the age from which a mount counts as hung.
Spell == IF StatBound < Timeout THEN Timeout ELSE StatBound
Margin == Spell + Timeout <= HungAfter /\ Bound <= HungAfter

Rechecks == {"recheck", "recheck2"}

\* The registered probes went to the mount at the path.
ProbesOnPath ==
  path # None => /\ statfs # None => statfs.on = path
                 /\ health # None => health.on = path

\* Before a mount is made, the probes of the one before it are forgotten.
Forgotten ==
  vol = None \/ hm.pc = "stage" => path = None /\ statfs = None /\ health = None

\* A recovery has a volume, and its rechecks wait for registered probes; an
\* unstage and a detach leave no mount.
Held ==
  /\ hm.pc \notin {"idle", "check", "lock"} => vol # None
  /\ mutex = "unstage" \/ hm.pc = "cleanup" => path = None
  /\ hm.pc \in Rechecks => hm.from # "orphan"

\* A probe that found the mount dead is right.
Failing ==
  path # None =>
    /\ health # None /\ health.stage = "closed" /\ health.result = "dead" => weed[path] = "dead"
    /\ hm.pc \in Rechecks /\ hm.from = "dead" => weed[path] = "dead"

\* The waits and ages of one probe go together, and a check that is to end
\* well began no later than the probes now in flight.
Clocks ==
  /\ health # None /\ health.stage = "stat" => health.wait = 0
  /\ health # None /\ health.stage = "statfs" => statfs # None /\ health.wait <= statfs.age
  /\ health # None /\ health.stage = "closed" /\ health.result = "ok" /\ statfs # None
       => statfs.age = 0
  /\ hm.pc = "check" /\ hm.from \in {"ok", "orphan"} =>
       /\ statfs # None => statfs.age <= hm.wait
       /\ health # None => health.age <= hm.wait

\* The mount at the path may go.
Gone == weed[path] = "dead" \/ silent

\* While it may not, no probe of it is old enough to count as hung.
Young ==
  path # None /\ ~Gone =>
    /\ statfs # None => statfs.age <= HungAfter
    /\ health # None /\ health.stage = "stat" => health.age <= Spell
    /\ health # None /\ health.stage = "statfs" => health.age <= health.wait + Spell

\* What is about to be torn down may go.
Due == hm.pc \in {"unmount", "detach"} /\ path # None => Gone

SInv == ProbesOnPath /\ Forgotten /\ Held /\ Failing /\ Clocks /\ Young /\ Due

\* The types of the fields the invariant speaks of.
LEMMA FieldTypes ==
  ASSUME TypeOK
  PROVE  /\ hm.pc \in PCs /\ hm.wait \in 0 .. Timeout
         /\ statfs # None => statfs.age \in 0 .. MaxAge /\ statfs \in StatfsProbe
         /\ health # None => /\ health.age \in 0 .. MaxAge /\ health.wait \in 0 .. Timeout
                             /\ health.stage \in {"stat", "statfs", "closed"}
                             /\ health.result \in {"ok", "dead", "slow"}
                             /\ health \in HealthProbe
  BY DEF TypeOK, Monitor, StatfsProbe, HealthProbe

\* How the longest time an unsuspicious probe is open compares with the others.
LEMMA Spells ==
  /\ Spell \in Nat /\ StatBound <= Spell /\ Timeout <= Spell
  /\ Margin => Spell < HungAfter /\ Timeout < HungAfter /\ Bound <= HungAfter /\ HungAfter < MaxAge
  BY Constants DEF Spell, Margin, MaxAge

\* A closed probe.
LEMMA CloseFields ==
  ASSUME NEW h \in HealthProbe, NEW r \in {"ok", "dead", "slow"}
  PROVE  /\ Close(h, r).stage = "closed" /\ Close(h, r).result = r /\ Close(h, r).on = h.on
         /\ Close(h, r).age = 0 /\ Close(h, r) # None
<1>1. Close(h, r) # None
  BY CloseType, NoneAssumption
<1> QED
  BY <1>1 DEF Close, HealthProbe

\* A probe that is joined, or begins.
LEMMA LoadFields ==
  ASSUME TypeOK
  PROVE  LET h == LoadOrStore(health)
         IN  /\ h # None
             /\ \/ health # None /\ h = health
                \/ /\ health = None /\ h.on = path /\ h.age = 0 /\ h.wait = 0 /\ h.stage = "stat"
                   /\ h.result = "slow"
<1>1. LoadOrStore(health) # None
  BY LoadOrStoreType, NoneAssumption
<1> QED
  BY <1>1 DEF LoadOrStore

\* A statfs that begins.
LEMMA NewFields == TypeOK => NewStatfs # None /\ NewStatfs.on = path /\ NewStatfs.age = 0
  BY NewStatfsType, NoneAssumption DEF NewStatfs

\* The goroutine when a check begins.
LEMMA BeginFields ==
  ASSUME TypeOK, NEW r \in Monitor, BeginCheck(r)
  PROVE  hm'.pc = r.pc /\ hm'.from = "health" /\ hm'.wait = 0 /\ health' = LoadOrStore(health)
  BY DEF BeginCheck, Monitor

\* The first state.
LEMMA InitSInv == Init => SInv
  BY DEF Init, Idle, SInv, ProbesOnPath, Forgotten, Held, Failing, Clocks, Young, Due, Rechecks

\* A step that leaves the mount and its probes alone, while the goroutine
\* goes to a step at which it waits for nothing.
LEMMA Elsewhere ==
  ASSUME SInv, UNCHANGED <<path, weed, statfs, health, silent>>,
         vol' = None => vol = None,
         hm'.pc \notin {"stage", "cleanup", "check", "recheck", "recheck2"},
         hm'.pc \in {"idle", "lock"} \/ (vol # None /\ mutex' # "unstage"),
         mutex' = "unstage" => mutex = "unstage",
         hm'.pc \in {"unmount", "detach"} /\ path # None => Gone
  PROVE  SInv'
<1> USE DEF SInv
<1>1. ProbesOnPath' /\ Forgotten' /\ Held'
  BY DEF ProbesOnPath, Forgotten, Held, Rechecks
<1>2. Failing' /\ Clocks'
  BY DEF Failing, Clocks, Rechecks
<1>3. Young' /\ Due'
  BY DEF Young, Due, Gone
<1> QED
  BY <1>1, <1>2, <1>3

\* The probes.
LEMMA ProbesSpare ==
  ASSUME IInv, SInv, Margin, Probes
  PROVE  SInv'
<1> USE DEF SInv
<1>0. TypeOK /\ hm \in Monitor
  BY DEF IInv, TypeOK
<1>1. CASE StatReturns
  <2>1. health # None /\ health.stage = "stat" /\ health \in HealthProbe /\ vol # None
    BY <1>0, <1>1, FieldTypes DEF StatReturns, Forgotten
  <2>2. UNCHANGED <<path, weed, vol, mutex, hm, silent>>
    BY <1>1 DEF StatReturns
  <2>3. CASE health.on # None /\ weed[health.on] = "dead" /\ health' = Close(health, "dead") /\ statfs' = statfs
    <3>1. /\ health'.stage = "closed" /\ health'.result = "dead" /\ health'.on = health.on
          /\ health'.age = 0 /\ health' # None
      BY <2>1, <2>3, CloseFields
    <3> QED
      BY <1>0, <2>1, <2>2, <2>3, <3>1, FieldTypes
      DEF ProbesOnPath, Forgotten, Held, Failing, Clocks, Young, Due, Gone
  <2>4. CASE path = None /\ health' = Close([health EXCEPT !.on = None], "dead") /\ statfs' = statfs
    <3>1. [health EXCEPT !.on = None] \in HealthProbe
      BY <2>1, ProbeFields
    <3>2. /\ health'.stage = "closed" /\ health'.result = "dead"
          /\ health'.age = 0 /\ health' # None
      BY <2>4, <3>1, CloseFields
    <3> QED
      BY <1>0, <2>1, <2>2, <2>4, <3>2, FieldTypes
      DEF ProbesOnPath, Forgotten, Held, Failing, Clocks, Young, Due, Gone
  <2>5. CASE /\ path # None
             /\ health' = [health EXCEPT !.stage = "statfs", !.on = path]
             /\ statfs' = IF statfs = None THEN NewStatfs ELSE statfs
    <3>1. /\ health'.stage = "statfs" /\ health'.on = path /\ health'.age = health.age
          /\ health'.wait = health.wait
      BY <2>1, <2>5 DEF HealthProbe
    <3>2. /\ statfs' # None /\ (statfs # None => statfs' = statfs)
          /\ statfs = None => statfs'.on = path /\ statfs'.age = 0
      BY <1>0, <2>5, NewFields
    <3> QED
      BY <1>0, <2>1, <2>2, <2>5, <3>1, <3>2, FieldTypes, Spells, Constants
      DEF ProbesOnPath, Forgotten, Held, Failing, Clocks, Young, Due, Gone
  <2> QED
    BY <1>1, <2>3, <2>4, <2>5 DEF StatReturns
<1>2. CASE StatfsReturns
  <2> DEFINE r == IF statfs.on # None /\ weed[statfs.on] = "dead" THEN "dead" ELSE "ok"
  <2>1. statfs # None /\ statfs' = None /\ UNCHANGED <<path, weed, vol, silent>> /\ vol # None
    BY <1>2 DEF StatfsReturns, Forgotten
  <2>2. r \in {"ok", "dead"} /\ (r = "dead" /\ path # None => weed[path] = "dead")
    BY <2>1 DEF ProbesOnPath
  <2>3. health' = IF health # None /\ health.stage = "statfs" THEN Close(health, r) ELSE health
    BY <1>2 DEF StatfsReturns
  <2>4. \/ hm' = hm /\ mutex' = mutex
        \/ hm.pc = "isdead" /\ r = "dead" /\ hm' = [hm EXCEPT !.pc = "detach"] /\ mutex' = mutex
        \/ hm' = Idle /\ mutex' = "free"
    BY <1>2 DEF StatfsReturns
  <2> HIDE DEF r
  <2>5. \/ health' = health /\ (health # None => health.stage # "statfs")
        \/ /\ health # None /\ health' # None /\ health'.stage = "closed" /\ health'.result = r
           /\ health'.on = health.on /\ health'.age = 0
    BY <1>0, <2>2, <2>3, CloseFields, FieldTypes
  <2>6. \/ hm' = hm /\ mutex' = mutex
        \/ hm'.pc = "detach" /\ r = "dead" /\ mutex' = mutex /\ mutex = "hm"
        \/ hm'.pc = "idle" /\ mutex' = "free"
    <3>1. hm.pc = "isdead" => mutex = "hm"
      BY DEF IInv, Locked
    <3>2. Idle.pc = "idle"
      BY DEF Idle
    <3>3. hm' = [hm EXCEPT !.pc = "detach"] => hm'.pc = "detach"
      BY <1>0 DEF Monitor
    <3> QED
      BY <2>4, <3>1, <3>2, <3>3
  <2>7. ProbesOnPath' /\ Forgotten' /\ Held'
    BY <2>1, <2>5, <2>6 DEF ProbesOnPath, Forgotten, Held, Rechecks
  <2>8. Failing'
    BY <2>1, <2>2, <2>5, <2>6 DEF Failing, Rechecks
  <2>9. Clocks'
    BY <1>0, <2>1, <2>5, <2>6, FieldTypes DEF Clocks
  <2>10. Young' /\ Due'
    BY <2>1, <2>2, <2>5, <2>6 DEF Young, Due, Gone
  <2> QED
    BY <2>7, <2>8, <2>9, <2>10
<1>3. CASE ProbeTimeout
  <2>1. health # None /\ health \in HealthProbe
    BY <1>0, <1>3, FieldTypes DEF ProbeTimeout
  <2>2. /\ health'.stage = "closed" /\ health'.result = "slow" /\ health'.on = health.on
        /\ health'.age = 0 /\ health' # None
    BY <1>3, <2>1, CloseFields DEF ProbeTimeout
  <2>3. UNCHANGED <<path, weed, vol, mutex, statfs, hm, silent>>
    BY <1>3 DEF ProbeTimeout
  <2> QED
    BY <1>0, <2>1, <2>2, <2>3, FieldTypes
    DEF ProbesOnPath, Forgotten, Held, Failing, Clocks, Young, Due, Gone
<1>4. CASE Forget
  <2>1. /\ health # None /\ health.stage = "closed" /\ health' = None
        /\ UNCHANGED <<path, weed, vol, mutex, statfs, silent>>
        /\ health.result \in {"ok", "dead", "slow"}
    BY <1>0, <1>4, FieldTypes DEF Forget
  <2>2. /\ hm'.pc = hm.pc /\ hm'.wait = hm.wait
        /\ \/ hm'.from = hm.from
           \/ hm.pc \in Checks /\ hm.from = "health" /\ hm'.from = health.result
    BY <1>0, <1>4 DEF Forget, Monitor
  <2>3. ProbesOnPath' /\ Forgotten' /\ Held'
    BY <2>1, <2>2 DEF ProbesOnPath, Forgotten, Held, Rechecks
  <2>4. Failing'
    BY <2>1, <2>2 DEF Failing, Rechecks
  <2>5. Clocks'
    BY <1>0, <2>1, <2>2, FieldTypes DEF Clocks
  <2>6. Young' /\ Due'
    BY <2>1, <2>2 DEF Young, Due, Gone
  <2> QED
    BY <2>3, <2>4, <2>5, <2>6
<1> QED
  BY <1>1, <1>2, <1>3, <1>4 DEF Probes

\* A check that ends well, ends the silence: the probes that are in flight
\* then began no earlier than it.
LEMMA CheckSpares ==
  ASSUME IInv, SInv, Margin, Check
  PROVE  SInv'
<1> USE DEF SInv
<1>0. TypeOK /\ hm.pc = "check"
  BY DEF IInv, Check, CheckSlow, CheckDead, CheckOK
<1>1. UNCHANGED <<path, weed, mutex, statfs, health>> /\ (vol' = None => vol = None)
  <2>1. vol' = vol \/ vol' \in Counters
    BY CheckCounts
  <2> QED
    BY <2>1, NoneAssumption DEF Check, CheckSlow, CheckDead, CheckOK
<1>2. hm'.pc \in {"idle", "lock"}
  BY CheckEnds
<1>3. CASE CheckSlow \/ CheckDead
  <2>1. silent' = silent
    BY <1>3 DEF CheckSlow, CheckDead
  <2> QED
    BY <1>1, <1>2, <2>1, Elsewhere
<1>4. CASE CheckOK
  <2>1. <<"ok", 0>> \in Results
    BY <1>4 DEF CheckOK
  <2>2. \/ hm.from \in {"ok", "orphan"}
        \/ hm.from = "health" /\ health.stage = "closed" /\ health.result = "ok"
    BY <2>1 DEF Results, Result, TimedOut
  <2>3. hm.from = "health" => health # None
    BY <1>0, NoneAssumption DEF IInv, Waits, Checks
  <2>4. /\ statfs # None => statfs.age <= Timeout
        /\ health # None /\ health.stage # "closed" => health.age <= Timeout
    BY <1>0, <2>2, <2>3, FieldTypes, Constants DEF Clocks
  <2>5. ProbesOnPath' /\ Forgotten' /\ Held' /\ Failing' /\ Clocks' /\ Due'
    BY <1>1, <1>2 DEF ProbesOnPath, Forgotten, Held, Failing, Clocks, Due, Rechecks
  <2>6. Young'
    BY <1>0, <1>1, <2>4, FieldTypes, Spells, Constants DEF Young
  <2> QED
    BY <2>5, <2>6
<1> QED
  BY <1>3, <1>4 DEF Check

\* A check begins, for a volume that is tracked.
LEMMA BeginSpares ==
  ASSUME IInv, SInv, NEW r \in Monitor, BeginCheck(r), r.pc \in Checks, vol # None,
         UNCHANGED <<path, weed, vol, statfs, silent>>, mutex' = "unstage" => mutex = "unstage"
  PROVE  SInv'
<1> USE DEF SInv
<1>0. TypeOK
  BY DEF IInv
<1>1. hm'.pc \in Checks /\ hm'.from = "health" /\ hm'.wait = 0
  BY <1>0, BeginFields
<1>2. /\ health' # None
      /\ \/ health # None /\ health' = health
         \/ /\ health = None /\ health'.on = path /\ health'.age = 0 /\ health'.wait = 0
            /\ health'.stage = "stat"
  BY <1>0, BeginFields, LoadFields
<1>3. ProbesOnPath' /\ Forgotten' /\ Held'
  BY <1>1, <1>2 DEF ProbesOnPath, Forgotten, Held, Checks
<1>4. Failing' /\ Clocks'
  BY <1>1, <1>2 DEF Failing, Clocks
<1>5. Young' /\ Due'
  BY <1>1, <1>2, Spells DEF Young, Due, Gone, Checks
<1> QED
  BY <1>3, <1>4, <1>5

\* Sweep and Recover begin one.
LEMMA StartSpares ==
  ASSUME IInv, SInv, Sweep \/ Recover
  PROVE  SInv'
<1>0. TypeOK /\ hm \in Monitor
  BY DEF IInv, TypeOK
<1>1. CASE Sweep
  <2> DEFINE c == [Idle EXCEPT !.pc = "check"]
             r == [c EXCEPT !.mine = TRUE]
  <2>1. c \in Monitor /\ c.pc = "check"
    BY IdleType, MonitorPc DEF PCs, Checks
  <2> HIDE DEF c
  <2>2. r \in Monitor /\ r.pc = "check"
    BY <2>1, MonitorFlags
  <2>3. BeginCheck(r)
    BY <1>1 DEF Sweep, c
  <2> HIDE DEF r
  <2> QED
    BY <1>1, <2>2, <2>3, BeginSpares DEF Sweep, Sweeps, Checks
<1>2. CASE Recover /\ vol # None
  <2> DEFINE r == [hm EXCEPT !.pc = "recheck"]
  <2>1. r \in Monitor /\ r.pc = "recheck"
    BY <1>0, MonitorPc DEF PCs, Checks
  <2>2. BeginCheck(r) /\ mutex' = "hm" /\ UNCHANGED <<path, weed, vol, statfs, silent>>
    BY <1>2 DEF Recover
  <2> HIDE DEF r
  <2> QED
    BY <1>2, <2>1, <2>2, BeginSpares DEF Checks
<1>3. CASE Recover /\ vol = None
  <2>1. hm' = Idle /\ mutex' = "free" /\ UNCHANGED <<path, weed, vol, statfs, silent, health>>
    BY <1>3 DEF Recover, Leave
  <2>2. hm'.pc = "idle"
    BY <2>1 DEF Idle
  <2> QED
    BY <2>1, <2>2, Elsewhere
<1> QED
  BY <1>1, <1>2, <1>3

\* A recheck that confirms the mount dead or hung is right.
LEMMA ConfirmedIsDue ==
  ASSUME IInv, SInv, Margin, hm.pc \in Rechecks, NEW r \in Results, Confirmed(r), path # None
  PROVE  Gone
<1> USE DEF SInv
<1>0. TypeOK
  BY DEF IInv
<1>1. hm.from \in {"health", "ok", "dead", "slow"}
  BY <1>0 DEF TypeOK, Monitor, Held
<1>2. hm.from = "health" => health # None
  BY NoneAssumption DEF IInv, Waits, Checks, Rechecks
<1>3. CASE r[1] = "dead"
  <2>1. \/ hm.from = "dead"
        \/ hm.from = "health" /\ health.stage = "closed" /\ health.result = "dead"
    BY <1>1, <1>3 DEF Results, Result, TimedOut
  <2> QED
    BY <1>2, <2>1 DEF Failing, Gone
<1>4. CASE r[2] > HungAfter
  <2>1. \/ r[2] = 0
        \/ r[2] = StatfsUnanswered
        \/ hm.from = "health" /\ health.stage # "closed" /\ r[2] = Oldest(health.age, StatfsUnanswered)
    BY <1>1 DEF Results, Result, TimedOut
  <2>2. SUFFICES ASSUME ~Gone PROVE FALSE
    OBVIOUS
  <2>3. StatfsUnanswered \in Nat /\ StatfsUnanswered <= HungAfter
    BY <1>0, <2>2, FieldTypes, Spells, Constants DEF Young, StatfsUnanswered
  <2>4. health # None /\ health.stage # "closed" => health.age \in Nat /\ health.age <= HungAfter
    BY <1>0, <2>2, FieldTypes, Spells, Constants DEF Young, Margin, Spell
  <2> QED
    BY <1>2, <1>4, <2>1, <2>3, <2>4, Constants DEF Oldest
<1> QED
  BY <1>3, <1>4 DEF Confirmed

\* The steps of a recovery.
LEMMA RecoverySpares ==
  ASSUME IInv, SInv, Margin, Recovery \/ UnmountUnknown \/ RecoverFails
  PROVE  SInv'
<1> USE DEF SInv
<1>0. TypeOK /\ hm \in Monitor /\ Idle.pc = "idle"
  BY DEF IInv, TypeOK, Idle
<1>1. \A l \in PCs : GoesTo(l) => hm'.pc = l /\ hm'.from = hm.from /\ hm'.wait = hm.wait
  BY <1>0 DEF GoesTo, Monitor
<1>2. hm.pc \notin {"idle", "check", "lock"} /\ mutex = "hm" /\ vol # None
  <2>1. hm.pc \notin {"idle", "check", "lock"}
    BY DEF Recovery, UnmountUnknown, RecoverFails, Recheck, RecoverUnmount, ResetUnmounted,
           RecheckAgain, CheckMounted, IsDeadTimeout, Detach, CleanUp, Restage
  <2> QED
    BY <2>1 DEF IInv, Locked, Held
<1>3. CASE Leave /\ UNCHANGED <<path, weed, vol, statfs, health, silent>>
  <2>1. hm'.pc = "idle" /\ mutex' = "free"
    BY <1>0, <1>3 DEF Leave
  <2> QED
    BY <1>3, <2>1, Elsewhere
<1>4. CASE Recheck
  <2>1. UNCHANGED <<path, weed, vol, statfs, health, silent>> /\ hm.pc \in Rechecks
    BY <1>4 DEF Recheck, Rechecks
  <2>2. CASE Leave
    BY <1>3, <2>1, <2>2
  <2>3. ASSUME NEW r \in Results, Confirmed(r), NEW l \in {"unmount", "mounted"}, GoesTo(l),
               UNCHANGED mutex
        PROVE  SInv'
    <3>1. hm'.pc = l
      BY <1>1, <2>3 DEF PCs
    <3>2. path # None => Gone
      BY <2>1, <2>3, ConfirmedIsDue
    <3> QED
      BY <1>2, <2>1, <2>3, <3>1, <3>2, Elsewhere
  <2>4. Leave \/ \E r \in Results, l \in {"unmount", "mounted"} :
                   Confirmed(r) /\ GoesTo(l) /\ UNCHANGED mutex
    BY <1>4 DEF Recheck, GoesTo
  <2> QED
    BY <2>2, <2>3, <2>4
<1>5. CASE RecoverUnmount
  <2>1. /\ path' \in {path, None} /\ UNCHANGED <<vol, mutex, statfs, health>>
        /\ weed' = [m \in Mounts |-> IF m = path THEN "dead" ELSE weed[m]]
        /\ hm'.pc = "reset"
    BY <1>1, <1>5 DEF RecoverUnmount, GoesTo, PCs
  <2>2. path' # None => path' = path /\ weed'[path'] = "dead"
    BY <1>0, <2>1 DEF TypeOK
  <2>3. ProbesOnPath' /\ Forgotten' /\ Held'
    BY <1>2, <2>1, <2>2 DEF ProbesOnPath, Forgotten, Held, Rechecks
  <2>4. Failing' /\ Clocks'
    BY <2>1, <2>2 DEF Failing, Clocks
  <2>5. Young' /\ Due'
    BY <2>1, <2>2 DEF Young, Due, Gone
  <2> QED
    BY <2>3, <2>4, <2>5
<1>6. CASE UnmountUnknown
  <2>1. hm'.pc = "reset" /\ UNCHANGED <<path, weed, vol, mutex, statfs, health, silent>>
    BY <1>1, <1>6 DEF UnmountUnknown, GoesTo, PCs
  <2> QED
    BY <1>2, <2>1, Elsewhere
<1>7. CASE ResetUnmounted \/ CleanUp
  <2>1. /\ hm'.pc = IF hm.pc = "reset" THEN "again" ELSE "stage"
        /\ UNCHANGED <<path, weed, vol, mutex, silent>> /\ statfs' = None /\ health' = None
        /\ hm.pc \in {"reset", "cleanup"}
    BY <1>1, <1>7 DEF ResetUnmounted, CleanUp, ResetStatfsProbe, GoesTo, PCs
  <2> QED
    BY <1>2, <2>1
    DEF ProbesOnPath, Forgotten, Held, Failing, Clocks, Young, Due, Gone, Rechecks
<1>8. CASE RecheckAgain
  <2> DEFINE r == [hm EXCEPT !.pc = "recheck2"]
  <2>1. r \in Monitor /\ r.pc = "recheck2"
    BY <1>0, MonitorPc DEF PCs, Checks
  <2>2. BeginCheck(r) /\ UNCHANGED <<path, weed, vol, mutex, statfs, silent>>
    BY <1>8 DEF RecheckAgain
  <2> HIDE DEF r
  <2> QED
    BY <1>2, <2>1, <2>2, BeginSpares DEF Checks
<1>9. CASE CheckMounted
  <2>1. UNCHANGED <<path, weed, vol, mutex, health, silent>>
    BY <1>9 DEF CheckMounted
  <2>2. CASE path = None
    <3>1. hm'.pc = "detach" /\ statfs' = statfs
      BY <1>1, <1>9, <2>2 DEF CheckMounted, GoesTo, PCs
    <3> QED
      BY <1>2, <2>1, <2>2, <3>1, Elsewhere
  <2>3. CASE path # None
    <3>1. hm'.pc = "isdead"
      BY <1>0, <1>9, <2>3 DEF CheckMounted, Monitor
    <3>2. /\ statfs' # None /\ (statfs # None => statfs' = statfs)
          /\ statfs = None => statfs'.on = path /\ statfs'.age = 0
      BY <1>0, <1>9, <2>3, NewFields DEF CheckMounted
    <3>3. ProbesOnPath' /\ Forgotten' /\ Held' /\ Failing' /\ Due'
      BY <1>2, <2>1, <2>3, <3>1, <3>2 DEF ProbesOnPath, Forgotten, Held, Failing, Due, Rechecks
    <3>4. Clocks'
      BY <2>1, <3>1, <3>2 DEF Clocks
    <3>5. Young'
      BY <2>1, <3>2, Spells, Constants DEF Young, Gone
    <3> QED
      BY <3>3, <3>4, <3>5
  <2> QED
    BY <2>2, <2>3
<1>10. CASE IsDeadTimeout
  <2>1. UNCHANGED <<path, weed, vol, statfs, health, silent>>
    BY <1>10 DEF IsDeadTimeout
  <2>2. CASE Leave
    BY <1>3, <2>1, <2>2
  <2>3. CASE StatfsUnanswered > HungAfter /\ GoesTo("detach") /\ UNCHANGED mutex
    <3>1. hm'.pc = "detach"
      BY <1>1, <2>3 DEF PCs
    <3>2. path # None => Gone
      BY <1>0, <2>3, FieldTypes, Spells, Constants DEF Young, StatfsUnanswered
    <3> QED
      BY <1>2, <2>1, <2>3, <3>1, <3>2, Elsewhere
  <2> QED
    BY <1>10, <2>2, <2>3 DEF IsDeadTimeout, GoesTo
<1>11. CASE Detach
  <2>1. hm'.pc = "cleanup" /\ path' = None /\ UNCHANGED <<weed, vol, mutex, statfs, health>>
    BY <1>1, <1>11 DEF Detach, GoesTo, PCs
  <2> QED
    BY <1>2, <2>1
    DEF ProbesOnPath, Forgotten, Held, Failing, Clocks, Young, Due, Rechecks
<1>12. CASE Restage
  <2>1. statfs' = None /\ health' = None /\ vol' # None
    BY <1>12, FreshType, NoneAssumption DEF Restage, Forgotten
  <2>2. hm'.pc = "idle" /\ mutex' = "free"
    BY <1>0, <1>12 DEF Restage, Leave
  <2> QED
    BY <2>1, <2>2
    DEF ProbesOnPath, Forgotten, Held, Failing, Clocks, Young, Due, Rechecks
<1>13. CASE RecoverFails
  BY <1>3, <1>13 DEF RecoverFails
<1> QED
  BY <1>4, <1>5, <1>6, <1>7, <1>8, <1>9, <1>10, <1>11, <1>12, <1>13 DEF Recovery

\* Handlers and statistics.
LEMMA RpcSpares ==
  ASSUME IInv, SInv, RpcLock \/ Rpc \/ StatsProbe
  PROVE  SInv'
<1> USE DEF SInv
<1>0. TypeOK /\ hm \in Monitor
  BY DEF IInv, TypeOK
<1>1. CASE RpcLock \/ RpcUnlock
  <2>1. UNCHANGED <<path, weed, vol, statfs, health, hm, silent>> /\ mutex' # "unstage"
    BY <1>1 DEF RpcLock, RpcUnlock
  <2> QED
    BY <2>1 DEF ProbesOnPath, Forgotten, Held, Failing, Clocks, Young, Due, Gone
<1>2. CASE RpcCheck
  <2>1. UNCHANGED <<path, weed, vol, statfs, mutex, hm, silent>> /\ mutex = "rpc" /\ vol # None
    BY <1>2 DEF RpcCheck
  <2>2. /\ health' # None
        /\ \/ health # None /\ health' = health
           \/ /\ health = None /\ health'.on = path /\ health'.age = 0 /\ health'.wait = 0
              /\ health'.stage = "stat"
    BY <1>0, <1>2, LoadFields DEF RpcCheck
  <2>3. hm.pc # "stage"
    BY <2>1 DEF IInv, Locked
  <2>4. ProbesOnPath' /\ Forgotten' /\ Held' /\ Failing' /\ Due'
    BY <2>1, <2>2, <2>3 DEF ProbesOnPath, Forgotten, Held, Failing, Due, Gone
  <2>5. Clocks'
    BY <1>0, <2>1, <2>2, FieldTypes DEF Clocks
  <2>6. Young'
    BY <2>1, <2>2, Spells DEF Young, Gone
  <2> QED
    BY <2>4, <2>5, <2>6
<1>3. CASE StatsProbe
  <2>1. /\ UNCHANGED <<path, weed, vol, mutex, health, hm, silent>> /\ statfs = None /\ path # None
        /\ statfs' # None /\ statfs'.on = path /\ statfs'.age = 0
    BY <1>0, <1>3, NewFields DEF StatsProbe
  <2>2. ProbesOnPath' /\ Forgotten' /\ Held' /\ Failing' /\ Due'
    BY <2>1 DEF ProbesOnPath, Forgotten, Held, Failing, Due, Gone
  <2>3. Clocks'
    BY <1>0, <2>1, FieldTypes DEF Clocks
  <2>4. Young'
    BY <2>1, Spells, Constants DEF Young, Gone
  <2> QED
    BY <2>2, <2>3, <2>4
<1>4. CASE RpcStage
  <2>1. /\ statfs' = None /\ health' = None /\ vol' # None /\ hm' = hm /\ mutex = "rpc"
        /\ mutex' = "free"
    BY <1>4, FreshType, NoneAssumption DEF RpcStage, Forgotten
  <2>2. hm.pc \in {"idle", "check", "lock"}
    BY <2>1 DEF IInv, Locked
  <2> QED
    BY <2>1, <2>2
    DEF ProbesOnPath, Forgotten, Held, Failing, Clocks, Young, Due, Rechecks
<1>5. CASE RpcUnmount
  <2>1. path' = None /\ UNCHANGED <<vol, statfs, health, hm>> /\ vol # None
    BY <1>5 DEF RpcUnmount
  <2> QED
    BY <2>1 DEF ProbesOnPath, Forgotten, Held, Failing, Clocks, Young, Due, Rechecks
<1>6. CASE RpcUnstaged
  <2>1. /\ path' = None /\ statfs' = None /\ health' = None /\ mutex = "unstage" /\ mutex' = "free"
    BY <1>6 DEF RpcUnstaged, ResetStatfsProbe, Held
  <2>2. hm.pc \in {"idle", "check", "lock"}
    BY <2>1 DEF IInv, Locked
  <2>3. hm'.pc = hm.pc
    BY <1>0, <1>6 DEF RpcUnstaged, Monitor
  <2> QED
    BY <2>1, <2>2, <2>3
    DEF ProbesOnPath, Forgotten, Held, Failing, Clocks, Young, Due, Rechecks
<1> QED
  BY <1>1, <1>2, <1>3, <1>4, <1>5, <1>6 DEF Rpc

\* weed and the mount service.
LEMMA WeedSpares ==
  ASSUME IInv, SInv, ServiceReaps \/ \E m \in Mounts : Weed(m)
  PROVE  SInv'
<1> USE DEF SInv
<1>1. CASE ServiceReaps
  <2>1. path' = None /\ UNCHANGED <<weed, vol, mutex, statfs, health, hm>>
    BY <1>1 DEF ServiceReaps
  <2> QED
    BY <2>1 DEF ProbesOnPath, Forgotten, Held, Failing, Clocks, Young, Due
<1>2. ASSUME NEW m \in Mounts, Weed(m) PROVE SInv'
  <2>1. UNCHANGED <<path, vol, mutex, statfs, health, hm, silent>>
    BY <1>2 DEF Weed
  <2>2. weed[path] = "dead" => weed'[path] = "dead"
    BY <1>2 DEF Weed, IInv, TypeOK
  <2> QED
    BY <2>1, <2>2 DEF ProbesOnPath, Forgotten, Held, Failing, Clocks, Young, Due, Gone
<1> QED
  BY <1>1, <1>2

\* Time: a request that is unanswered past Bound makes the mount silent.
LEMMA TickSpares ==
  ASSUME IInv, SInv, Margin, Tick
  PROVE  SInv'
<1> USE DEF SInv
<1>0. TypeOK /\ hm \in Monitor
  BY DEF IInv, TypeOK
<1>1. UNCHANGED <<path, weed, vol, mutex>>
  BY DEF Tick
<1>2. /\ hm'.pc = hm.pc /\ hm'.from = hm.from
      /\ hm.pc \in Checks => hm'.wait = hm.wait + 1
  BY <1>0 DEF Tick, Monitor, Waiting
<1>3. /\ health = None => health' = None
      /\ health # None => /\ health' # None /\ health'.on = health.on /\ health'.stage = health.stage
                          /\ health'.result = health.result /\ health'.age = Older(health.age)
                          /\ health'.wait = IF health.stage = "statfs" THEN health.wait + 1
                                            ELSE health.wait
                          /\ health.stage # "closed"
  <2>1. CASE health = None
    BY <2>1 DEF Tick
  <2>2. CASE health # None
    <3>1. health \in HealthProbe
      BY <1>0, <2>2, FieldTypes
    <3>2. health' = [health EXCEPT !.age = Older(@),
                                   !.wait = IF health.stage = "statfs" THEN @ + 1 ELSE @]
      BY <2>2 DEF Tick
    <3>4. health.stage # "closed"
      BY <2>2 DEF Tick
    <3>5. /\ health'.on = health.on /\ health'.stage = health.stage
          /\ health'.result = health.result /\ health'.age = Older(health.age)
          /\ health'.wait = IF health.stage = "statfs" THEN health.wait + 1 ELSE health.wait
      BY <3>1, <3>2 DEF HealthProbe
    <3>6. health' # None
      BY <1>0, <2>2, TickProbes, NoneAssumption
    <3> QED
      BY <2>2, <3>4, <3>5, <3>6
  <2> QED
    BY <2>1, <2>2
<1>4. /\ statfs = None => statfs' = None
      /\ statfs # None => /\ statfs' # None /\ statfs'.on = statfs.on
                          /\ statfs'.age = Older(statfs.age)
  <2>1. CASE statfs = None
    BY <2>1 DEF Tick
  <2>2. CASE statfs # None
    <3>1. statfs \in StatfsProbe /\ statfs' = [statfs EXCEPT !.age = Older(@)]
      BY <1>0, <2>2, FieldTypes DEF Tick
    <3>2. statfs' # None
      BY <1>0, <2>2, TickProbes, NoneAssumption
    <3> QED
      BY <2>2, <3>1, <3>2 DEF StatfsProbe
  <2> QED
    BY <2>1, <2>2
<1>5. ASSUME path # None, ~silent'
      PROVE  /\ ~silent
             /\ statfs # None => statfs.age < Bound
             /\ health # None /\ health.stage = "stat" => health.age < StatBound
  <2>1. /\ ~silent
        /\ ~(health # None /\ health.stage = "stat" /\ health.on = path /\ health.age >= StatBound)
        /\ ~(statfs # None /\ statfs.on = path /\ statfs.age >= Bound)
    BY <1>5 DEF Tick
  <2> QED
    BY <1>0, <1>5, <2>1, FieldTypes, Constants DEF ProbesOnPath
<1>6. \A a \in 0 .. MaxAge : Older(a) \in {a, a + 1} /\ (a < MaxAge => Older(a) = a + 1)
  BY DEF Older
<1>7. ProbesOnPath' /\ Forgotten' /\ Held' /\ Failing'
  BY <1>1, <1>2, <1>3, <1>4 DEF ProbesOnPath, Forgotten, Held, Failing
<1>8. Due'
  <2>1. path # None /\ silent => silent'
    BY DEF Tick
  <2> QED
    BY <1>1, <1>2, <2>1 DEF Due, Gone
<1>9. Clocks'
  <2>1. health' # None /\ health'.stage = "stat" => health'.wait = 0
    BY <1>3 DEF Clocks
  <2>2. health' # None /\ health'.stage = "statfs" => statfs' # None /\ health'.wait <= statfs'.age
    <3> SUFFICES ASSUME health # None, health.stage = "statfs"
                 PROVE  statfs' # None /\ health.wait + 1 <= Older(statfs.age)
      BY <1>3, <1>4 DEF Clocks
    <3>1. statfs # None /\ health.wait <= statfs.age
      BY DEF Clocks
    <3>2. health.wait < Timeout /\ health.wait \in Nat /\ statfs.age \in 0 .. MaxAge
      BY <1>0, <3>1, FieldTypes, Constants DEF Tick
    <3>3. Older(statfs.age) = IF statfs.age < MaxAge THEN statfs.age + 1 ELSE statfs.age
      BY DEF Older
    <3> QED
      BY <1>4, <3>1, <3>2, <3>3, Spells, Constants
  <2>3. health' # None => health'.stage # "closed"
    BY <1>3
  <2>4. ASSUME hm'.pc = "check", hm'.from \in {"ok", "orphan"}
        PROVE  /\ statfs' # None => statfs'.age <= hm'.wait
               /\ health' # None => health'.age <= hm'.wait
    <3>1. hm'.wait = hm.wait + 1 /\ hm.wait \in Nat
      BY <1>0, <1>2, <2>4, FieldTypes, Constants DEF Checks
    <3>2. /\ statfs # None => statfs.age <= hm.wait /\ statfs.age \in 0 .. MaxAge
          /\ health # None => health.age <= hm.wait /\ health.age \in 0 .. MaxAge
      BY <1>0, <1>2, <2>4, FieldTypes DEF Clocks
    <3> QED
      BY <1>3, <1>4, <1>6, <3>1, <3>2, Constants
  <2> QED
    BY <2>1, <2>2, <2>3, <2>4 DEF Clocks
<1>10. Young'
  <2> SUFFICES ASSUME path # None, ~Gone'
               PROVE  /\ statfs' # None => statfs'.age <= HungAfter
                      /\ health' # None /\ health'.stage = "stat" => health'.age <= Spell
                      /\ health' # None /\ health'.stage = "statfs" =>
                           health'.age <= health'.wait + Spell
    BY <1>1 DEF Young
  <2>1. ~silent' /\ ~Gone
    BY <1>1, <1>5 DEF Gone
  <2>2. /\ statfs # None => statfs.age < Bound /\ statfs.age \in 0 .. MaxAge
        /\ health # None /\ health.stage = "stat" => health.age < StatBound
        /\ health # None => health.age \in 0 .. MaxAge /\ health.wait \in 0 .. Timeout
    BY <1>0, <1>5, <2>1, FieldTypes
  <2>3. statfs' # None => statfs'.age <= HungAfter
    BY <1>4, <1>6, <2>2, Spells, Constants
  <2>4. health' # None /\ health'.stage = "stat" => health'.age <= Spell
    BY <1>3, <1>6, <2>2, Spells, Constants
  <2>5. ASSUME health # None, health.stage = "statfs"
        PROVE  health'.age <= health'.wait + Spell
    <3>1. health.age <= health.wait + Spell
      BY <2>1, <2>5 DEF Young
    <3> QED
      BY <1>3, <1>6, <2>2, <2>5, <3>1, Spells, Constants
  <2> QED
    BY <1>3, <2>3, <2>4, <2>5
<1> QED
  BY <1>7, <1>8, <1>9, <1>10

\* Every step keeps it.
LEMMA NextSInv == IInv /\ SInv /\ Margin /\ [Next]_vars => SInv'
<1> SUFFICES ASSUME IInv, SInv, Margin, [Next]_vars PROVE SInv'
  OBVIOUS
<1>1. CASE UNCHANGED vars
  BY <1>1 DEF vars, SInv, ProbesOnPath, Forgotten, Held, Failing, Clocks, Young, Due, Gone
<1>2. CASE Next
  BY <1>2, ProbesSpare, CheckSpares, StartSpares, RecoverySpares, RpcSpares, WeedSpares, TickSpares
  DEF Next
<1> QED
  BY <1>1, <1>2

\* If a stat, or a check, and the wait for a statfs fit into
\* defaultHungMountAfter, and weed answers every request within it, a
\* recovery stops or detaches a mount only if its weed is dead or has left a
\* request unanswered past its bound, whichever probes are shared, in flight,
\* closed or orphaned, and whatever requests, statistics and checks run
\* meanwhile (recoverVolumeAs).  The documented times are 25 s for a stat,
\* 30 s for a check or statfs, and 60 s for a request and HungAfter.
THEOREM RecoverySparesBusyCorrect ==
  ASSUME StatBound + Timeout <= HungAfter, 2 * Timeout <= HungAfter, Bound <= HungAfter
  PROVE  Spec => RecoverySparesBusy
<1> DEFINE Spares == TearsDown /\ path # None => weed[path] = "dead" \/ silent
<1>1. Margin
  BY Constants DEF Margin, Spell
<1>2. IInv /\ SInv /\ [Next]_vars => [Spares]_vars
  BY DEF SInv, Due, Gone, TearsDown
<1>3. IInv /\ SInv /\ [Next]_vars => IInv' /\ SInv'
  BY <1>1, NextIInv, NextSInv
<1> HIDE DEF Spares
<1>4. Spec => [][Spares]_vars
  BY <1>2, <1>3, InitIInv, InitSInv, PTL DEF Spec
<1> QED
  BY <1>4 DEF Spares, RecoverySparesBusy
===============================================================================
