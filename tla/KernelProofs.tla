---------------------------- MODULE KernelProofs ----------------------------
(***************************************************************************)
(* The scheduler, and the interrupts that drive it.                         *)
(*                                                                          *)
(* The scheduler's invariants for any number of threads, any time slice and *)
(* any limit of the search.  The parts hold each other up: that only the    *)
(* current task is RUNNING keeps a switch from leaving two, and that the    *)
(* current one owes no acknowledgement lets at most one task owe it.        *)
(*                                                                          *)
(* Interrupts and exceptions for every set of devices and of exceptions,    *)
(* nested to any depth.  The stack never holds two interrupts, because      *)
(* interrupts are off in the handler of one: that is why one                *)
(* acknowledgement clears all that is in service.  One handler at most      *)
(* draws, and the outermost exception is the first.                         *)
(***************************************************************************)
EXTENDS Task, Irq, FiniteSetTheorems, SequenceTheorems, TLAPS

-----------------------------------------------------------------------------
(* Tasks.                                                                   *)

Inv == TaskTypeOK /\ CurrentIsHead /\ OneOwes

\* The idle thread is the first that is created.
LEMMA CreatedIdle == boot \in Tasks /\ Len(Created) \in Nat /\ Len(Created) >= 1
<1>1. Workers \in Seq(Tasks)
  BY TaskAssumption
<1>2. boot \in Tasks
  BY Zenon DEF Tasks
<1>3. Len(Created) \in Nat /\ Len(Created) >= 1
  BY <1>1 DEF Created
<1> QED
  BY <1>2, <1>3

\* The initial state, when g_bootstrap is the only task.
LEMMA TaskInit == Init => Inv
<1> SUFFICES ASSUME Init PROVE Inv
  OBVIOUS
<1>1. boot \in Tasks /\ Len(Created) \in Nat /\ Len(Created) >= 1
  BY CreatedIdle
<1>2. /\ TIME_SLICE_TICKS \in Nat \ {0} /\ JiffyWrap \in Nat \ {0}
  BY TaskAssumption
<1>3. TaskTypeOK
  <2>1. /\ made \subseteq Tasks /\ boot \in made /\ next \in [Tasks -> Tasks]
        /\ {g_current, g_readyq} \subseteq made /\ owing \subseteq made
    BY <1>1, <1>2 DEF Init
  <2>2. /\ state \in [Tasks -> {"READY", "RUNNING", "ZOMBIE"}]
        /\ time_slice \in [Tasks -> 0 .. TIME_SLICE_TICKS]
    BY <1>2 DEF Init
  <2>3. jiffies \in 0 .. JiffyWrap - 1 /\ born \in 1 .. Len(Created)
    BY <1>1, <1>2 DEF Init
  <2>4. sched_enabled \in BOOLEAN /\ boot_pc \in {"link", "head", "enable", "desktop"}
    BY Zenon DEF Init
  <2> QED
    BY <2>1, <2>2, <2>3, <2>4, Zenon DEF TaskTypeOK
<1>4. CurrentIsHead /\ OneOwes
  BY <1>1 DEF Init, CurrentIsHead, OneOwes
<1> QED
  BY <1>3, <1>4 DEF Inv

\* A switch hands over the CPU and the RUNNING mark.
LEMMA SwitchKeepsInv ==
  ASSUME Inv, NEW cand \in Candidates \ {g_current}, NEW hd, hd => owing = {},
         NEW ts \in [Tasks -> 0 .. TIME_SLICE_TICKS], Switch(cand, ts),
         owing' = (owing \cup (IF hd THEN {g_current} ELSE {})) \ {cand},
         UNCHANGED <<ring, sched_enabled, boot_pc, born>>, jiffies' \in 0 .. JiffyWrap - 1
  PROVE  Inv'
<1> USE TaskAssumption
<1>1. cand \in made /\ state[cand] = "READY" /\ cand \in Tasks /\ g_current \in Tasks
  BY DEF Candidates, Scan, Inv, TaskTypeOK
<1>2. owing' \subseteq made /\ cand \notin owing' /\ \A s, t \in owing' : s = t
  BY <1>1, Zenon DEF Inv, TaskTypeOK, OneOwes
<1>3. state' \in [Tasks -> {"READY", "RUNNING", "ZOMBIE"}]
  BY <1>1 DEF Switch, Inv, TaskTypeOK
<1>4. TaskTypeOK'
  BY <1>1, <1>2, <1>3 DEF Switch, Inv, TaskTypeOK, ring
<1>5. CurrentIsHead'
  BY <1>1 DEF Switch, Inv, TaskTypeOK, CurrentIsHead
<1>6. OneOwes'
  BY <1>1, <1>2 DEF Switch, OneOwes
<1> QED
  BY <1>4, <1>5, <1>6 DEF Inv

\* schedule() preserves the invariant, whatever it finds.
LEMMA ScheduleKeepsInv ==
  ASSUME Inv, NEW ts \in [Tasks -> 0 .. TIME_SLICE_TICKS], NEW hd, hd => owing = {}, Schedule(ts, hd),
         UNCHANGED <<ring, sched_enabled, boot_pc, born>>, jiffies' \in 0 .. JiffyWrap - 1
  PROVE  Inv'
<1>1. CASE Candidates \ {g_current} # {}
  <2>1. PICK cand \in Candidates \ {g_current} :
          Switch(cand, ts) /\ owing' = (owing \cup (IF hd THEN {g_current} ELSE {})) \ {cand}
    BY <1>1 DEF Schedule
  <2> QED
    BY <2>1, SwitchKeepsInv
<1>2. CASE Candidates \ {g_current} = {}
  <2>1. time_slice' \in [Tasks -> 0 .. TIME_SLICE_TICKS] /\ UNCHANGED <<state, cpu>>
    BY <1>2, TaskAssumption DEF Schedule
  <2>2. TaskTypeOK'
    BY <2>1 DEF Inv, TaskTypeOK, cpu, ring
  <2> QED
    BY <2>1, <2>2 DEF Inv, CurrentIsHead, OneOwes, cpu
<1> QED
  BY <1>1, <1>2

LEMMA JiffyType == ASSUME Inv, Jiffy PROVE jiffies' \in 0 .. JiffyWrap - 1
  BY TaskAssumption DEF Inv, TaskTypeOK, Jiffy

\* Every step of the kernel preserves the invariant.
LEMMA TaskStep == Inv /\ [Next]_vars => Inv'
<1> SUFFICES ASSUME Inv, [Next]_vars PROVE Inv'
  OBVIOUS
<1> USE TaskAssumption
<1>0. g_current \in Tasks /\ Created[born] \in Tasks
  BY DEF Inv, TaskTypeOK, Tasks
<1>1. CASE PushLink
  <2>1. TaskTypeOK'
    BY <1>0, <1>1 DEF PushLink, Newborn, Inv, TaskTypeOK, cpu
  <2> QED
    BY <1>1, <2>1 DEF PushLink, Inv, CurrentIsHead, OneOwes, cpu
<1>2. CASE PushHead
  <2>1. TaskTypeOK'
    BY <1>0, <1>2 DEF PushHead, Newborn, Inv, TaskTypeOK, cpu
  <2> QED
    BY <1>2, <2>1 DEF PushHead, Inv, CurrentIsHead, OneOwes, cpu
<1>3. CASE EnableSched
  <2>1. TaskTypeOK'
    BY <1>3 DEF EnableSched, Inv, TaskTypeOK, cpu, ring
  <2> QED
    BY <1>3, <2>1 DEF EnableSched, Inv, CurrentIsHead, OneOwes, cpu
<1>4. CASE PitIrq
  <2>1. TaskTypeOK'
    BY <1>4, JiffyType DEF PitIrq, Inv, TaskTypeOK, cpu, ring
  <2> QED
    BY <1>4, <2>1 DEF PitIrq, Inv, CurrentIsHead, OneOwes, cpu
<1>5. CASE Tick
  <2>1. time_slice' \in [Tasks -> 0 .. TIME_SLICE_TICKS]
    BY <1>0, <1>5 DEF Tick, Expired, Inv, TaskTypeOK
  <2>2. TaskTypeOK'
    BY <1>5, <2>1, JiffyType DEF Tick, Inv, TaskTypeOK, cpu, ring
  <2> QED
    BY <1>5, <2>2 DEF Tick, Inv, CurrentIsHead, OneOwes, cpu
<1>6. CASE TickSchedule
  <2> DEFINE ts == [time_slice EXCEPT ![g_current] = TIME_SLICE_TICKS]
  <2>1. ts \in [Tasks -> 0 .. TIME_SLICE_TICKS]
    BY DEF Inv, TaskTypeOK
  <2>2. PICK hd \in BOOLEAN : Schedule(ts, hd) /\ owing = {} /\ UNCHANGED <<ring, sched_enabled, boot_pc, born>> /\ Jiffy
    BY <1>6 DEF TickSchedule
  <2> HIDE DEF ts
  <2> QED
    BY <2>1, <2>2, JiffyType, ScheduleKeepsInv
<1>7. CASE Yield
  <2>1. Schedule(time_slice, FALSE) /\ UNCHANGED <<ring, sched_enabled, boot_pc, born>> /\ jiffies' = jiffies
    BY <1>7 DEF Yield
  <2>2. time_slice \in [Tasks -> 0 .. TIME_SLICE_TICKS] /\ jiffies \in 0 .. JiffyWrap - 1
    BY DEF Inv, TaskTypeOK
  <2> QED
    BY <2>1, <2>2, ScheduleKeepsInv
<1>8. CASE Exit
  <2>1. TaskTypeOK'
    BY <1>0, <1>8 DEF Exit, Inv, TaskTypeOK, cpu, ring
  <2> QED
    BY <1>0, <1>8, <2>1 DEF Exit, Inv, TaskTypeOK, CurrentIsHead, OneOwes, cpu
<1>9. CASE UNCHANGED vars
  BY <1>9 DEF Inv, TaskTypeOK, CurrentIsHead, OneOwes, vars, ring, cpu
<1> QED
  BY <1>1, <1>2, <1>3, <1>4, <1>5, <1>6, <1>7, <1>8, <1>9 DEF Next, Boot, Timer

LEMMA TaskInvariant == Spec => []Inv
  BY TaskInit, TaskStep, PTL DEF Spec

\* The variables of the scheduler keep their types; no slice goes negative.
THEOREM TaskTypes == Spec => []TaskTypeOK
<1>1. Inv => TaskTypeOK
  BY DEF Inv
<1> QED
  BY <1>1, TaskInvariant, PTL

\* The current task is the head of the ring and the only RUNNING one.
THEOREM TaskCurrentIsHead == Spec => []CurrentIsHead
<1>1. Inv => CurrentIsHead
  BY DEF Inv
<1> QED
  BY <1>1, TaskInvariant, PTL

\* All of it at once: after any tick, yield, exit or creation the current task
\* is the head of the ring and alone RUNNING, and an acknowledgement that is
\* still owed is owed by one other task.
THEOREM TaskIsSafe == Spec => []TaskSafe
<1>1. Inv => TaskSafe
  BY DEF Inv, TaskSafe
<1> QED
  BY <1>1, TaskInvariant, PTL

\* schedule() leaves zombies alone: it picks READY tasks only, and puts back
\* to READY only a task that was RUNNING.
LEMMA ScheduleKeepsZombies ==
  ASSUME Inv, NEW ts, NEW hd, Schedule(ts, hd), NEW t \in Tasks, state[t] = "ZOMBIE"
  PROVE  state'[t] = "ZOMBIE" /\ (g_current' = t => g_current = t)
<1>1. CASE Candidates \ {g_current} # {}
  <2>1. PICK cand \in Candidates \ {g_current} : Switch(cand, ts)
    BY <1>1 DEF Schedule
  <2>2. state[cand] = "READY" /\ cand # t /\ g_current \in Tasks /\ cand \in Tasks
    BY DEF Candidates, Scan, Inv, TaskTypeOK
  <2> QED
    BY <2>1, <2>2 DEF Switch, Inv, TaskTypeOK
<1>2. CASE Candidates \ {g_current} = {}
  BY <1>2 DEF Schedule, cpu
<1> QED
  BY <1>1, <1>2

\* A thread whose entry function has returned never runs again once the CPU
\* has left it.
THEOREM TaskZombiesStayDead == Spec => ZombiesStayDead
<1> DEFINE Dead == \A t \in Tasks : state[t] = "ZOMBIE" =>
                     state'[t] = "ZOMBIE" /\ (g_current' = t => g_current = t)
<1>1. Inv /\ [Next]_vars => [Dead]_vars
  <2> SUFFICES ASSUME Inv, Next, NEW t \in Tasks, state[t] = "ZOMBIE"
               PROVE  state'[t] = "ZOMBIE" /\ (g_current' = t => g_current = t)
    OBVIOUS
  <2>1. CASE Boot \/ PitIrq \/ Tick
    BY <2>1 DEF Boot, PushLink, PushHead, EnableSched, PitIrq, Tick, cpu
  <2>2. CASE TickSchedule
    BY <2>2, ScheduleKeepsZombies DEF TickSchedule
  <2>3. CASE Yield
    BY <2>3, ScheduleKeepsZombies DEF Yield
  <2>4. CASE Exit
    BY <2>4 DEF Exit, Inv, TaskTypeOK, cpu
  <2> QED
    BY <2>1, <2>2, <2>3, <2>4 DEF Next, Timer
<1> QED
  BY <1>1, TaskInvariant, PTL DEF Spec, ZombiesStayDead

-----------------------------------------------------------------------------
(* The ring.  A task that is being created is outside it, and between the   *)
(* two stores of rq_push points where the head of the ring does.            *)

Unlinked == boot_pc \in {"link", "head"} => \A k \in born .. Len(Created) : Created[k] \notin made
Pointed  == boot_pc = "head" => next[Newborn] = next[boot]
RingInv  == IsFiniteSet(made) /\ Unlinked /\ Pointed /\ RingWhole

\* A walk w around the ring m of n tasks.
Around(w, n, m, nx) ==
  /\ w \in [0 .. n - 1 -> m] /\ w[0] = boot /\ nx[w[n - 1]] = boot
  /\ \A k \in 1 .. n - 1 : w[k] = nx[w[k - 1]] /\ w[k] # boot

\* A task that is put behind boot makes the ring longer and leaves it whole.
LEMMA InsertBehindBoot ==
  ASSUME NEW n \in Nat \ {0}, NEW m, NEW w, NEW nx, NEW nx2, NEW t, boot \in m, t # boot, t \notin m,
         Around(w, n, m, nx), nx[t] = nx[boot], nx2[boot] = t, nx2[t] = nx[t],
         \A u \in m : u # boot => nx2[u] = nx[u]
  PROVE  \E v : Around(v, n + 1, m \cup {t}, nx2)
<1> DEFINE v == [k \in 0 .. n |-> IF k = 0 THEN boot ELSE IF k = 1 THEN t ELSE w[k - 1]]
<1>1. w \in [0 .. n - 1 -> m] /\ w[0] = boot /\ nx[w[n - 1]] = boot
  BY DEF Around
<1>2. \A k \in 1 .. n - 1 : w[k] = nx[w[k - 1]] /\ w[k] # boot /\ w[k] \in m
  BY <1>1 DEF Around
<1>3. v \in [0 .. n -> m \cup {t}]
  BY <1>1
<1>4. v[0] = boot /\ v[1] = t /\ \A k \in 2 .. n : v[k] = w[k - 1]
  OBVIOUS
<1> HIDE DEF v
<1>5. nx2[v[n]] = boot
  <2>1. CASE n = 1
    BY <1>1, <1>4, <2>1
  <2>2. CASE n > 1
    <3>1. n \in 2 .. n /\ n - 1 \in 1 .. n - 1
      BY <2>2
    <3>2. v[n] = w[n - 1] /\ w[n - 1] # boot /\ w[n - 1] \in m
      BY <1>2, <1>4, <3>1
    <3> QED
      BY <1>1, <3>2
  <2> QED
    BY <2>1, <2>2
<1>6. ASSUME NEW k \in 1 .. n PROVE v[k] = nx2[v[k - 1]] /\ v[k] # boot
  <2>1. CASE k = 1
    BY <1>4, <2>1
  <2>2. CASE k = 2
    <3>1. v[2] = w[1] /\ v[1] = t /\ w[1] = nx[w[0]] /\ w[1] # boot
      BY <1>2, <1>4, <2>2
    <3> QED
      BY <1>1, <2>2, <3>1
  <2>3. CASE k > 2
    <3>1. k \in 2 .. n /\ k - 1 \in 2 .. n /\ k - 1 \in 1 .. n - 1 /\ (k - 1) - 1 \in 1 .. n - 1
      BY <2>3
    <3>2. v[k] = w[k - 1] /\ v[k - 1] = w[(k - 1) - 1]
      BY <1>4, <3>1
    <3>3. w[k - 1] = nx[w[(k - 1) - 1]] /\ w[k - 1] # boot /\ w[(k - 1) - 1] \in m /\ w[(k - 1) - 1] # boot
      BY <1>2, <3>1
    <3> QED
      BY <3>2, <3>3
  <2> QED
    BY <2>1, <2>2, <2>3
<1>7. (n + 1) - 1 = n
  OBVIOUS
<1> QED
  BY <1>3, <1>4, <1>5, <1>6, <1>7 DEF Around

LEMMA WholeIsAround == RingWhole <=> \E w : Around(w, Cardinality(made), made, next)
  BY Zenon DEF RingWhole, Around

\* The threads that are created are different from boot.
LEMMA CreatedNotBoot == \A k \in 1 .. Len(Created) : Created[k] # boot
<1>1. Workers \in Seq(Tasks) /\ <<idle>> \in Seq({idle}) /\ Len(<<idle>>) = 1 /\ <<idle>>[1] = idle
  BY TaskAssumption
<1>2. /\ Len(Created) = Len(Workers) + 1 /\ Len(Workers) \in Nat
      /\ \A k \in 1 .. Len(Created) : Created[k] = IF k <= 1 THEN <<idle>>[k] ELSE Workers[k - 1]
  BY <1>1 DEF Created
<1> SUFFICES ASSUME NEW k \in 1 .. Len(Created) PROVE Created[k] # boot
  OBVIOUS
<1>3. CASE k = 1
  <2>1. Created[k] = idle
    BY <1>1, <1>2, <1>3
  <2> QED
    BY <2>1, TaskAssumption
<1>4. CASE k # 1
  <2>1. Created[k] = Workers[k - 1] /\ k - 1 \in 1 .. Len(Workers)
    BY <1>2, <1>4
  <2> QED
    BY <2>1, TaskAssumption
<1> QED
  BY <1>3, <1>4

LEMMA RingInit == Init => RingInv
<1> SUFFICES ASSUME Init PROVE RingInv
  OBVIOUS
<1>1. made = {boot} /\ next = [t \in Tasks |-> boot] /\ boot_pc = "link" /\ boot \in Tasks
  BY CreatedIdle, Zenon DEF Init
<1>2. IsFiniteSet(made) /\ Cardinality(made) = 1
  BY <1>1, FS_Singleton
<1>3. Unlinked
  <2>1. born = 1
    BY Zenon DEF Init
  <2> QED
    BY <1>1, <2>1, CreatedNotBoot DEF Unlinked
<1>4. Pointed
  BY <1>1 DEF Pointed
<1>5. RingWhole
  <2> DEFINE w == [k \in 0 .. 0 |-> boot]
  <2>1. w \in [0 .. 1 - 1 -> made] /\ w[0] = boot /\ next[w[1 - 1]] = boot
    BY <1>1
  <2>2. Around(w, 1, made, next)
    BY <2>1 DEF Around
  <2> QED
    BY <1>2, <2>2, WholeIsAround
<1> QED
  BY <1>2, <1>3, <1>4, <1>5 DEF RingInv

\* The first store of rq_push is to a task outside the ring.
LEMMA LinkKeepsRing == ASSUME Inv, RingInv, PushLink PROVE RingInv'
<1>1. PICK t : t = Newborn
  OBVIOUS
<1>2. /\ boot_pc = "link" /\ g_readyq = boot /\ next' = [next EXCEPT ![t] = next[boot]] /\ UNCHANGED <<made, born>>
      /\ boot_pc' = "head"
  BY <1>1 DEF PushLink, Inv, CurrentIsHead
<1>3. t \in Tasks /\ t \notin made /\ boot \in made /\ boot \in Tasks /\ next \in [Tasks -> Tasks] /\ made \subseteq Tasks
  <2>1. born \in 1 .. Len(Created) /\ Len(Created) \in Nat
    BY CreatedIdle DEF Inv, TaskTypeOK
  <2>2. born \in born .. Len(Created)
    BY <2>1
  <2>3. t \in Tasks
    BY <1>1, <2>1 DEF Newborn, Tasks
  <2>4. t \notin made
    BY <1>1, <1>2, <2>2 DEF Newborn, RingInv, Unlinked
  <2> QED
    BY <2>3, <2>4, CreatedIdle DEF Inv, TaskTypeOK
<1>4. \A u \in made : next'[u] = next[u]
  BY <1>2, <1>3
<1>5. Pointed'
  <2>1. next'[t] = next[boot] /\ next'[boot] = next[boot] /\ Newborn' = t
    BY <1>1, <1>2, <1>3 DEF Newborn
  <2> QED
    BY <2>1, Zenon DEF Pointed
<1>6. Unlinked'
  BY <1>2 DEF RingInv, Unlinked
<1>7. RingWhole'
  <2>1. PICK n : n = Cardinality(made)
    OBVIOUS
  <2>2. PICK w : Around(w, n, made, next)
    BY <2>1, WholeIsAround DEF RingInv
  <2>3. n \in Nat \ {0}
    BY <1>3, <2>1, FS_CardinalityType, FS_EmptySet DEF RingInv
  <2>4. Around(w, n, made, next)'
    <3>1. w \in [0 .. n - 1 -> made] /\ n - 1 \in 0 .. n - 1 /\ \A k \in 1 .. n - 1 : k - 1 \in 0 .. n - 1
      BY <2>2, <2>3 DEF Around
    <3>2. w[n - 1] \in made /\ \A k \in 1 .. n - 1 : w[k - 1] \in made
      BY <3>1
    <3> QED
      BY <1>2, <1>4, <2>2, <3>1, <3>2 DEF Around
  <2>5. n = Cardinality(made')
    BY <1>2, <2>1
  <2>6. \E v : Around(v, Cardinality(made), made, next)'
    BY <2>4, <2>5
  <2> QED
    BY <2>6, Zenon DEF RingWhole, Around
<1>8. IsFiniteSet(made)'
  BY <1>2 DEF RingInv
<1> QED
  BY <1>5, <1>6, <1>7, <1>8 DEF RingInv

\* The second store makes it a member, right behind boot.
LEMMA HeadKeepsRing == ASSUME Inv, RingInv, PushHead PROVE RingInv'
<1>1. PICK t : t = Newborn
  OBVIOUS
<1>2. /\ boot_pc = "head" /\ g_readyq = boot /\ next' = [next EXCEPT ![boot] = t] /\ made' = made \cup {t}
      /\ boot_pc' = (IF born = Len(Created) THEN "enable" ELSE "link")
      /\ born' = (IF born = Len(Created) THEN born ELSE born + 1)
  BY <1>1 DEF PushHead, Inv, CurrentIsHead
<1>3. born \in 1 .. Len(Created) /\ Len(Created) \in Nat
  BY CreatedIdle DEF Inv, TaskTypeOK
<1>4. t \in Tasks /\ t \notin made /\ boot \in made /\ boot \in Tasks /\ next \in [Tasks -> Tasks] /\ made \subseteq Tasks
  <2>1. born \in born .. Len(Created)
    BY <1>3
  <2>2. t \in Tasks
    BY <1>1, <1>3 DEF Newborn, Tasks
  <2>3. t \notin made
    BY <1>1, <1>2, <2>1 DEF Newborn, RingInv, Unlinked
  <2> QED
    BY <2>2, <2>3, CreatedIdle DEF Inv, TaskTypeOK
<1>5. t # boot /\ next[t] = next[boot]
  BY <1>1, <1>2, <1>4 DEF RingInv, Pointed
<1>6. Pointed'
  BY <1>2 DEF Pointed
<1>7. Unlinked'
  <2> SUFFICES ASSUME boot_pc' = "link", NEW k \in born' .. Len(Created) PROVE Created[k] \notin made'
    BY <1>2 DEF Unlinked
  <2>1. born' = born + 1
    BY <1>2
  <2>2. k \in born .. Len(Created) /\ k # born /\ k \in 1 .. Len(Created)
    BY <1>3, <2>1
  <2>3. Created[k] \notin made
    BY <1>2, <2>2 DEF RingInv, Unlinked
  <2>4. Created[k] # t
    BY <1>1, <1>3, <2>2, TaskAssumption DEF Newborn
  <2> QED
    BY <1>2, <2>3, <2>4
<1>8. IsFiniteSet(made') /\ Cardinality(made') = Cardinality(made) + 1
  BY <1>2, <1>4, FS_AddElement DEF RingInv
<1>9. RingWhole'
  <2>1. PICK n : n = Cardinality(made)
    OBVIOUS
  <2>2. PICK w : Around(w, n, made, next)
    BY <2>1, WholeIsAround DEF RingInv
  <2>3. n \in Nat \ {0}
    BY <1>4, <2>1, FS_CardinalityType, FS_EmptySet DEF RingInv
  <2>4. next'[boot] = t /\ next'[t] = next[t] /\ \A u \in made : u # boot => next'[u] = next[u]
    BY <1>2, <1>4, <1>5
  <2>5. PICK v : Around(v, n + 1, made \cup {t}, next')
    BY <1>4, <1>5, <2>2, <2>3, <2>4, InsertBehindBoot
  <2>6. Around(v, Cardinality(made'), made', next')
    BY <1>2, <1>8, <2>1, <2>5
  <2> QED
    BY <2>6, Zenon DEF RingWhole, Around
<1> QED
  BY <1>6, <1>7, <1>8, <1>9 DEF RingInv

\* No other step writes a next pointer.
LEMMA RingStep == Inv /\ RingInv /\ [Next]_vars => RingInv'
<1> SUFFICES ASSUME Inv, RingInv, [Next]_vars PROVE RingInv'
  OBVIOUS
<1>1. CASE PushLink
  BY <1>1, LinkKeepsRing
<1>2. CASE PushHead
  BY <1>2, HeadKeepsRing
<1>3. CASE EnableSched \/ Timer \/ Yield \/ Exit \/ UNCHANGED vars
  <2>1. UNCHANGED <<made, next, born>> /\ (boot_pc' = boot_pc \/ boot_pc' = "desktop")
    <3>1. CASE EnableSched
      BY <3>1 DEF EnableSched, ring
    <3>2. CASE Timer
      BY <3>2 DEF Timer, Tick, TickSchedule, PitIrq, ring
    <3>3. CASE Yield \/ Exit
      BY <3>3 DEF Yield, Exit, ring
    <3>4. CASE UNCHANGED vars
      BY <3>4 DEF vars, ring
    <3> QED
      BY <1>3, <3>1, <3>2, <3>3, <3>4
  <2>2. Unlinked' /\ Pointed' /\ IsFiniteSet(made)'
    BY <2>1 DEF RingInv, Unlinked, Pointed, Newborn
  <2>3. RingWhole'
    BY <2>1, Zenon DEF RingInv, RingWhole
  <2> QED
    BY <2>2, <2>3 DEF RingInv
<1> QED
  BY <1>1, <1>2, <1>3 DEF Next, Boot

\* The ring is never broken, not even by an interrupt between the two stores of
\* rq_push: its next pointers lead around through all of its tasks and back.
THEOREM TaskRingWhole == Spec => []RingWhole
<1>1. RingInv => RingWhole
  BY DEF RingInv
<1> QED
  BY <1>1, TaskInvariant, RingInit, RingStep, PTL DEF Spec

-----------------------------------------------------------------------------
(* Interrupts.                                                              *)

Steps == {"enter", "eoi", "panic", "record", "draw"}
Frame == [v : 0 .. 47, if : BOOLEAN, step : Steps]

\* A handler of an interrupt, and one of an exception.
IsIrq(f) ==
  /\ f.v > 31 /\ f.v - 32 \in Lines /\ f.v - 32 \in handlers /\ f.if = TRUE
  /\ f.step \in {"enter", "eoi", "record", "draw"} /\ bootstep = "run"
IsFault(f) == f.v < 32 /\ f.step \in {"enter", "panic", "record", "draw"}

\* What the controllers hold for the line of a handler.
Held(f) == {f.v - 32} \cup (IF f.v - 32 > 7 THEN {2} ELSE {})

IrqTypes ==
  /\ stack \in Seq(Frame) /\ masked \subseteq 0 .. 15 /\ irr \subseteq Lines
  /\ iflag \in BOOLEAN /\ nesting \in BOOLEAN /\ halted \in BOOLEAN /\ triggered \in BOOLEAN
  /\ bootstep \in {"idt", "drivers", "unmask", "sti", "run"}

\* No interrupt before the drivers have registered, and only for their lines.
Booted ==
  /\ iflag => bootstep = "run"
  /\ bootstep \in {"idt", "drivers", "unmask"} => masked = 0 .. 15
  /\ \A l \in 0 .. 15 \ masked : l \in {0, 1, 2, 12}
  /\ bootstep \in {"unmask", "sti", "run"} => handlers = {0, 1, 12}

\* The stack holds one interrupt at most, for whose time interrupts are off
\* and whose line is the one in service, among any number of exceptions.
Shape ==
  /\ \A i \in 1 .. Len(stack) : IsIrq(stack[i]) \/ IsFault(stack[i])
  /\ \A i \in 1 .. Len(stack) : stack[i].v > 31 => ~iflag /\ inserv = Held(stack[i])
  /\ \A i, j \in 1 .. Len(stack) : stack[i].v > 31 /\ stack[j].v > 31 => i = j
  /\ (\A i \in 1 .. Len(stack) : ~(stack[i].v > 31)) => inserv = {}

\* The first exception is the outermost; a panic has one to name.
FirstIs ==
  /\ \A i \in 1 .. Len(stack) : stack[i].v < 32 =>
       first # -1 /\ (stack[i].v = first \/ \E j \in 1 .. i - 1 : stack[j].v < 32)
  /\ first # -1 => \E i \in 1 .. Len(stack) : stack[i].v < 32
  /\ nesting => \E i \in 1 .. Len(stack) : stack[i].v < 32 /\ stack[i].step \in {"record", "draw"}

\* One screen is drawn, from the record of the handler that draws it.
Panicked ==
  /\ \A i \in 1 .. Len(stack) : stack[i].step = "draw" => triggered
  /\ \A i \in 1 .. Len(stack) : stack[i].step \in {"record", "draw"} => nesting
  /\ \A i, j \in 1 .. Len(stack) : stack[i].step = "draw" /\ stack[j].step = "draw" => i = j
  /\ stack # <<>> /\ Top.step = "eoi" => ~nesting
  /\ stack # <<>> /\ Top.step = "draw" => panic = Top.v
  /\ shown # -1 => halted /\ stack # <<>> /\ Top.step = "draw" /\ shown = panic

IrqInv == IrqTypes /\ Booted /\ Shape /\ FirstIs /\ Panicked

LEMMA FrameFields ==
  ASSUME NEW f \in Frame
  PROVE  f.v \in 0 .. 47 /\ f.if \in BOOLEAN /\ f.step \in Steps
  BY DEF Frame

LEMMA Vectors == \A x \in 0 .. 47 : x # -1 /\ (x > 31 => ~(x < 32))
  OBVIOUS

\* The end of an interrupt clears all that its line had in service.
LEMMA EoiClears ==
  ASSUME NEW l \in Lines, inserv = {l} \cup (IF l > 7 THEN {2} ELSE {})
  PROVE  pic_eoi(l) = {}
<1>1. l \in 0 .. 15 /\ l # 2
  BY IrqAssumption
<1>2. Served({}) = {}
  BY Zenon DEF Served
<1>3. \A x : Served({x}) = {x}
  <2> SUFFICES ASSUME NEW x PROVE Served({x}) = {x}
    OBVIOUS
  <2>1. (CHOOSE m \in {x} : \A k \in {x} : k = m \/ Better(m, k)) = x
    OBVIOUS
  <2> QED
    BY <2>1, Zenon DEF Served
<1>4. CASE l > 7
  <2>1. {k \in inserv : k > 7} = {l} /\ inserv \ {l} = {2} /\ {2} \cap 0 .. 7 = {2} /\ {2} \ {2} = {}
    BY <1>1, <1>4
  <2>2. Served({k \in inserv : k > 7}) = {l} /\ Served({2} \cap 0 .. 7) = {2}
    BY <1>3, <2>1, Zenon
  <2>3. pic_eoi(l) = (inserv \ Served({k \in inserv : k > 7})) \ Served((inserv \ Served({k \in inserv : k > 7})) \cap 0 .. 7)
    BY <1>4, Zenon DEF pic_eoi
  <2> QED
    BY <2>1, <2>2, <2>3, Zenon
<1>5. CASE ~(l > 7)
  <2>1. inserv = {l}
    BY <1>5, Zenon
  <2>a. l \in 0 .. 7
    BY <1>1, <1>5
  <2>2. {l} \ {} = {l} /\ {l} \cap 0 .. 7 = {l} /\ {l} \ {l} = {}
    BY <2>a, Zenon
  <2>3. pic_eoi(l) = (inserv \ {}) \ Served((inserv \ {}) \cap 0 .. 7)
    BY <1>5, Zenon DEF pic_eoi
  <2> QED
    BY <1>3, <2>1, <2>2, <2>3, Zenon
<1> QED
  BY <1>4, <1>5

LEMMA IrqStarts == IrqInit => IrqInv
<1> SUFFICES ASSUME IrqInit PROVE IrqInv
  OBVIOUS
<1>1. stack \in Seq(Frame) /\ Len(stack) = 0 /\ stack = <<>>
  BY EmptySeq DEF IrqInit
<1>2. IrqTypes /\ Booted
  BY <1>1 DEF IrqInit, IrqTypes, Booted
<1>3. Shape /\ FirstIs
  BY <1>1 DEF IrqInit, Shape, FirstIs
<1>4. Panicked
  BY <1>1 DEF IrqInit, Panicked
<1> QED
  BY <1>2, <1>3, <1>4 DEF IrqInv

\* What a handler begins as, and what the three changes of the stack do to it.
LEMMA GateFrame ==
  ASSUME NEW v \in 0 .. 47, iflag \in BOOLEAN
  PROVE  Gate(v) \in Frame /\ Gate(v).v = v /\ Gate(v).if = iflag /\ Gate(v).step = "enter"
  BY DEF Gate, Frame, Steps

LEMMA PushFrame ==
  ASSUME stack \in Seq(Frame), NEW f \in Frame
  PROVE  /\ Append(stack, f) \in Seq(Frame) /\ Len(Append(stack, f)) = Len(stack) + 1
         /\ \A i \in 1 .. Len(stack) : Append(stack, f)[i] = stack[i]
         /\ Append(stack, f)[Len(stack) + 1] = f
  BY AppendProperties

LEMMA StepFrame ==
  ASSUME stack \in Seq(Frame), stack # <<>>, NEW p \in Steps
  PROVE  /\ Top \in Frame /\ Len(stack) \in Nat \ {0}
         /\ Step(p) \in Seq(Frame) /\ Len(Step(p)) = Len(stack)
         /\ \A i \in 1 .. Len(stack) : i # Len(stack) => Step(p)[i] = stack[i]
         /\ Step(p)[Len(stack)].v = Top.v /\ Step(p)[Len(stack)].if = Top.if /\ Step(p)[Len(stack)].step = p
<1> DEFINE f == [Top EXCEPT !.step = p]
<1>1. Len(stack) \in Nat \ {0} /\ Top \in Frame
  BY EmptySeq, ElementOfSeq DEF Top
<1>2. f \in Frame /\ f.v = Top.v /\ f.if = Top.if /\ f.step = p
  BY <1>1 DEF Frame
<1>3. Step(p) = [stack EXCEPT ![Len(stack)] = f]
  BY DEF Step, Top
<1> HIDE DEF f
<1>4. /\ Step(p) \in Seq(Frame) /\ Len(Step(p)) = Len(stack)
      /\ \A j \in 1 .. Len(stack) : Step(p)[j] = IF j = Len(stack) THEN f ELSE stack[j]
  BY <1>1, <1>2, <1>3, ExceptSeq
<1> QED
  BY <1>1, <1>2, <1>4

LEMMA PopFrame ==
  ASSUME stack \in Seq(Frame), stack # <<>>
  PROVE  /\ Front(stack) \in Seq(Frame) /\ Len(Front(stack)) = Len(stack) - 1
         /\ \A i \in 1 .. Len(stack) - 1 : Front(stack)[i] = stack[i]
<1>1. Len(stack) \in Nat \ {0} /\ \A i \in 1 .. Len(stack) - 1 : stack[i] \in Frame
  BY EmptySeq, ElementOfSeq
<1>2. Front(stack) = SubSeq(stack, 1, Len(stack) - 1)
  BY DEF Front
<1>3. /\ SubSeq(stack, 1, Len(stack) - 1) \in Seq(Frame)
      /\ Len(SubSeq(stack, 1, Len(stack) - 1)) = IF 1 <= Len(stack) - 1 THEN (Len(stack) - 1) - 1 + 1 ELSE 0
      /\ \A i \in 1 .. (Len(stack) - 1) - 1 + 1 : SubSeq(stack, 1, Len(stack) - 1)[i] = stack[1 + i - 1]
  BY <1>1, SubSeqProperties
<1> DEFINE r == SubSeq(stack, 1, Len(stack) - 1)
           n == Len(stack)
<1>a. /\ r \in Seq(Frame) /\ Len(r) = IF 1 <= n - 1 THEN (n - 1) - 1 + 1 ELSE 0
      /\ \A i \in 1 .. (n - 1) - 1 + 1 : r[i] = stack[1 + i - 1]
  BY <1>3
<1>b. n \in Nat \ {0}
  BY <1>1
<1> HIDE DEF r, n
<1>4. Len(r) = n - 1 /\ \A i \in 1 .. n - 1 : r[i] = stack[i]
  BY <1>a, <1>b
<1> QED
  BY <1>2, <1>a, <1>4 DEF r, n

\* The boot sequence runs with no handler begun.
LEMMA BootSteps ==
  ASSUME IrqInv, isr_install \/ RegisterHandlers \/ Unmask \/ Sti
  PROVE  IrqInv'
<1>1. ~halted /\ stack = <<>> /\ UNCHANGED <<irr, inserv, stack, nesting, screen, first, halted, raised, faults>>
  BY DEF isr_install, RegisterHandlers, Unmask, Sti, BootStep, Running
<1>2. Len(stack) = 0 /\ Len(stack') = 0
  BY <1>1, EmptySeq
<1>3. Shape' /\ FirstIs'
  BY <1>1, <1>2 DEF IrqInv, Shape, FirstIs
<1>4. Panicked'
  BY <1>1, <1>2 DEF IrqInv, Panicked, screen
<1>5. IrqTypes'
  BY <1>1 DEF IrqInv, IrqTypes, isr_install, RegisterHandlers, Unmask, Sti, BootStep, screen
<1>6. Booted'
  BY DEF IrqInv, IrqTypes, Booted, isr_install, RegisterHandlers, Unmask, Sti, BootStep
<1> QED
  BY <1>3, <1>4, <1>5, <1>6 DEF IrqInv

LEMMA RaiseStep == ASSUME IrqInv, NEW l \in Lines, Raise(l) PROVE IrqInv'
<1>1. /\ irr' \subseteq Lines
      /\ UNCHANGED <<bootstep, masked, inserv, iflag, stack, handlers, nesting, panic, triggered, shown, first, halted>>
  BY DEF Raise, IrqInv, IrqTypes, screen
<1>2. IrqTypes' /\ Booted' /\ FirstIs'
  BY <1>1 DEF IrqInv, IrqTypes, Booted, FirstIs
<1>3. Shape'
  BY <1>1 DEF IrqInv, Shape, IsIrq, IsFault, Held
<1>4. Panicked'
  BY <1>1 DEF IrqInv, Panicked, Top
<1> QED
  BY <1>2, <1>3, <1>4 DEF IrqInv

\* A handler begins: the frame is put on top of the stack.
LEMMA Entered ==
  ASSUME IrqInv, NEW v \in 0 .. 47, stack' = Append(stack, Gate(v))
  PROVE  /\ stack' \in Seq(Frame) /\ Len(stack) \in Nat /\ Len(stack') = Len(stack) + 1
         /\ \A i \in 1 .. Len(stack) : stack'[i] = stack[i] /\ stack[i] \in Frame
         /\ stack'[Len(stack) + 1].v = v /\ stack'[Len(stack) + 1].if = iflag
         /\ stack'[Len(stack) + 1].step = "enter" /\ stack' # <<>> /\ Top' = stack'[Len(stack) + 1]
<1>1. stack \in Seq(Frame) /\ iflag \in BOOLEAN
  BY DEF IrqInv, IrqTypes
<1>2. PICK g \in Frame : g = Gate(v) /\ g.v = v /\ g.if = iflag /\ g.step = "enter"
  BY <1>1, GateFrame
<1>3. /\ stack' \in Seq(Frame) /\ Len(stack) \in Nat /\ Len(stack') = Len(stack) + 1
      /\ (\A i \in 1 .. Len(stack) : stack'[i] = stack[i]) /\ stack'[Len(stack) + 1] = g
  BY <1>1, <1>2, PushFrame, LenProperties
<1>4. \A i \in 1 .. Len(stack) : stack[i] \in Frame
  BY <1>1, ElementOfSeq
<1>5. stack' # <<>>
  BY <1>3, EmptySeq
<1> QED
  BY <1>2, <1>3, <1>4, <1>5 DEF Top

\* What of the panic a handler that begins leaves as it was.
LEMMA EnteredPanic ==
  ASSUME IrqInv, NEW v \in 0 .. 47, stack' = Append(stack, Gate(v)), ~halted,
         UNCHANGED <<nesting, panic, triggered, shown, halted>>
  PROVE  Panicked'
<1>1. PICK n \in Nat : n = Len(stack)
  BY Entered
<1>2. /\ Len(stack') = n + 1 /\ (\A i \in 1 .. n : stack'[i] = stack[i])
      /\ stack'[n + 1].step = "enter" /\ Top' = stack'[n + 1]
  BY <1>1, Entered
<1>3. shown' = -1
  BY DEF IrqInv, Panicked
<1>4. \A i \in 1 .. n + 1 : i \in 1 .. n \/ i = n + 1
  OBVIOUS
<1> QED
  BY <1>1, <1>2, <1>3, <1>4 DEF IrqInv, Panicked

\* An interrupt comes only when none is being served.
LEMMA DeliverStep == ASSUME IrqInv, NEW l \in Lines, Deliver(l) PROVE IrqInv'
<1>1. /\ ~halted /\ iflag /\ l \notin masked /\ iflag' = FALSE /\ stack' = Append(stack, Gate(32 + l))
      /\ irr' = irr \ {l} /\ inserv' = inserv \cup {l} \cup (IF l > 7 THEN {2} ELSE {})
      /\ UNCHANGED <<bootstep, masked, handlers, nesting, panic, triggered, shown, first, halted, raised>>
  BY DEF Deliver, Open, screen
<1>2. l \in 0 .. 15 /\ l # 2 /\ 32 + l \in 0 .. 47
  BY IrqAssumption
<1>3. l \in handlers /\ bootstep' = "run"
  BY <1>1, <1>2 DEF IrqInv, Booted
<1>4. PICK n \in Nat : n = Len(stack)
  BY <1>1, <1>2, Entered
<1>5. PICK g : g = stack'[n + 1]
  OBVIOUS
<1>6. /\ stack' \in Seq(Frame) /\ Len(stack') = n + 1 /\ (\A i \in 1 .. n : stack'[i] = stack[i] /\ stack[i] \in Frame)
      /\ g.v = 32 + l /\ g.if = iflag /\ g.step = "enter"
  BY <1>1, <1>2, <1>4, <1>5, Entered
<1>7. \A i \in 1 .. n + 1 : i \in 1 .. n \/ i = n + 1
  OBVIOUS
<1>8. (\A i \in 1 .. n : ~(stack[i].v > 31)) /\ inserv = {}
  BY <1>1, <1>4 DEF IrqInv, Shape
<1>9. g.if = TRUE
  BY <1>1, <1>6 DEF IrqInv, IrqTypes
<1>10. IsIrq(g)' /\ inserv' = Held(g) /\ g.v > 31
  <2>1. g.v - 32 = l /\ g.v > 31
    BY <1>2, <1>6
  <2> QED
    BY <1>1, <1>3, <1>6, <1>8, <1>9, <2>1 DEF IsIrq, Held
<1>11. Shape'
  <2>1. \A i \in 1 .. n : (IsIrq(stack[i]) \/ IsFault(stack[i]))'
    BY <1>1, <1>4, <1>6 DEF IrqInv, Shape, IsIrq, IsFault
  <2>2. \A i \in 1 .. n + 1 : (IsIrq(stack[i]) \/ IsFault(stack[i]))'
    BY <1>5, <1>7, <1>10, <2>1 DEF IsIrq, IsFault
  <2>3. \A i \in 1 .. n + 1 : stack'[i].v > 31 => i = n + 1 /\ ~iflag' /\ inserv' = Held(stack'[i])
    BY <1>1, <1>5, <1>6, <1>7, <1>8, <1>10
  <2>4. ~ \A i \in 1 .. n + 1 : ~(stack'[i].v > 31)
    BY <1>4, <1>5, <1>10
  <2> QED
    BY <1>6, <2>2, <2>3, <2>4 DEF Shape, IsIrq, IsFault, Held
<1>12. FirstIs'
  <2>1. ~(stack'[n + 1].v < 32)
    BY <1>2, <1>5, <1>6
  <2> QED
    BY <1>1, <1>4, <1>6, <1>7, <2>1 DEF IrqInv, FirstIs
<1>13. Panicked'
  BY <1>1, <1>2, EnteredPanic
<1>14. IrqTypes' /\ Booted'
  BY <1>1, <1>6 DEF IrqInv, IrqTypes, Booted
<1> QED
  BY <1>11, <1>12, <1>13, <1>14 DEF IrqInv

\* An exception, the first or a further one; it leaves the interrupts off if
\* they were.
LEMMA FaultStep == ASSUME IrqInv, NEW v \in Faults, Fault(v) PROVE IrqInv'
<1>1. /\ ~halted /\ first' = (IF first = -1 THEN v ELSE first) /\ stack' = Append(stack, Gate(v))
      /\ iflag' = (iflag /\ v \in Traps)
      /\ UNCHANGED <<bootstep, masked, irr, inserv, handlers, nesting, panic, triggered, shown, halted, raised>>
  BY DEF Fault, screen
<1>2. v \in 0 .. 47 /\ v < 32 /\ v # -1
  BY IrqAssumption
<1>a. iflag' \in BOOLEAN /\ (~iflag => ~iflag') /\ (iflag' => iflag)
  BY <1>1, Zenon
<1>4. PICK n \in Nat : n = Len(stack)
  BY <1>1, <1>2, Entered
<1>5. PICK g : g = stack'[n + 1]
  OBVIOUS
<1>6. /\ stack' \in Seq(Frame) /\ Len(stack') = n + 1 /\ (\A i \in 1 .. n : stack'[i] = stack[i] /\ stack[i] \in Frame)
      /\ g.v = v /\ g.step = "enter"
  BY <1>1, <1>2, <1>4, <1>5, Entered
<1>7. \A i \in 1 .. n + 1 : i \in 1 .. n \/ i = n + 1
  OBVIOUS
<1>8. IsFault(g)' /\ ~(g.v > 31) /\ g.v < 32
  BY <1>2, <1>6 DEF IsFault
<1>11. Shape'
  <2>1. \A i \in 1 .. n + 1 : (IsIrq(stack[i]) \/ IsFault(stack[i]))'
    <3>1. \A i \in 1 .. n : (IsIrq(stack[i]) \/ IsFault(stack[i]))'
      BY <1>1, <1>4, <1>6 DEF IrqInv, Shape, IsIrq, IsFault
    <3> QED
      BY <1>5, <1>7, <1>8, <3>1 DEF IsFault
  <2>2. \A i \in 1 .. n + 1 : stack'[i].v > 31 => i \in 1 .. n /\ ~iflag' /\ inserv' = Held(stack'[i])
    <3>1. \A i \in 1 .. n : stack[i].v > 31 => ~iflag /\ inserv = Held(stack[i])
      BY <1>4 DEF IrqInv, Shape
    <3> QED
      BY <1>1, <1>a, <1>5, <1>6, <1>7, <1>8, <3>1
  <2>3. \A i, j \in 1 .. n : stack[i].v > 31 /\ stack[j].v > 31 => i = j
    BY <1>4 DEF IrqInv, Shape
  <2>4. (\A i \in 1 .. n + 1 : ~(stack'[i].v > 31)) => inserv' = {}
    BY <1>1, <1>4, <1>6 DEF IrqInv, Shape
  <2> QED
    BY <1>6, <2>1, <2>2, <2>3, <2>4 DEF Shape, IsIrq, IsFault, Held
<1>12. FirstIs'
  <2>1. \A i \in 1 .. n : stack[i].v < 32 => first # -1 /\ (stack[i].v = first \/ \E j \in 1 .. i - 1 : stack[j].v < 32)
    BY <1>4 DEF IrqInv, FirstIs
  <2>2. \A i \in 1 .. n : stack'[i].v < 32 =>
          first' # -1 /\ (stack'[i].v = first' \/ \E j \in 1 .. i - 1 : stack'[j].v < 32)
    BY <1>1, <1>6, <2>1
  <2>3. first' # -1 /\ (g.v = first' \/ \E j \in 1 .. n : stack'[j].v < 32)
    <3>1. CASE first = -1
      BY <1>1, <1>2, <1>6, <3>1
    <3>2. CASE first # -1
      <4>1. \E j \in 1 .. n : stack[j].v < 32
        BY <1>4, <3>2 DEF IrqInv, FirstIs
      <4> QED
        BY <1>1, <1>6, <3>2, <4>1
    <3> QED
      BY <3>1, <3>2
  <2>4. nesting' => \E i \in 1 .. n : stack'[i].v < 32 /\ stack'[i].step \in {"record", "draw"}
    BY <1>1, <1>4, <1>6 DEF IrqInv, FirstIs
  <2> QED
    BY <1>5, <1>6, <1>7, <1>8, <2>2, <2>3, <2>4 DEF FirstIs
<1>13. Panicked'
  BY <1>1, <1>2, EnteredPanic
<1>14. IrqTypes' /\ Booted'
  BY <1>1, <1>a, <1>6 DEF IrqInv, IrqTypes, Booted
<1> QED
  BY <1>11, <1>12, <1>13, <1>14 DEF IrqInv

\* The innermost handler goes on to step p.
LEMMA Stepped ==
  ASSUME IrqInv, stack # <<>>, NEW p \in Steps, stack' = Step(p)
  PROVE  /\ stack' \in Seq(Frame) /\ Len(stack) \in Nat \ {0} /\ Len(stack') = Len(stack)
         /\ \A i \in 1 .. Len(stack) : /\ stack'[i].v = stack[i].v /\ stack'[i].if = stack[i].if
                                       /\ stack'[i].step = IF i = Len(stack) THEN p ELSE stack[i].step
         /\ Top = stack[Len(stack)] /\ Top' = stack'[Len(stack)] /\ Top.v \in 0 .. 47 /\ stack' # <<>>
<1>1. stack \in Seq(Frame)
  BY DEF IrqInv, IrqTypes
<1>2. /\ Top \in Frame /\ Len(stack) \in Nat \ {0}
      /\ stack' \in Seq(Frame) /\ Len(stack') = Len(stack)
      /\ \A i \in 1 .. Len(stack) : i # Len(stack) => stack'[i] = stack[i]
      /\ stack'[Len(stack)].v = Top.v /\ stack'[Len(stack)].if = Top.if /\ stack'[Len(stack)].step = p
  BY <1>1, StepFrame
<1>3. Top = stack[Len(stack)] /\ Top' = stack'[Len(stack)]
  BY <1>2 DEF Top
<1>4. Top.v \in 0 .. 47
  BY <1>2, FrameFields
<1>5. stack' # <<>>
  BY <1>2, EmptySeq
<1> QED
  BY <1>2, <1>3, <1>4, <1>5

\* Such a step keeps the shape of the stack, and which exception was first.
LEMMA StepShape ==
  ASSUME IrqInv, stack # <<>>, NEW p \in Steps, stack' = Step(p),
         UNCHANGED <<bootstep, inserv, handlers, first>>, ~iflag => ~iflag',
         IF Top.v < 32 THEN p \in {"panic", "record", "draw"} ELSE p \in {"eoi", "record", "draw"},
         Top.step \in {"record", "draw"} => p \in {"record", "draw"},
         nesting' => nesting \/ (Top.v < 32 /\ p = "record")
  PROVE  Shape' /\ FirstIs'
<1>1. PICK n \in Nat \ {0} : n = Len(stack)
  BY Stepped
<1>2. /\ Len(stack') = n
      /\ \A i \in 1 .. n : /\ stack'[i].v = stack[i].v /\ stack'[i].if = stack[i].if
                            /\ stack'[i].step = IF i = n THEN p ELSE stack[i].step
      /\ Top = stack[n] /\ Top.v \in 0 .. 47
  BY <1>1, Stepped
<1>3. Shape'
  <2>1. \A i \in 1 .. n : (IsIrq(stack[i]) \/ IsFault(stack[i]))'
    <3> SUFFICES ASSUME NEW i \in 1 .. n PROVE (IsIrq(stack[i]) \/ IsFault(stack[i]))'
      OBVIOUS
    <3>1. IsIrq(stack[i]) \/ IsFault(stack[i])
      BY <1>1 DEF IrqInv, Shape
    <3>2. CASE i # n
      BY <1>2, <3>1, <3>2 DEF IsIrq, IsFault
    <3>3. CASE i = n
      BY <1>2, <3>1, <3>3 DEF IsIrq, IsFault
    <3> QED
      BY <3>2, <3>3
  <2>2. \A i \in 1 .. n : Held(stack[i])' = Held(stack[i])
    BY <1>2 DEF Held
  <2>3. \A i \in 1 .. n : stack[i].v > 31 => ~iflag /\ inserv = Held(stack[i])
    BY <1>1 DEF IrqInv, Shape
  <2>4. /\ \A i, j \in 1 .. n : stack[i].v > 31 /\ stack[j].v > 31 => i = j
        /\ (\A i \in 1 .. n : ~(stack[i].v > 31)) => inserv = {}
    BY <1>1 DEF IrqInv, Shape
  <2>5. \A i \in 1 .. n : stack'[i].v > 31 => ~iflag' /\ inserv' = Held(stack[i])'
    BY <1>2, <2>2, <2>3
  <2>6. /\ \A i, j \in 1 .. n : stack'[i].v > 31 /\ stack'[j].v > 31 => i = j
        /\ (\A i \in 1 .. n : ~(stack'[i].v > 31)) => inserv' = {}
    BY <1>2, <2>4
  <2> QED
    BY <1>2, <2>1, <2>5, <2>6, Zenon DEF Shape
<1>4. FirstIs'
  <2>1. \A i \in 1 .. n : stack'[i].v < 32 =>
          first' # -1 /\ (stack'[i].v = first' \/ \E j \in 1 .. i - 1 : stack'[j].v < 32)
    <3>1. \A i \in 1 .. n : stack[i].v < 32 => first # -1 /\ (stack[i].v = first \/ \E j \in 1 .. i - 1 : stack[j].v < 32)
      BY <1>1 DEF IrqInv, FirstIs
    <3> QED
      BY <1>2, <3>1
  <2>2. first' # -1 => \E i \in 1 .. n : stack'[i].v < 32
    BY <1>1, <1>2 DEF IrqInv, FirstIs
  <2>3. nesting' => \E i \in 1 .. n : stack'[i].v < 32 /\ stack'[i].step \in {"record", "draw"}
    <3>1. CASE nesting
      <4>1. PICK i \in 1 .. n : stack[i].v < 32 /\ stack[i].step \in {"record", "draw"}
        BY <1>1, <3>1 DEF IrqInv, FirstIs
      <4> QED
        BY <1>2, <4>1
    <3>2. CASE Top.v < 32 /\ p = "record"
      BY <1>2, <3>2
    <3> QED
      BY <3>1, <3>2
  <2> QED
    BY <1>2, <2>1, <2>2, <2>3 DEF FirstIs
<1> QED
  BY <1>3, <1>4

\* A second panic begins.
LEMMA NestedStep == ASSUME IrqInv, NestedPanic PROVE IrqInv'
<1>1. /\ ~halted /\ stack # <<>> /\ Top.step = "enter" /\ nesting /\ stack' = Step("record")
      /\ UNCHANGED <<bootstep, masked, irr, inserv, iflag, handlers, nesting, panic, triggered, shown, first, halted, raised>>
  BY DEF NestedPanic, screen
<1>2. "record" \in Steps
  BY DEF Steps
<1>3. PICK n \in Nat \ {0} : n = Len(stack)
  BY <1>1, <1>2, Stepped
<1>4. /\ stack' \in Seq(Frame) /\ Len(stack') = n /\ Top' = stack'[n]
      /\ \A i \in 1 .. n : stack'[i].step = IF i = n THEN "record" ELSE stack[i].step
  BY <1>1, <1>2, <1>3, Stepped
<1>5. Shape' /\ FirstIs'
  BY <1>1, <1>2, StepShape
<1>6. Panicked'
  <2>1. shown' = -1
    BY <1>1 DEF IrqInv, Panicked
  <2> QED
    BY <1>1, <1>3, <1>4, <2>1 DEF IrqInv, Panicked
<1>7. IrqTypes' /\ Booted'
  BY <1>1, <1>4 DEF IrqInv, IrqTypes, Booted
<1> QED
  BY <1>5, <1>6, <1>7 DEF IrqInv

\* The handler of an interrupt goes on to its acknowledgement, the one of an
\* exception to the panic.
LEMMA CallStep == ASSUME IrqInv, CallHandler PROVE IrqInv'
<1>1. PICK p : p = IF Top.v < 32 THEN "panic" ELSE "eoi"
  OBVIOUS
<1>2. /\ ~halted /\ stack # <<>> /\ Top.step = "enter" /\ ~nesting /\ stack' = Step(p)
      /\ UNCHANGED <<bootstep, masked, irr, inserv, iflag, handlers, nesting, panic, triggered, shown, first, halted, raised>>
  BY <1>1 DEF CallHandler, screen
<1>3. p \in Steps /\ p \notin {"record", "draw"}
  BY <1>1 DEF Steps
<1>4. PICK n \in Nat \ {0} : n = Len(stack)
  BY <1>2, <1>3, Stepped
<1>5. /\ stack' \in Seq(Frame) /\ Len(stack') = n /\ Top' = stack'[n]
      /\ \A i \in 1 .. n : stack'[i].step = IF i = n THEN p ELSE stack[i].step
  BY <1>2, <1>3, <1>4, Stepped
<1>6. Shape' /\ FirstIs'
  BY <1>1, <1>2, <1>3, StepShape
<1>7. Panicked'
  <2>1. shown' = -1
    BY <1>2 DEF IrqInv, Panicked
  <2> QED
    BY <1>2, <1>3, <1>4, <1>5, <2>1 DEF IrqInv, Panicked
<1>8. IrqTypes' /\ Booted'
  BY <1>2, <1>5 DEF IrqInv, IrqTypes, Booted
<1> QED
  BY <1>6, <1>7, <1>8 DEF IrqInv

\* An exception sets handling_exception.
LEMMA PanicBeginStep == ASSUME IrqInv, PanicBegin PROVE IrqInv'
<1>1. /\ ~halted /\ stack # <<>> /\ Top.step = "panic" /\ nesting' = TRUE /\ stack' = Step("record")
      /\ UNCHANGED <<bootstep, masked, irr, inserv, iflag, handlers, panic, triggered, shown, first, halted, raised>>
  BY DEF PanicBegin, screen
<1>2. "record" \in Steps
  BY DEF Steps
<1>3. PICK n \in Nat \ {0} : n = Len(stack)
  BY <1>1, <1>2, Stepped
<1>4. /\ stack' \in Seq(Frame) /\ Len(stack') = n /\ Top' = stack'[n] /\ Top = stack[n]
      /\ \A i \in 1 .. n : stack'[i].step = IF i = n THEN "record" ELSE stack[i].step
  BY <1>1, <1>2, <1>3, Stepped
<1>5. Top.v < 32
  BY <1>1, <1>3, <1>4 DEF IrqInv, Shape, IsIrq, IsFault
<1>6. Shape' /\ FirstIs'
  BY <1>1, <1>2, <1>5, StepShape
<1>7. Panicked'
  <2>1. shown' = -1
    BY <1>1 DEF IrqInv, Panicked
  <2> QED
    BY <1>1, <1>3, <1>4, <2>1 DEF IrqInv, Panicked
<1>8. IrqTypes' /\ Booted'
  BY <1>1, <1>4 DEF IrqInv, IrqTypes, Booted
<1> QED
  BY <1>6, <1>7, <1>8 DEF IrqInv

\* The record is written; only the first panic draws.
LEMMA PanicRecordStep == ASSUME IrqInv, NEW c \in BOOLEAN, PanicRecord(c) PROVE IrqInv'
<1> DEFINE d == ~triggered /\ c
<1>1. /\ ~halted /\ stack # <<>> /\ Top.step = "record" /\ panic' = Top.v /\ triggered' = TRUE
      /\ stack' = (IF d THEN Step("draw") ELSE stack) /\ halted' = ~d /\ iflag' = (iflag /\ d)
      /\ UNCHANGED <<bootstep, masked, irr, inserv, handlers, nesting, shown, first, raised>>
  BY DEF PanicRecord
<1>2. d \in BOOLEAN /\ (d => ~triggered)
  BY DEF IrqInv, IrqTypes
<1>a. halted' \in BOOLEAN /\ iflag' \in BOOLEAN /\ (~iflag => ~iflag')
  BY <1>1, <1>2, Zenon
<1> HIDE DEF d
<1>3. shown' = -1
  BY <1>1 DEF IrqInv, Panicked
<1>4. CASE d
  <2>1. stack' = Step("draw") /\ "draw" \in Steps
    BY <1>1, <1>4 DEF Steps
  <2>2. PICK n \in Nat \ {0} : n = Len(stack)
    BY <1>1, <2>1, Stepped
  <2>3. /\ stack' \in Seq(Frame) /\ Len(stack') = n /\ Top' = stack'[n] /\ Top = stack[n]
        /\ \A i \in 1 .. n : /\ stack'[i].step = (IF i = n THEN "draw" ELSE stack[i].step)
                              /\ stack'[i].v = stack[i].v
    BY <1>1, <2>1, <2>2, Stepped
  <2>4. Shape' /\ FirstIs'
    BY <1>1, <1>a, <2>1, StepShape
  <2>5. Panicked'
    <3>1. \A i \in 1 .. n : stack[i].step # "draw"
      BY <1>2, <1>4, <2>2 DEF IrqInv, Panicked
    <3>2. nesting
      BY <1>1, <2>2, <2>3 DEF IrqInv, Panicked
    <3>3. Top'.step = "draw" /\ Top'.v = Top.v
      BY <2>2, <2>3
    <3> QED
      BY <1>1, <1>3, <2>2, <2>3, <3>1, <3>2, <3>3 DEF Panicked
  <2>6. IrqTypes' /\ Booted'
    BY <1>1, <1>a, <2>3 DEF IrqInv, IrqTypes, Booted
  <2> QED
    BY <2>4, <2>5, <2>6 DEF IrqInv
<1>5. CASE ~d
  <2>1. stack' = stack /\ halted' = TRUE
    BY <1>1, <1>2, <1>5
  <2>2. Shape'
    BY <1>1, <1>a, <2>1 DEF IrqInv, Shape, IsIrq, IsFault, Held
  <2>3. FirstIs'
    BY <1>1, <2>1 DEF IrqInv, FirstIs
  <2>4. Panicked'
    BY <1>1, <1>3, <2>1 DEF IrqInv, Panicked, Top
  <2>5. IrqTypes' /\ Booted'
    BY <1>1, <1>a, <2>1 DEF IrqInv, IrqTypes, Booted
  <2> QED
    BY <2>2, <2>3, <2>4, <2>5 DEF IrqInv
<1> QED
  BY <1>4, <1>5

LEMMA PanicEndStep == ASSUME IrqInv, PanicEnd PROVE IrqInv'
<1>1. /\ ~halted /\ stack # <<>> /\ Top.step = "draw" /\ shown' = panic /\ halted' = TRUE /\ iflag' = FALSE
      /\ UNCHANGED <<bootstep, masked, irr, inserv, stack, handlers, nesting, panic, triggered, first, raised>>
  BY DEF PanicEnd
<1>2. Shape'
  BY <1>1 DEF IrqInv, Shape, IsIrq, IsFault, Held
<1>3. IrqTypes' /\ Booted' /\ FirstIs'
  BY <1>1 DEF IrqInv, IrqTypes, Booted, FirstIs
<1>4. Panicked'
  BY <1>1 DEF IrqInv, Panicked, Top
<1> QED
  BY <1>2, <1>3, <1>4 DEF IrqInv

\* The return of an interrupt: what it had in service is acknowledged, and the
\* interrupt flag is on again, as it was when the interrupt came.
LEMMA ReturnStep == ASSUME IrqInv, IrqReturn PROVE IrqInv'
<1>1. /\ ~halted /\ stack # <<>> /\ Top.step = "eoi" /\ inserv' = pic_eoi(Top.v - 32)
      /\ iflag' = Top.if /\ stack' = Front(stack)
      /\ UNCHANGED <<bootstep, masked, irr, handlers, nesting, panic, triggered, shown, first, halted, raised>>
  BY DEF IrqReturn, screen
<1>2. stack \in Seq(Frame)
  BY DEF IrqInv, IrqTypes
<1>3. PICK n \in Nat \ {0} : n = Len(stack)
  BY <1>1, <1>2, EmptySeq, LenProperties
<1>4. stack' \in Seq(Frame) /\ Len(stack') = n - 1 /\ \A i \in 1 .. n - 1 : stack'[i] = stack[i]
  BY <1>1, <1>2, <1>3, PopFrame
<1>5. Top = stack[n] /\ IsIrq(Top) /\ inserv = Held(Top)
  BY <1>1, <1>3 DEF IrqInv, Shape, IsFault, IsIrq, Top
<1>6. inserv' = {} /\ iflag' = TRUE /\ bootstep = "run"
  <2>1. Top.v - 32 \in Lines /\ inserv = {Top.v - 32} \cup (IF Top.v - 32 > 7 THEN {2} ELSE {})
    BY <1>5 DEF IsIrq, Held
  <2> QED
    BY <1>1, <1>5, <2>1, EoiClears DEF IsIrq
<1>7. \A i \in 1 .. n - 1 : ~(stack[i].v > 31)
  BY <1>3, <1>5 DEF IrqInv, Shape, IsIrq
<1>8. \A i \in 1 .. n - 1 : i \in 1 .. n /\ i # n
  OBVIOUS
<1>9. Shape'
  <2>1. \A i \in 1 .. n - 1 : IsFault(stack[i])'
    BY <1>3, <1>4, <1>7, <1>8 DEF IrqInv, Shape, IsIrq, IsFault
  <2> QED
    BY <1>4, <1>6, <1>7, <2>1 DEF Shape
<1>10. ~nesting
  BY <1>1 DEF IrqInv, Panicked
<1>11. FirstIs'
  <2>0. Top.v \in 0 .. 47 /\ ~(Top.v < 32)
    <3>1. Top \in Frame
      BY <1>2, <1>3, <1>5, ElementOfSeq
    <3> QED
      BY <1>5, <3>1, FrameFields DEF IsIrq
  <2>1. \A i \in 1 .. n - 1 : stack[i].v < 32 => first # -1 /\ (stack[i].v = first \/ \E j \in 1 .. i - 1 : stack[j].v < 32)
    BY <1>3, <1>8 DEF IrqInv, FirstIs
  <2>2. \A i \in 1 .. n - 1 : stack'[i].v < 32 =>
          first' # -1 /\ (stack'[i].v = first' \/ \E j \in 1 .. i - 1 : stack'[j].v < 32)
    BY <1>1, <1>4, <2>1
  <2>3. first' # -1 => \E i \in 1 .. n - 1 : stack'[i].v < 32
    <3> SUFFICES ASSUME first # -1 PROVE \E i \in 1 .. n - 1 : stack'[i].v < 32
      BY <1>1
    <3>1. PICK i \in 1 .. n : stack[i].v < 32
      BY <1>3 DEF IrqInv, FirstIs
    <3>2. i \in 1 .. n - 1
      BY <1>5, <2>0, <3>1
    <3> QED
      BY <1>4, <3>1, <3>2
  <2> QED
    BY <1>1, <1>4, <1>10, <2>2, <2>3 DEF FirstIs
<1>12. Panicked'
  <2>1. \A i \in 1 .. n - 1 : stack'[i].step \notin {"record", "draw"}
    BY <1>3, <1>4, <1>8, <1>10 DEF IrqInv, Panicked
  <2>2. stack' # <<>> => n - 1 \in 1 .. n - 1 /\ Top' = stack'[n - 1]
    <3>1. stack' # <<>> => Len(stack') # 0
      BY <1>4, EmptySeq
    <3> QED
      BY <1>4, <3>1 DEF Top
  <2>3. shown' = -1
    BY <1>1 DEF IrqInv, Panicked
  <2> QED
    BY <1>1, <1>4, <1>10, <2>1, <2>2, <2>3 DEF Panicked
<1>13. IrqTypes' /\ Booted'
  BY <1>1, <1>4, <1>6 DEF IrqInv, IrqTypes, Booted
<1> QED
  BY <1>9, <1>11, <1>12, <1>13 DEF IrqInv

LEMMA IrqInvariant == IrqInv /\ [IrqNext]_irqvars => IrqInv'
<1> SUFFICES ASSUME IrqInv, [IrqNext]_irqvars PROVE IrqInv'
  OBVIOUS
<1>1. CASE IrqNext
  BY <1>1, BootSteps, RaiseStep, DeliverStep, FaultStep, NestedStep, CallStep, ReturnStep, PanicBeginStep,
     PanicRecordStep, PanicEndStep DEF IrqNext, Cpu
<1>2. CASE UNCHANGED irqvars
  <2>1. Shape'
    BY <1>2 DEF IrqInv, Shape, IsIrq, IsFault, Held, irqvars
  <2>2. IrqTypes' /\ Booted' /\ FirstIs'
    BY <1>2 DEF IrqInv, IrqTypes, Booted, FirstIs, irqvars, screen
  <2>3. Panicked'
    BY <1>2 DEF IrqInv, Panicked, Top, irqvars, screen
  <2> QED
    BY <2>1, <2>2, <2>3 DEF IrqInv
<1> QED
  BY <1>1, <1>2

LEMMA IrqInvSound == IrqInv => IrqSound
<1> SUFFICES ASSUME IrqInv PROVE IrqSound
  OBVIOUS
<1>0. stack \in Seq(Frame)
  BY DEF IrqInv, IrqTypes
<1>1. AllAcknowledged
  BY EmptySeq DEF IrqInv, Shape, AllAcknowledged
<1>2. PanicNamesFirst
  <2> SUFFICES ASSUME shown # -1, Overtaken = {} PROVE shown = first /\ panic = first
    BY DEF PanicNamesFirst
  <2>1. stack # <<>> /\ Top.step = "draw" /\ shown = panic /\ panic = Top.v
    BY DEF IrqInv, Panicked
  <2>2. PICK n \in Nat \ {0} : n = Len(stack)
    BY <1>0, <2>1, EmptySeq, LenProperties
  <2>3. Top = stack[n]
    BY <2>2 DEF Top
  <2>4. \A i \in 1 .. n - 1 : ~(stack[i].v < 32)
    <3> SUFFICES ASSUME NEW i \in 1 .. n - 1, stack[i].v < 32 PROVE FALSE
      OBVIOUS
    <3>1. stack[i].step = "draw"
      BY <2>2 DEF Overtaken
    <3> QED
      BY <2>1, <2>2, <2>3, <3>1 DEF IrqInv, Panicked
  <2>5. nesting
    BY <2>1, <2>2, <2>3 DEF IrqInv, Panicked
  <2>6. stack[n].v < 32
    <3>1. PICK i \in 1 .. n : stack[i].v < 32
      BY <2>2, <2>5 DEF IrqInv, FirstIs
    <3> QED
      BY <2>4, <3>1
  <2> QED
    BY <2>1, <2>2, <2>3, <2>4, <2>6 DEF IrqInv, FirstIs
<1>3. ServedByDriver
  <2> SUFFICES ASSUME NEW i \in 1 .. Len(stack), stack[i].v > 31 PROVE stack[i].v - 32 \in handlers
    BY DEF ServedByDriver
  <2>1. stack[i].v \in 0 .. 47
    BY <1>0, ElementOfSeq, FrameFields
  <2>2. ~IsFault(stack[i])
    BY <2>1, Vectors, Zenon DEF IsFault
  <2> QED
    BY <2>2 DEF IrqInv, Shape, IsIrq
<1> QED
  BY <1>1, <1>2, <1>3 DEF IrqSound

(***************************************************************************)
(* Interrupts are acknowledged, served by a registered driver only, and a   *)
(* panic screen names the first exception unless that was overtaken before  *)
(* its record (isr_common_handler, pic_eoi, panic_handle), for every set of *)
(* devices and exceptions, any number of interrupts and any number of       *)
(* exceptions nested in handlers and in the panic.                          *)
(***************************************************************************)
THEOREM IrqIsSound == IrqSpec => []IrqSound
<1>1. IrqInit => IrqInv
  BY IrqStarts
<1>2. IrqInv /\ [IrqNext]_irqvars => IrqInv'
  BY IrqInvariant
<1>3. IrqInv => IrqSound
  BY IrqInvSound
<1> QED
  BY <1>1, <1>2, <1>3, PTL DEF IrqSpec
=============================================================================
