-------------------------------- MODULE Task --------------------------------
(***************************************************************************)
(* kernel/task/task.c: kernel threads in a ring, a round-robin scheduler,   *)
(* preemption by the timer.  The boot thread wraps itself into the first    *)
(* task (tasking_init), creates the others and enables the scheduler        *)
(* (start_scheduler).  An interrupt can come between any two steps; the     *)
(* two stores of rq_push are steps of their own.  schedule is one step: it  *)
(* runs with interrupts off.  Every task's pgdir is NULL (pmm.c), so that   *)
(* schedule never loads a page directory.                                   *)
(*                                                                          *)
(* In this kernel nothing calls schedule_from_timer (Hooked is FALSE), and  *)
(* no created thread ever runs.  With Hooked the functions are called as    *)
(* their comments have it ("called from the PIT ISR"): for what they keep   *)
(* true of the ring and the states, taking ctx_switch to do what it is      *)
(* called for, which with the frame that prepare_kthread_stack builds it    *)
(* does not.  Where the call would stand is open: isr_common_handler        *)
(* acknowledges the interrupt behind the handler, so that a switch within   *)
(* it leaves the tick unacknowledged; a call behind the acknowledgement     *)
(* does not.  What is claimed is claimed of both.                           *)
(***************************************************************************)
EXTENDS Integers, Sequences, FiniteSets

CONSTANTS
  boot, idle,      \* g_bootstrap and the idle thread
  Workers,         \* the threads start_scheduler creates, in order
  Returning,       \* those whose entry function may return
  TIME_SLICE_TICKS,
  SCAN_LIMIT,      \* steps that schedule() looks ahead, 1024
  Hooked,          \* does the timer interrupt call schedule_from_timer
  JiffyWrap        \* bound: jiffies are counted modulo this

Created == <<idle>> \o Workers
Tasks   == {boot} \cup {Created[k] : k \in 1 .. Len(Created)}

ASSUME TaskAssumption ==
  /\ Workers \in Seq(Tasks) /\ boot # idle /\ boot \notin {Workers[k] : k \in 1 .. Len(Workers)}
  /\ \A j, k \in 1 .. Len(Created) : Created[j] = Created[k] => j = k
  /\ Returning \subseteq Tasks \ {boot, idle}
  /\ {TIME_SLICE_TICKS, SCAN_LIMIT} \subseteq Nat \ {0} /\ Hooked \in BOOLEAN /\ JiffyWrap \in Nat \ {0}

VARIABLES
  made,            \* the tasks that are in the ring
  next, state, time_slice,
  g_current, g_readyq,
  sched_enabled,
  owing,           \* tasks that were switched from before their tick was acknowledged
  jiffies,
  boot_pc, born    \* the boot thread: where it is, how many threads it has begun

ring == <<made, next>>
cpu  == <<g_current, g_readyq, owing>>
vars == <<ring, state, time_slice, cpu, sched_enabled, jiffies, boot_pc, born>>

\* After tasking_init has set up g_bootstrap, and before it creates idle.
Init ==
  /\ made = {boot} /\ next = [t \in Tasks |-> boot]
  /\ state = [t \in Tasks |-> IF t = boot THEN "RUNNING" ELSE "READY"]
  /\ time_slice = [t \in Tasks |-> IF t = boot THEN 0 ELSE TIME_SLICE_TICKS]
  /\ g_current = boot /\ g_readyq = boot /\ owing = {}
  /\ sched_enabled = FALSE /\ jiffies = 0 /\ boot_pc = "link" /\ born = 1

---------------------------------------------------------------------------
(* The boot thread: kthread_create of idle and of the workers, each with   *)
(* rq_push's two stores, and then sched_enabled.                           *)

Newborn == Created[born]

\* Mutant: the new task points at the head instead of at what follows it.
PushLinkLost ==
  /\ boot_pc = "link" /\ g_current = boot
  /\ next' = [next EXCEPT ![Newborn] = g_readyq]
  /\ boot_pc' = "head"
  /\ UNCHANGED <<made, state, time_slice, cpu, sched_enabled, jiffies, born>>

PushLink ==
  /\ boot_pc = "link" /\ g_current = boot
  /\ next' = [next EXCEPT ![Newborn] = next[g_readyq]]
  /\ boot_pc' = "head"
  /\ UNCHANGED <<made, state, time_slice, cpu, sched_enabled, jiffies, born>>

PushHead ==
  /\ boot_pc = "head" /\ g_current = boot
  /\ next' = [next EXCEPT ![g_readyq] = Newborn] /\ made' = made \cup {Newborn}
  /\ boot_pc' = IF born = Len(Created) THEN "enable" ELSE "link"
  /\ born' = IF born = Len(Created) THEN born ELSE born + 1
  /\ UNCHANGED <<state, time_slice, cpu, sched_enabled, jiffies>>

\* The scheduler is on; the boot thread goes on to the desktop's loop.
EnableSched ==
  /\ boot_pc = "enable" /\ g_current = boot
  /\ sched_enabled' = TRUE /\ boot_pc' = "desktop"
  /\ UNCHANGED <<ring, state, time_slice, cpu, jiffies, born>>

---------------------------------------------------------------------------
(* schedule().                                                             *)

\* t is the first READY task that the walk along the ring from
\* g_readyq->next comes by; w is the walk, of SCAN_LIMIT steps at most.
Scan(t) ==
  \E n \in 0 .. SCAN_LIMIT : n < Cardinality(made) /\ \E w \in [0 .. n -> made] :
    /\ w[0] = next[g_readyq] /\ w[n] = t /\ state[t] = "READY"
    /\ \A k \in 1 .. n : w[k] = next[w[k - 1]] /\ w[k] # w[0] /\ state[w[k - 1]] # "READY"

\* Mutant: a zombie that is switched from becomes READY.
SwitchZombieReady(cand, ts) ==
  /\ g_current' = cand /\ g_readyq' = cand /\ time_slice' = ts
  /\ state' = [state EXCEPT ![cand] = "RUNNING",
                            ![g_current] = "READY"]

\* Mutant: the head of the ring does not move.
SwitchHeadKept(cand, ts) ==
  /\ g_current' = cand /\ g_readyq' = g_readyq /\ time_slice' = ts
  /\ state' = [state EXCEPT ![cand] = "RUNNING",
                            ![g_current] = IF state[g_current] = "RUNNING" THEN "READY" ELSE @]

\* The switch to cand, with the time slices ts.
Switch(cand, ts) ==
  /\ g_current' = cand /\ g_readyq' = cand /\ time_slice' = ts
  /\ state' = [state EXCEPT ![cand] = "RUNNING",
                            ![g_current] = IF state[g_current] = "RUNNING" THEN "READY" ELSE @]

\* schedule() with the time slices ts: no task is READY, the current one is
\* the only one, or another gets the CPU.  A task that owes a tick when it
\* gets the CPU back goes on to acknowledge it; the task that is switched
\* from owes one if hd.
Candidates == {t \in made : Scan(t)}
Schedule(ts, hd) ==
  IF Candidates \ {g_current} # {}
    THEN \E cand \in Candidates \ {g_current} :
           /\ Switch(cand, ts)
           /\ owing' = (owing \cup (IF hd THEN {g_current} ELSE {})) \ {cand}
    ELSE /\ time_slice' = IF Candidates = {} THEN ts ELSE [ts EXCEPT ![g_current] = TIME_SLICE_TICKS]
         /\ UNCHANGED <<state, cpu>>

---------------------------------------------------------------------------
(* The timer interrupt.  pit_irq counts jiffies and does nothing else;     *)
(* with Hooked it goes on to schedule_from_timer.  There is no tick before *)
(* the last one is acknowledged.                                           *)

Jiffy   == jiffies' = (jiffies + 1) % JiffyWrap
Expired == time_slice[g_current] - 1 <= 0

PitIrq ==
  /\ (~Hooked \/ ~sched_enabled) /\ owing = {}
  /\ Jiffy /\ UNCHANGED <<ring, state, time_slice, cpu, sched_enabled, boot_pc, born>>

Tick ==
  /\ Hooked /\ sched_enabled /\ owing = {} /\ ~Expired
  /\ time_slice' = [time_slice EXCEPT ![g_current] = @ - 1]
  /\ Jiffy /\ UNCHANGED <<ring, state, cpu, sched_enabled, boot_pc, born>>

TickSchedule ==
  /\ Hooked /\ sched_enabled /\ owing = {} /\ Expired
  /\ \E unacked \in BOOLEAN : Schedule([time_slice EXCEPT ![g_current] = TIME_SLICE_TICKS], unacked)
  /\ Jiffy /\ UNCHANGED <<ring, sched_enabled, boot_pc, born>>

---------------------------------------------------------------------------
(* What threads do.                                                        *)

\* A worker calls yield(); idle and the boot thread never do.
Yield ==
  /\ g_current \notin {boot, idle} /\ state[g_current] = "RUNNING" /\ sched_enabled
  /\ Schedule(time_slice, FALSE)
  /\ UNCHANGED <<ring, sched_enabled, jiffies, boot_pc, born>>

\* The entry function returns into kthread_trampoline, which halts until a
\* timer interrupt switches away; the task stays in the ring.
Exit ==
  /\ g_current \in Returning /\ state[g_current] = "RUNNING"
  /\ state' = [state EXCEPT ![g_current] = "ZOMBIE"]
  /\ UNCHANGED <<ring, time_slice, cpu, sched_enabled, jiffies, boot_pc, born>>

Boot  == PushLink \/ PushHead \/ EnableSched
Timer == Tick \/ TickSchedule \/ PitIrq
Next  == Boot \/ Timer \/ Yield \/ Exit

\* The timer keeps interrupting and the boot thread runs when it is current;
\* nothing makes a worker yield or return.
Spec == Init /\ [][Next]_vars /\ WF_vars(Timer) /\ WF_vars(Boot)

---------------------------------------------------------------------------
\* Types: time slices are never negative between interrupts, not even the
\* boot thread's, which starts with none.
TaskTypeOK ==
  /\ made \subseteq Tasks /\ boot \in made /\ next \in [Tasks -> Tasks]
  /\ state \in [Tasks -> {"READY", "RUNNING", "ZOMBIE"}]
  /\ time_slice \in [Tasks -> 0 .. TIME_SLICE_TICKS]
  /\ {g_current, g_readyq} \subseteq made /\ owing \subseteq made
  /\ sched_enabled \in BOOLEAN /\ jiffies \in 0 .. JiffyWrap - 1
  /\ boot_pc \in {"link", "head", "enable", "desktop"} /\ born \in 1 .. Len(Created)

\* The task whose stack the CPU is on is the only one marked RUNNING (unless
\* it has just ended), and it is the head of the ring, so that the next
\* search starts behind it and rq_push inserts behind it.
CurrentIsHead ==
  /\ g_readyq = g_current /\ state[g_current] \in {"RUNNING", "ZOMBIE"}
  /\ \A t \in Tasks \ {g_current} : state[t] # "RUNNING"

\* The next pointers lead from every task in the ring around through all
\* others and back, also between the two stores of rq_push.
RingWhole ==
  \E w \in [0 .. Cardinality(made) - 1 -> made] :
    /\ w[0] = boot /\ next[w[Cardinality(made) - 1]] = boot
    /\ \A k \in 1 .. Cardinality(made) - 1 : w[k] = next[w[k - 1]] /\ w[k] # boot

\* A tick that is not acknowledged yet is owed by one task, which is not the
\* current one: it is acknowledged as soon as that task runs again.
OneOwes == g_current \notin owing /\ \A s, t \in owing : s = t

\* What every switch relies on and leaves behind, through ticks, yields,
\* threads that return and threads that are created.
TaskSafe == TaskTypeOK /\ CurrentIsHead /\ OneOwes

\* A thread that has returned stays a zombie, and is not switched to again.
ZombiesStayDead ==
  [][\A t \in Tasks : state[t] = "ZOMBIE" =>
       state'[t] = "ZOMBIE" /\ (g_current' = t => g_current = t)]_vars

\* Preemption by the timer lets every task that is READY run ("PIT ISR").
NoStarvation ==
  \A t \in Tasks : (sched_enabled /\ state[t] = "READY") ~> state[t] = "RUNNING"
=============================================================================
