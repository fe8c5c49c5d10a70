# A TLA+ verification of the VirtualMonitor virtual machine monitor

VirtualMonitor is a fork of VirtualBox 4.2: a hosted hypervisor of several
million lines.  This project verifies the parts of it whose correctness rests
on the order in which threads do things: the timer queues, the critical
sections, the request queues with the halting of the EMTs, the rendezvous of all
EMTs, the queues between devices and EMTs, and the threads of devices.
`PROJECT.json` lists the components, the runs, the mutants that show each
property can fail, the source lines behind every definition, the findings, the
hazards and the theorems.

Paths below are relative to `src/src/VBox/` unless they say otherwise.

## 1. Inventory

### How the system is put together

A VM is a process with one emulation thread (EMT) per virtual CPU, plus device,
I/O, host timer and API threads.  An EMT alternates between running the guest
and handling *force flags* that other threads raise for it.  Everything that
other threads want of an EMT goes through a force flag plus a queue:

| Component | State | Operations | Talks to |
|---|---|---|---|
| TM timer queues (`VMM/VMMAll/TMAll.cpp`, `VMM/VMMR3/TM.cpp`) | per clock an ordered active list, a lock-free schedule list and a cached expire time; per timer a state word and an expire time; the TM lock | set, set relative, stop, create, destroy; schedule; run; host timer tick | devices (callers and callbacks), PDM critical sections, force flags |
| TM clocks (`TMAllVirtual.cpp`, `TMAllCpu.cpp`) | virtual time, virtual sync offset, catch-up rate, ticking flags | get, suspend, resume, catch-up start/stop/give up | timer queues, VM suspend/resume |
| PDM critical sections (`PDMAllCritSect.cpp`, `PDMCritSect.cpp`) | lockers count, owner, nesting, event, queued leaves | init, enter, try, leave, queued leave, yield, ownership, delete | every device, TM, IOM |
| PDM queues (`PDMAllQueue.cpp`, `PDMQueue.cpp`) | a ring of free items, three lists of pending ones, two flush bits, force flag | alloc, insert, flush, refuse, free | devices, EMT loop |
| VM requests (`VMReq.cpp`) | packet free lists, per-CPU and any-CPU pending lists, packet state | alloc, free, queue, wait, process | all threads to EMTs |
| EMT halt and notify (`VMEmt.cpp`) | wait flag, event semaphore, halt method | halt, notify | requests, timers, force flags |
| EMT rendezvous (`VMM.cpp`) | counters, spin lock, event semaphores | rendezvous (one by one, in either order, all at once, once) | all EMTs |
| VM state machine (`VM.cpp`) | VMSTATE and previous state under a critical section | power on, suspend, resume, reset, save, power off, destroy | requests, rendezvous |
| PDM threads (`PDMThread.cpp`) | state word; user, block and sleep events; the list of threads | create, suspend, resume, destroy, sleep | devices, VM state |
| PDM async completion, block cache (`PDMAsyncCompletion*.cpp`, `PDMBlkCache.cpp`) | endpoint task lists, LRU lists, dirty list | read, write, flush, evict, commit | storage |
| EM (`EM.cpp`) | per EMT execution state | forced actions, execute loops | all of the above |
| Memory and CPU (PGM, GMM, CPUM, IEM, HWACCM, PATM, CSAM, SELM, TRPM) | page tables, pools, registers, patches | guest execution | EM |
| I/O, state, statistics, debugging (IOM, SSM, CFGM, STAM, DBGF, MM, FTM) | trees, tables, files | look-ups, save and load | all |
| IPRT (`Runtime/`) | state words of semaphores, requests, handles, buffers | semaphores, run once, request queues and pools, circular buffer | all |
| Main, HGCM, host services | object states, progress, message queues | API calls, guest service calls | VM state machine, devices |
| Devices, storage, networking, host drivers, additions, frontends | device registers, images | emulation | all of the above |

### What is hard, and what makes each component correct

* **Timer queues.** Any thread arms and stops timers by compare-and-swap on the
  state word and a lock-free push; the owner of the TM lock edits the active
  list; the timer EMT fires.  Correct when the lists and the state words agree
  whenever the lock is free, no timer is lost or linked twice, a timer never
  fires early or for a set that was superseded, a due timer does fire, and the
  lock is left as often as it was entered.
* **Virtual sync clock.** Reads by other CPUs race the queue run that moves the
  clock: time must never go backwards, and must stop at the next timer.
* **Critical sections.** Lock-free entry against leave, queued leaves from
  contexts that cannot signal, deletion: mutual exclusion, no lost wake-up.
* **PDM queues and VM requests.** Lock-free lists with recycling: nothing lost,
  nothing processed twice, order kept, waiters wake.
* **PDM threads.** A state word that two sides swap and three events that both
  signal and reset: what the caller is told is so, nobody waits for a signal that
  has been reset, a thread told to end does.
* **Halt and notify.** The test of the force flags and the wait on the event
  are separate steps: no lost wake-up.
* **Rendezvous.** Every EMT takes part exactly once, in order when ordered, and
  none leaves while another still uses the rendezvous state.
* **VM state machine.** Only the listed transitions, with requests racing.
* **IPRT semaphores.** Readers and writers exclude each other, directions
  alternate, waiters are not lost, counters do not overflow.

The hazards themselves, each at the line where it bites and with the properties
that cover it, are in `PROJECT.json`.

## 2. Plan

Modules, in order of importance.  No module that is proved about declares a
RECURSIVE operator; parameters are CONSTANTS with named assumptions; there is one
action per step between two points where another thread can interfere.

1. `TMTimerQueue` with `TMTimerService` (abstract), `TMTimerQueueProofs` (types and
   the lock) and `TMTimerListProofs` (lists, states, refinement) — **done**.
2. `PDMCritSect`, refining `ReentrantLock`, with `PDMCritSectProofs`, and
   `PDMCritSectList` with `PDMCritSectListProofs` — **done**.  `TMTimerQueue` takes the critical sections of
   timers to be exactly such locks.
3. `VMReq`, with the halting and waking of the EMTs, refining `RequestService`, with
   `VMReqProofs` — **done** for callers that are no EMTs; callers that are, finite
   timeouts and the lists of free packets are to be added.
4. `VMMRendezvous`, refining `Gathering`, with `VMMRendezvousProofs` — **done**.
5. `PDMQueue`, refining `PDMQueueService`, with `PDMQueueProofs` — **done**, for one
   queue.
6. `PDMThread`, with `PDMThreadProofs` — **done**.
7. `VMState`: the transitions of the VM with its requests, over rendezvous and
   PDM threads (suspend and resume of all of them).
8. `TMVirtualSync`: the virtual sync clock and queue; time is monotonic.
9. `RTSemRWLockless`, `RTSemXRoads`, `RTOnce`: state words proved safe for every
   number of threads.
10. Compositions: timer queue over critical sections; requests over rendezvous;
    timers that flush PDM queues.

Runs use two or three threads and one to three objects each: the smallest
instances in which two operations and the background worker interleave.
Theorems worth proving: the type and lock invariants of each component, the
agreement of lists and state words (`SanityCheck`), mutual exclusion of the
critical section and of the read-write semaphore, that no item of a queue is lost,
that one rendezvous never meets another, and that each detailed module implements
its abstract one.

## 3. The timer queues

### Source and model

`TMTimerQueue` models one queue of a clock other than the virtual sync one
(TMCLOCK_VIRTUAL or TMCLOCK_REAL; they run the same code).

| Variable | Code |
|---|---|
| `state`, `expire` | `TMTIMER::enmState`, `u64Expire` |
| `schedule` | `TMTIMERQUEUE::offSchedule` chained by `offScheduleNext`, newest first |
| `batch`, `one` | what `tmTimerQueueSchedule` took off that list, and the locals of `tmTimerQueueScheduleOne` |
| `active`, `queueExpire` | `TMTIMERQUEUE::offActive` chained by `offNext`/`offPrev`, and `u64Expire` |
| `tmOwner`, `tmNest` | `TM::TimerCritSect`, which is reentrant |
| `ff`, `running` | `VMCPU_FF_TIMER` of the timer EMT, `TM::fRunningQueues` |
| `run` | locals of `TMR3TimerQueuesDo` and `tmR3TimerQueueRun` |
| `call` | the API call each thread is in, with its locals (`enmState`, `fOwnTMLock`) |
| `now`, `ops` | the clock; the number of calls made |
| `abandoned` | history: the timers on which `tmTimerQueueScheduleOne` ran out of retries |

Actions, named after the functions or their parts:

* `TMTimerSet`, `TMTimerSetRelative`, `TMTimerStop`, `TMR3TimerDestroy`,
  `TMR3TimerCreate` begin a call.  `Set...` are the optimized start (probe, try
  lock, compare-and-swap, link) and the unoptimized path (read, compare-and-swap,
  push, write the expire time, commit the state); `Stop...` and `Destroy...`
  likewise.  `StopFallThrough` is the missing `break` after PENDING_SCHEDULE.
* `Schedule`, `ScheduleNotify`, `ScheduleDone` are `tmSchedule`; `Batch...` and
  `ScheduleOne...` are `tmTimerQueueSchedule` and `tmTimerQueueScheduleOne`.
* `Queues...` and `QueueRun...` are `TMR3TimerQueuesDo` and `tmR3TimerQueueRun`.
* `TimerCallback` is the host timer, `Tick` the clock.

Abstractions.  A list edit under the TM lock is one step, because every reader
and writer of the active list owns that lock.  A retry loop of 1000 rounds waits
without bound: the call never gives up with VERR_TM_TIMER_UNSTABLE_STATE.  Calls
on one timer are serialised, as the code asks ("this isn't supported for any
timers, critsect or not").  The caller owns the critical section of the timer
for the whole call (TMTIMER_ASSERT_CRITSECT).  The list of all timers and the
free list are not modelled, and creation and destruction are left to the timer
EMT in the passing runs (`Does`), which destroys timers only in the states of
`DestroyMC`: the findings show what happens otherwise.  Statistics, tracing,
frequency hints and the REM notification are left out.

`TMTimerService` is the promise made to devices: a timer that is armed fires, not
before it is due, once, unless it is stopped, armed anew or destroyed first, and
callbacks run one at a time.  The refinement maps the twelve timer states to
five phases; arming takes effect when the state leaves SET_EXPIRE (or, on the
optimized path, when the expire time is written and the timer linked).

### Runs

| Run | Instance | Asks |
|---|---|---|
| `queue_safety` | 2 timers (one with a critical section), timer EMT and device thread, 3 calls, clock to 2 | all invariants, `ImplementsService` |
| `queue_live` | 3 timers, of which two are armed already, 2 more calls, fairness | `DueFires`, `CallsReturn` |
| `queue_destroy` | 2 timers, 4 calls | finding: destroying empties the active list |

The invariants say: `SanityCheck` is the walk of `tmTimerQueuesSanityChecks`;
`LockBalanced` that every exit of every operation leaves the TM lock as often as it
entered it; `ScheduleListOK` that the lock-free schedule list and the state words
agree (what is pending is queued, once, and nothing else is); `NothingStale` that the
cached expire time and the next timer remembered over a blocking enter are still
right when they are used.

Bounds.  Three calls are enough for one thread to arm a timer, another to re-arm
or stop it, and a third call to meet the half-done state of the second.  `Retries` is 2
in the code and 1 in `queue_safety`, where three calls then let the scheduler lose its
compare-and-swap on every retry.  The clock goes to 2 so that timers are not yet due, due
and overdue.

Two timers never end up in the wrong order (each insertion compares with the only other
timer); three can, which takes four sets.  `queue_live` therefore starts from
`ArmedInit`, a state that `Init` leads to: two timers have been armed for the time 1 and
scheduled, and it is 1.  Both threads then make any two calls on the three timers.  The
run reaches lists that are out of order; without the clause `Overtaken`, `DueFires` is
violated in it.  That clause names what the order costs: a due timer may wait behind one
that is not due, for as long as that one is linked before it and not due.  Since
leads-to asks again in every state, the wait ends when the clock has reached the expire
time of the other, or when that one is unlinked.

Deadlock is not checked because calls are bounded: when all are made and the clock has
reached its bound the system rests.

Fairness.  Each thread in a call goes on (`Step`), whoever owns the lock finishes
the batch (`Batch`), the timer EMT handles its force flag and returns from its
callbacks (`Runner`), and the host timer is periodic (`TimerCallback`): all weak.
Nobody has to make a call and the clock need not tick.

### Findings

1. *Destroy* (`queue_destroy`).  PENDING_STOP_SCHEDULE timers are not in the active
   list, but `TMR3TimerDestroy` unlinks them from it, and unlinking a timer with no
   predecessor sets the head.  The strict-build sanity check it runs next asserts.

Known limits of the code, which the properties leave room for:

* `tmTimerQueueScheduleOne` (`TMAll.cpp:482`) pops the timer, tries three times and
  returns; nothing puts it back and later sets do not link it either, although
  `TMInternal.h:85` says that a PENDING_SCHEDULE timer is in the schedule list.
  `abandoned` remembers such timers, and `ScheduleListOK` and `DueFires` except them.
* `tmTimerQueueLinkActive` (`TMAll.cpp:360`) compares with expire times that
  `TMTimerSet` has already overwritten in timers still linked at their old place.
  With three timers, one of them postponed and another started before the next
  run, the active list ends up out of order, contrary to `TMInternal.h:261`, and a
  due timer waits behind one that is not due (`Overtaken`, in `queue_live`).
* The runner enters a timer's critical section while it owns the TM lock, and a
  destroyer owns the critical section and enters the TM lock.  Only the timer EMT
  destroys timers in the runs; another EMT that did so while the VM runs could
  deadlock with it.

## 4. The critical sections

### Source and model

`PDMCritSect` models the critical sections of the device manager
(`PDMAllCritSect.cpp`, `PDMCritSect.cpp`) with the parts of the EMT loops that
complete what ring-0 and raw mode cannot do themselves.

| Variable | Code |
|---|---|
| `cLockers`, `cNestings`, `owner` | the fields of `RTCRITSECT`; `owner` is `NativeThreadOwner` |
| `pendingUnlock` | `PDMCRITSECT_FLAGS_PENDING_UNLOCK` in `fFlags` |
| `event` | whether `EventSem` is signalled; a wait that ends resets it |
| `eventToSignal` | whether `PDMCRITSECTINT::EventToSignal` is set |
| `ctx` | where a thread runs: ring-3, RZ (ring-0 without preemption, or raw mode), or ring-3 on behalf of RZ |
| `queue` | `PDMCPU::apQueuedCritSectsLeaves` and its count, with `VMCPU_FF_PDM_CRITSECT` |
| `call` | the operation a thread is in; `i` is the loop variable of `PDMCritSectFF` |
| `held` | how often the code of a thread has entered and not left: what its author believes |
| `ops` | number of enters, tries and yields begun |

Actions: `PDMCritSectEnter`, `PDMCritSectTryEnter`, `PDMCritSectLeave`,
`PDMR3CritSectYield` and `PDMR3CritSectScheduleExitEvent` begin an operation;
`Enter...` and `Leave...` are the steps of `pdmCritSectEnter`,
`pdmR3R0CritSectEnterContended` and `PDMCritSectLeave` between two atomic
operations on shared fields; `ForcedActions`, `FFNext`, `FFDone` are
`PDMCritSectFF` as EM and `vmmR3ServiceCallRing3Request` call it; `RunGuest`,
`ReturnToRing3`, `CallRing3`, `ResumeRZ` move an EMT between ring-3 and the guest.

Abstractions.  Writes to several fields are one step where no other thread can
tell them apart (while `cLockers` is not negative, others look at the owner only to
compare it with themselves).  Spinning is one attempt before the counter is
incremented.  `MayHold` is the lock order the users follow; a thread that owns
a section goes to the guest only after it has left it, as
EM does when it runs the guest.  Not modelled: NOP sections, interrupted waits
(they only repeat), statistics and the lock validator, ring-0 code that may
block (it takes the ring-3 path), deletion while threads wait (asserted not to
happen by `pdmR3CritSectDeleteOne`), and `PDMR3CritSectLeaveAll`, used by guru
meditation only.

`ReentrantLock` is the promise: a section has at most one user, which may enter
it repeatedly, and when the user has left it as often it is given up, perhaps
later.  The refinement takes the owner for the user, except while a leave in RZ
has cleared the owner and not yet found out whether somebody raced in.

`PDMCritSectList` models the list of all sections.  `Enter` and `Leave` take and give up
`ListCritSect` for the three operations that delete: `PDMR3CritSectDelete`, `DeleteByKey`
(of a device or driver) and `PDMR3CritSectTerm`; `Found`, `PassBy` and `TermRead` are the
rounds of their walks, one step each.  `InitRead` and `InitWrite` are
`pdmR3CritSectInitOne`, which takes no lock: it reads the head (`PDMCritSect.cpp:170`) and
writes it (`:172`) in two steps, between which other EMTs insert and delete.

| Variable | Code |
|---|---|
| `head`, `pNext`, `pvKey`, `live` | `PDMUSERPERVM::pCritSects`; of a section `pNext`, `pvKey`, and whether its magic is set |
| `ins` | the section an EMT is inserting |
| `lock`, `walk` | the owner of `ListCritSect`, and its locals `pPrev`, `pCur` and what it deletes |
| `raced` | history: the head was written from a value of it that had changed since |

A section is deleted by nobody while it is being initialised, and the write of
`u32Magic` is one step with the read of the head, since nobody looks at a section before
it is initialised.  Not modelled: the fields for statistics, the event semaphore,
initialisation that fails (it links nothing).

### Runs

| Run | Instance | Asks |
|---|---|---|
| `critsect` | 2 EMTs, 2 sections in lock order, 5 enters, fairness | all invariants, `ImplementsLock`, several queued leaves per EMT: `QueueDrained`, `CallsReturn` |
| `critsect_list` | 2 EMTs, 3 sections, 2 devices | `ListedUnlessRaced` |

`CodeAssertions` collects what the code asserts of itself: whoever wins a section
finds it free (`EnterFirstOK`), only owners leave (`LeaveByOwner`), no semaphore is
signalled twice (`NoLostSignal`).  `Ownership` is exclusion with what hangs on it: the
exit event of the owner and the answers of `PDMCritSectIsOwner`.

Bounds.  `MaxNest` is 2: nesting matters only as "once" or "more than once".  To
queue a leave, enter again, and leave again while somebody waits takes three
enters of one EMT and one of another thread; five let two EMTs queue both
sections and wait for each other's.  That the safety properties hold for every
number of threads, sections and enters is proved (section 9).  The list run has no bound
but its two EMTs and three sections: a deleted section may be initialised again for
ever.  Two EMTs are enough for every race of two insertions, or of an insertion and a
deletion, and the run reaches them: `ListedIffLive` alone is violated in it.

Fairness.  Steps of an operation are weakly fair, and so is the return from a
ring-3 call.  Leaving a section and leaving the guest are strongly fair: a
thread may run other code, and go in and out of other sections, between entering and
leaving, but it leaves each section it has entered, and `VMCPU_FF_TO_R3` ends the
run of the guest.  Nobody has to enter anything.

### Findings

None is shown by a run.  Known limits of the code, which the property leaves room for:

* `pdmR3CritSectInitOne` edits the list without `ListCritSect` (`PDMCritSect.cpp:170`,
  `:172`), although `PDMInternal.h:1070` says of that lock "Lock protecting the lists
  below it."  It asserts only that its caller is an EMT, and two EMTs can come here: Main
  attaches and detaches devices through requests to any EMT (VMCPUID_ANY,
  `Main/src-client/ConsoleImpl.cpp:3726`) while another EMT may do so too.  Two
  insertions at once lose a section; an insertion beside the deletion of the head leaves
  a deleted section on the list.  `ListedUnlessRaced` excepts what follows a write of the
  head from an old value, and nothing else; theorem `AloneIsSafe` says that one thread
  never makes such a write.
* `pdmR3CritSectDeleteOne` resets the section's `pNext` (`PDMCritSect.cpp:330`), which the
  loop of `pdmR3CritSectDeleteByKey` reads next (`:382`), so that only the first section
  of a device is deleted, although `:351` says "Deletes all critical sections with a give
  initializer key."  The model follows the code (`Found`); no property asks for more than that
  what is left is a proper list.

`IsOwnerSound` is one-sided in RZ for a reason: an EMT that queues a section for
leaving, enters it again and then calls ring-3 finds, back in RZ, that the flag
of the queued leave is still set (the leave was a nested one) and that it does
not own the section, although it does.

## 5. The request queues

### Source and model

`VMReq` models how threads that are not EMTs have the EMTs run functions for them
(`VMReq.cpp`), and how a sleeping EMT is woken to do so (`VMEmt.cpp`).

| Variable | Code |
|---|---|
| `vmState` | `VM::enmVMState`: RUNNING, in which EM looks at the force flags, or SUSPENDED, in which the EMT loop looks at the lists |
| `req` | the packets: `enmState`, `idDstCpu` as it was asked for, `fFlags` (kind, `noWait`), `fEventSemClear`; `em` says that the function returns a status for EM |
| `event` | whether `VMREQ::EventSem` is signalled; a wait that ends resets it |
| `reqs` | `pPriorityReqs`, `pNormalReqs` of the VM and of each CPU, newest first as in the code |
| `ff` | `VM_FF_REQUEST`, `VMCPU_FF_REQUEST` |
| `fWait`, `semWait` | `VMINTUSERPERVMCPU::fWait`, and whether the EMT's wait event is signalled |
| `emt`, `client` | where each thread is, with its locals |
| `ran` | history: the CPUs that have run the request of each packet |
| `calls` | the calls each client still makes |

Actions.  A client goes through `VMR3ReqAllocU`, `Queue`, `SetFF`, `NotifyFF` (one
CPU after the other for a request to any CPU), then `Poll` or `WaitEvent` and
`CheckState`, which repeats the wait, sends the packet to the next CPU (for
VMCPUID_ALL and VMCPUID_ALL_REVERSE) or goes on to `Free`; after NO_WAIT it is
done with `NotifyFF`.  An EMT that finds something to `Serve` goes through the loop of
`VMR3ReqProcessU`: `ClearFF`, `Take` (priority, then normal), `Peek`, `PushBack` and
`Retake` (`vmR3ReqProcessUTooManyHelper`), `ReqSetFF`, and `vmR3ReqProcessOneU`: `Exec`,
`Complete`, `Flags`, `Signal`.  An EMT with nothing to do sleeps: `StartWait`, `SetWait`,
`CheckFF`, `Wake`, `Timeout`.

Abstractions.  The lists of free packets are the set of packets that are FREE,
and an allocation may miss a free packet, because the code searches without a
lock.  The function of a request is one step; it may suspend or resume the VM, and
its return value is reduced to "for EM" or not.  The test of a list or of two
force flags is one step, and so are the test of the wait flag and the signal.
The wait event is one that a wait resets: the default halt method sleeps in
ring-0 on an event that is reset after the wait, before the flags are tested
again, which comes to the same.  Not modelled: callers that are EMTs (they run the
request at once or process requests while they wait), finite timeouts other than a
poll followed by a wait, `fPriorityOnly`, requests made before the VM structure
exists, rendezvous and the other force flags, termination.

`RequestService` is the promise: on each CPU requests of one kind run first come,
first served, one at a time; a request to any CPU runs on one of them; a call
returns after its request has run.  The refinement maps the list and what the EMT
has taken from it to one line.  For requests to any CPU it promises no order: two
EMTs that push requests back race each other.

### Runs

| Run | Instance | Asks |
|---|---|---|
| `vmreq` | 2 CPUs, 2 clients, 3 packets, four plans of calls, fairness | all invariants, `ImplementsService`, `CallsReturn` |
| `vmreq_poll` | 1 CPU, a client that polls | finding: a poll that succeeds makes the wait hang |

`QueuedIsSeen` says that a queued packet is in exactly one place, a list or the hands
of one EMT, and that somebody is going to look there; `NoLostWakeup` that the EMTs do
not all sleep through a force flag; `EventNotStale` that the event of a recycled
packet is never left over from its last use.

Bounds.  The calls are given as plans, because what is asked decides which race can
happen: a normal request to all CPUs against one to a CPU; a priority one, in reverse,
against one that nobody waits for; three requests in one list, so that the
push-back meets new requests; two in the list that both EMTs serve.  In each plan the
first request changes the state of the VM and so makes the EMT leave its loop early.
Packets are recycled when the second client allocates late; `MaxFree` is 2, so
that a third one goes back to the heap.  Deadlock is not checked: the calls are
finitely many.

Fairness.  A client in a call and an EMT with something to do go on, weakly.
Nobody has to make a call, an EMT that runs the guest need not halt, and the sleep
need not time out: `CallsReturn` does not rest on the one-second cap that would hide
a lost wake-up.

### Findings

2. *Poll* (`vmreq_poll`).  `VMR3ReqCall` with a timeout of 0 returns success when the
   request has already completed, and has then reset the packet's event.  Its callers
   in `Main/src-client/ConsoleImpl.cpp` (`doCPURemove`, `doCPUAdd` and others) nevertheless
   call `VMR3ReqWait` with RT_INDEFINITE_WAIT, which waits for the event before it looks
   at the state, and hang.  `CallsReturn` leaves the pollers out; that their request runs
   is part of it.

## 6. The rendezvous

### Source and model

`VMMRendezvous` models `VMMR3EmtRendezvous` and its helpers (`VMM.cpp`), by which one
EMT has a function run on all of them: one by one in no order, in ascending or in
descending order, all at once, or once on one of them.

| Variable | Code |
|---|---|
| `lock` | `VMM::u32RendezvousLock`; the model remembers whose EMT has it |
| `ff` | `VM_FF_EMT_RENDEZVOUS` |
| `armed`, `flags`, `status` | `pfnRendezvous` is set, `fRendezvousFlags`, `i32RendezvousStatus` |
| `cEntered`, `cDone`, `cReturned` | `cRendezvousEmtsEntered`, `...Done`, `...Returned` |
| `enterOne`, `enterAll`, `enterOrd`, `evtDone`, `evtCaller` | the semaphores; those of ONE_BY_ONE, of the ordered types and of the caller reset themselves when a wait ends |
| `fIn` | `VMMCPU::fInRendezvous` |
| `emt` | where each EMT is, and its locals: `fIsCaller`, `fFlags`, the callback's result, the status as it was read, and what it wants the lock for |
| `told` | the status each EMT was last given |

Actions.  `VMMR3EmtRendezvous` and `SpinLock` take the lock, `ClearSlate` and `Raise` start;
`VMMR3EmtRendezvousFF` brings the other EMTs, also those that spin; `Enter`, `Last`,
`WaitTurn`, `Check`, `Callback`, `MergeRead`, `MergeCas`, `Done`, `WaitDone` are
`vmmR3EmtRendezvousCommon`; `ReturnRead` and `Return` are
`vmmR3EmtRendezvousNonCallerReturn`; `WaitCaller`, `Cleanup` and `Leave` the end.

Abstractions.  Clearing the slate is one step: the flag is down, so that nobody who
is not still on the way out looks at it, and `ReturnRead`/`Return` come before the
caller may go on.  `Cleanup` frees the lock together with the pointer, which nobody
else reads in between.  A callback is one step from its start to its result.
Not modelled: the shortcut for one CPU; a caller that is not an EMT, which has an
EMT make the call through a request (section 5); a call from a callback, which
VMM.cpp:1712 refuses; `VMMR3EmtRendezvousSetDisabled`; the merge of the statuses of
the rendezvous an EMT joined while it waited for the lock into its own.

`Gathering` is the promise: nothing runs until all CPUs have come; then the callback
runs on each (or on one), alone and in order where the type says so, and not at all
after an error if the flags say so; nobody leaves before the last callback is over;
everyone is told the status of this rendezvous, the first error or the lowest
scheduling status, and the others are never told an error.

### Runs

| Run | Instance | Asks |
|---|---|---|
| `rendezvous` | 3 CPUs, 2 calls of five kinds, three results, fairness | `KeptApart`, `OneTurn`, `ImplementsGathering`, `CallsReturn` |

`KeptApart`: the counters, the flag, the flags and the EMTs of one rendezvous are not
those of another, whatever is cleared while somebody is on the way out.  `OneTurn`:
in the types of one EMT at a time exactly one has the turn or has just been given
it, and nothing is left signalled.

Bounds.  Three CPUs are the smallest number with an EMT that is neither first, last
nor caller in an order; two calls let the second start while EMTs of the first
have not left, and let an EMT that waits for the lock join the first.  Of the three
results one is a scheduling status; that of several the lowest wins is left to the proof
(`ImplementsPromise`, section 9), which holds for every set of results.

Fairness.  An EMT looks at the force flags again and again and a callback returns:
weak fairness of each EMT's steps.  The spin lock is not fair; the calls are
bounded, so that an EMT that loses every race gets it in the end.  With an unbounded
number of calls by others an EMT might spin for ever.

## 7. The queues between devices and EMTs

### Source and model

`PDMQueue` models one queue that is driven by the force flag (`PDMAllQueue.cpp`,
`PDMQueue.cpp`).

| Variable | Code |
|---|---|
| `aFreeItems`, `iFreeHead`, `iFreeTail` | the ring of free items: taken at the tail by anybody, put in at the head by the EMT that flushes |
| `pPending` | `pPendingR3`, `pPendingRC`, `pPendingR0`, newest first as in the code |
| `ff`, `flushing` | `VM_FF_PDM_QUEUES`; the active and the pending bit of `PDM::fQueueFlushing` |
| `ins` | where a thread is in `PDMQueueAlloc` and `PDMQueueInsert`, with the item and the index it has read |
| `emt` | where an EMT is in `PDMR3QueueFlushAll` and `pdmR3QueueFlush`, with what it has taken from each list |
| `consumed` | the last item the consumer has dealt with |
| `leftOver`, `missed` | history: the items the consumer did not want; an EMT left before the pending bit of an insert was raised |
| `late`, `stale` | history: the threads that slept in `PDMQueueAlloc`, between the read of the item and the compare-and-swap, while the tail went round the ring; one of them got an item that was not there any more |

Actions.  `AllocRead` and `AllocCas` are `PDMQueueAlloc`; `Push`, `SetFF`, `SetPending` are
`PDMQueueInsert`; `PDMR3QueueFlushAll`, `TestAndSet`, `ClearPending`, `Scan`, `Release`,
`CheckPending`, `CheckFF`, `Again` are the loop of the flush; `TakeLists` (three
exchanges), `Consume`, `Refuse`, `PutBack`, `Fed` are `pdmR3QueueFlush`, `Free` is
`pdmR3QueueFree`.

Abstractions.  The lists an EMT has taken stay apart in the model and are read in the
order in which the code chains them.  A push that loses its compare-and-swap
changes nothing.  `Scan` reads three pointers in one step: only the flushing EMT
empties a list.  Bounds: `MaxInserts` and `MaxRefusals`.  Once `stale` is set the model
makes no more steps: two owners would link one item twice, and the lists would no longer be
sequences.  The fairness is that of the steps before.  Not modelled: queues
flushed by a timer (`pdmR3QueueTimer`), several queues in one flush, creation and
destruction while the VM runs, items that are only pushed when something else is
inserted after a refusal.

`PDMQueueService` is the promise: one line per context, served in order, each item
once.  When the consumer says "enough!" the items that were already taken stay in
front, all in the line of ring-3: items of ring-0 and raw mode may then be overtaken
by later ones of their own context.

### Runs

| Run | Instance | Asks |
|---|---|---|
| `pdmqueue` | 2 EMTs (one inserting from ring-0), a device thread, 2 items, a ring of 3, 4 inserts, 1 refusal, fairness | all invariants, `ImplementsService`, `TakenUp` |
| `pdmqueue_lost` | the same without ring-0 and refusals, 2 inserts | finding: an insert nobody looks for |

`OneFlusher`: the active bit lets one EMT flush.  `KeptUnlessStale`: every item is in one
place and once there (`InOnePlace`), until a stale item is handed out.  `CaughtUnlessMissed`: when all
is quiet and the flag is down nothing waits that was not refused, except after finding
3.  `TakenUp` is the same as a liveness property.

Bounds.  Two items and a ring of three make the indices wrap within three inserts and
let two threads race for the last item.  Of four allocations one
has read its item and sleeps while three take the tail once round the ring: the run
reaches `stale`, and `InOnePlace` alone is violated in it.  Two EMTs are one that flushes
and one that comes too late.  That safety holds for all numbers is proved (section 9).

Fairness.  A thread that has begun to insert goes on; an EMT looks at its force flags
again and again and finishes a flush, weakly.  Nobody has to insert.

### Findings

3. *Lost* (`pdmqueue_lost`).  `PDMR3QueueFlushAll` lowers the force flag before it
   tests the active bit, and `PDMQueueInsert` raises the pending bit after the force
   flag.  An EMT that sees the flag of an insert, lowers it and finds another EMT
   flushing leaves it to that one, which may have looked at the pending bit already.
   Then the bit goes up, the flag is down, and the item waits for the next insert.
   `PDMQueue.cpp:665`: "Queue inserts occurring during the flush are caught using the
   pending bit."

A known limit, which the properties leave room for: `PDMQueueAlloc` reads the item
(`PDMAllQueue.cpp:62`) before the compare-and-swap of the tail (`:64`).  If the thread
sleeps in between and the tail goes once round the ring, the swap succeeds although the
slot holds another item by now: one item is handed out twice and another is lost.  The
slack of the ring, 16 slots beyond the items (`PDMInternal.h:713`), makes the sleep this
takes longer, and does not exclude it.  `stale` marks that event; the properties hold
up to it, and show that nothing else leads there.

## 8. The threads of devices

### Source and model

`PDMThread` models `PDMThread.cpp`: the threads of devices and drivers, and the EMT
that creates, suspends, resumes and destroys them, one operation at a time ("always
do these calls from the EMT").

| Variable | Code |
|---|---|
| `enmState` | `PDMTHREAD::enmState`; INVALID also when there is no thread |
| `BlockEvent`, `SleepEvent`, `userEvent` | the events of a suspended thread, of a sleeping one, and the user event of the IPRT thread; a wait resets none of them |
| `thr` | where the thread is in `pdmR3ThreadMain` and what it calls, and the state as it last read it |
| `pThreads` | the list, in the order of creation |
| `emt` | the operation of the EMT, its place, and what is left of the list in an operation on all |
| `told` | what the last operation on a thread told its caller |
| `why` | history: what happened to a thread that explains a failure |

Actions.  `PDMR3ThreadCreate`, `CallOne`, `CallAll` begin an operation; `Init...`, `Suspend...`,
`Resume...`, `Destroy...` are its steps, `BailOut`, `BailKick`, `Bailed` the end of one that
failed, `UserWaitTimeout` and `DestroyTimeout` the waits that time out.  The thread:
`Function`, `Work`, `FunctionFails` and `PDMR3ThreadSleep` to `SleepTimeout` are its function,
`Returned` to `PDMR3ThreadIAmRunning` what it does between two runs of it, `Exit` to
`SignalTerminated` its end.

Abstractions.  The thread functions are the simple ones, which return when the state
is not RUNNING; the callback that wakes them from waits of their own is left out.
`pdmR3ThreadBailMeOut` and the loop at the end of `pdmR3ThreadMain` are one step
each.  Not modelled: the lock of the list (SuspendAll and ResumeAll leave it locked
when they fail, `:985`, which matters only to other EMTs), destruction by device,
a wait that times out in `pdmR3ThreadInit` (it frees the structure of a thread that
is still alive, `:187`), and the check of `PDMTHREADTYPE_DEVICE` in
`pdmR3ThreadDestroyUsb` (`:526`).

### Runs

| Run | Instance | Asks |
|---|---|---|
| `pdmthread` | 2 threads, 5 operations, 1 time-out, 1 failure, fairness | `ToldIsTrue`, `FailsForAReason`, `DoomedStays`, `OpsReturn` |
| `pdmthread_resume` | 1 thread, 5 operations, no time-out, no failure | finding: a healthy thread is terminated |

`ToldIsTrue`: what an operation reports is so and stays so until the next one: in
particular the structure of a thread is freed only when the thread has made its last
step.  `FailsForAReason`: Suspend and Resume fail only after a failure, a time-out or
the late signal of finding 4.  `DoomedStays`: a thread that was told to terminate is not
suspended or resumed again, unless a time-out or a late signal has ended an earlier
operation on it before the thread did what it was asked.  That exception is the hazard of
`:651` and `:659`, where the thread swaps SUSPENDED over whatever state it read last,
TERMINATING included: the EMT can get past its wait and ask for the end while the thread
is about to suspend only in these two ways, and then the request is overwritten.  The
property shows that there is no third way, not that the overwrite is harmless.

Bounds.  Five operations are create, resume, suspend, resume and one more; with two
threads an operation on all meets threads in different states.

Fairness.  The EMT and the threads go on, weakly.  A thread that sleeps need not wake
by itself and no wait need time out: `OpsReturn` does not rest on the 60 seconds that
would hide a lost wake-up.

### Findings

4. *Late signal* (`pdmthread_resume`).  `PDMR3ThreadSuspend` does not wait when it
   finds the thread SUSPENDED after waking it (`:945`), but the thread signals its user
   event only after it has written that state (`:659`, `:661`).  If the signal comes after
   `PDMR3ThreadResume` has reset the event (`:1027`), the wait of Resume ends at once,
   the state is still RESUMING, and Resume asserts (`:1052`) and terminates the thread.

## 9. Proofs

### The timer queues

`TMTimerQueueProofs` proves, for every set of timers and threads, every assignment
of critical sections and calls, and every bound:

* `Inductive`: `Spec => []IInv`.
* `TypeCorrect`: `Spec => []TypeOK`.
* `LockIsBalanced`: `Spec => []LockBalanced`: the owner of the TM lock has entered it
  exactly as often as the places it is at say, and no other thread is at a place
  that owns it.

Assumptions: the five ASSUMEs of `TMTimerQueue` (the timer EMT is an EMT and EMTs
are threads; NoThread and NoTimer are not members; the bounds are naturals),
evaluated by TLC in every run.

Neither `TypeOK` nor `LockBalanced` is inductive.  `tmNest' \in Nat` needs the balance
of the lock; the balance needs to know at which steps a call may own the lock
through `fOwnTMLock` (the `Unowned` steps never do, the optimized relative start
always does); the types of the lists need that the locals name real timers
exactly where they are used.  `IInv` is the conjunction of those parts.  The proof
goes by what each step does to the lock (`LockMoves`): a step that changes its
depth by one takes or leaves the lock, any other leaves it alone; `CallStep`,
`GotoStep` and their kin turn that into one short case per action.

`TMTimerListProofs` builds on that and proves, with the same generality:

* `ListsAgree`: `Spec => []KInv`, the inductive invariant of the lists.
* `ScheduleList`: `ScheduleListOK`; `ReadsStayTrue`: `NothingStale`.
* `ListsAreSane`: `SanityCheck`, if PENDING_STOP_SCHEDULE is not in `DestroyFrom`: the
  user destroys no timer whose stop is half scheduled.  `DestroyMC` of `queue_safety`
  satisfies this, and finding 1 shows what happens without it.
* `ImplementsTimers`: `Spec => ImplementsService`, the refinement.

None of these is inductive.  What a step does to a list depends on what its call
remembers of a state word that others may have swapped since; `KInv` therefore says
of every step what is still true of it.  It is `IInv` with:

* `Serial`: calls on one timer are serialised; the timer EMT is in a call or runs the
  queue; only an owner of the TM lock has a batch and a timer in its hands (`OneHeld`).
* `CallsFit`: for each step of a call, the states its timer may be in and how the
  state it remembers relates to them.  A call that has claimed its timer finds it in
  the state it claimed, for instance, and a stop that falls through from
  PENDING_SCHEDULE finds the timer no longer pending.
* `StatesFit`: each state that does not last has somebody who will end it: a call for
  SET_EXPIRE and DESTROY, the runner for EXPIRED_GET_UNLINK and EXPIRED_DELIVER.
* `ListInv`: what is on the schedule list or in the batch is pending, what is pending is
  in one of the places that `Queued` names (or abandoned), and in no two of them.
* `ActiveInv`: the active list has no timer twice and only timers that should be in it
  (`Expected`, which excepts one that is about to be linked and one that is about to be
  unlinked); the cached expire time is that of its head; the next timer the runner has
  read is still the next.
* `TimeInv`: a timer the runner is about to fire is due.

That the active list misses no timer it should have (`Full`) is apart from `KInv`,
because it alone takes the hypothesis of `ListsAreSane`; `WellDestroyed` carries that
hypothesis through the steps of a destruction.

TLC checked `KInv` before it was proved.  The proof sorts the steps by what they touch:
those of a call that change its timer's state word or less (`Plain`), which all keep
the invariant by one argument on the transitions they may make (`PlainKeeps`); the push
on the schedule list; the edits of the active list (`Inserted`, `Removed`); the batch;
the runner.  For the refinement, `PhaseRight` tabulates the phase of a timer by its
state, there is one lemma for each action of the service (`BeginsSet`, `EndsSet`, `Stops`,
`Destroys`, `Creates`, `Expires`, `Delivers`, `Returns`), and every other step moves no
timer from one phase to another (`StutterIs`).

The theorems say nothing against the known limits of section 3: an abandoned timer is
excepted by `ScheduleListOK`, and the order of the active list is not among the
properties: the service promises that nothing fires early, not in which order timers
fire.

Model-checked only: `DueFires` and `CallsReturn`.  Liveness under fairness is out of the
prover's reach.

### The critical sections

`PDMCritSectProofs` proves, for every set of threads, EMTs and sections, every lock
order and every bound:

* `Exclusion`: no two threads are inside a section (`MutualExclusion`).
* `ReentrantLocks`: `Spec => ImplementsLock`, the refinement.
* `AssertionsHold`: `CodeAssertions`, from `WinnerFindsItFree`, `OnlyOwnersLeave` and
  `SignalsAreSeen`, its three parts.
* `OneOwner`: `Ownership`, from `Exclusion`, `ExitEventTaken` and `OwnershipAnswers`.
* `LockersAreCounted`: `LockersCount`, for finitely many threads.
* `NothingQueuedTwice`: `QueuedOnce`.
* `WaitersAreSeen`: `NoWaiterForgotten`, for finitely many threads.
* `OrderIsKept`: `WaitsInOrder`; `NoDeadlock`: `NoCircularWait`, if the lock order has no
  cycle (`NoCycle`).
* `TypeCorrect` and `Inductive`, on which the others rest.

Assumptions: the four ASSUMEs of `PDMCritSect` (EMTs are threads, the none values
are not members, the lock order relates sections, the bounds are naturals).
`Threads` and `Sects` need not be finite, except that `LockersAreCounted` counts threads
and so takes a finite number of them; no theorem uses the bounds.

Mutual exclusion is not inductive: it says nothing of a thread that was woken
and is about to take the section while another is about to be woken.  The
inductive invariant says that at most one thing stands for a section that is not
free: its owner, its signalled semaphore, or one thread with the *token*, which is
between winning the section and becoming its owner or between giving up the
ownership and either freeing the section or signalling (`TokenOK`, `SectOK`).  `NestOK`
adds that the nesting count is what the owner's code holds plus a queued leave that
has still to be made plus the leave it is at; that is why a queued section cannot
be queued again, and why the queued leave finds its owner.  Each step either
leaves a section alone (`KeepsAll`), changes only the thread that has it (`Keeps`), or
hands the token on, and the proof has one lemma per action along these lines.

`LockersCount` follows the same actions: each moves at most one thread into or out of
the set of those that are counted besides the owner (`CountMoves`), and changes
`cLockers` and `cNestings` to match.  It needs `IInv` to know that a leave that gives up
the ownership does so from a nesting of one.

The last three theorems are about waiting.  They are safety properties of the proof
module, which the runs do not list; TLC checked them, and the invariants they rest on,
on the constants of the run `critsect` before they were proved.

* `NoWaiterForgotten`: while a thread waits for a section, the section has an owner, or
  its semaphore is signalled, or a thread is about to enter or to signal it, or one that
  has given it up has still to look at `cLockers` and will see that somebody waits
  (`WaiterSeen`).  The invariant `LockersAttended` says, without counting, that a section
  whose `cLockers` is not -1 is attended by an owner, a signal or a token; that the
  thread in between will see the waiter follows from `LockersCount`, since the waiter and
  that thread are both counted.
* `WaitsInOrder`: a waiting thread owns only sections which it may hold while it
  enters this one, and none that it has left in ring-0 and that is still queued.  The
  invariant `OrderKept` relates what a thread enters to what it holds, and says that
  outside ring-0 and raw mode its queue is empty before it waits: the calls from ring-0 to
  ring-3 process the queue first.
* `NoCircularWait`: in every set of threads one does not wait for a section owned
  in the set.  It follows from `WaitsInOrder`: the sections of a circle would be a set
  in which each is held while another is entered.  `NoCycle` is a hypothesis of the theorem
  and not of the model: the code leaves the lock order to the devices, and
  `MayHold` of the runs satisfies it.

Model-checked only: `CallsReturn` and `QueueDrained` (liveness).  `WaitersAreSeen` and
`NoDeadlock` are the part of `CallsReturn` that needs no fairness.

### The list of critical sections

`PDMCritSectListProofs` proves, for every set of threads, sections and keys:

* `WellFormed`: `Spec => []IInv`.
* `ListIsLive`: `ListedUnlessRaced`, for finitely many sections: the property walks the
  list for as many steps as there are sections.
* `AloneIsSafe`: with one thread `raced` stays false and `ListedIffLive` holds, for finitely
  many sections.

Assumptions: the two ASSUMEs of `PDMCritSectList` (the none values are not members; EMTs
are threads).

`IInv` is the types and, until `raced`, three parts.  `InRow`: the initialised sections, but
for those that are being inserted, can be put in a row without repetition that starts
with the head and in which each `pNext` leads to the successor.  The row is what
`ListedIffLive` lacks to be inductive.  `InsOK`: what is being inserted is initialised, and
by one EMT.  `WalkOK`: the section a walk is at is in the row and what it takes for its
predecessor is that, or it takes it for the head; the head may have moved on, since
insertions do not wait for the walk.  The proof has a lemma for adding at the front and
one for closing the gap that a deletion leaves.  `AloneIsSafe` adds `AloneOK`: the one
thread is not inserting and walking at a time, and the head is what it has read.

### The queues between devices and EMTs

`PDMQueueProofs` proves, for every set of EMTs and other threads, every number of
items, every slack of the ring and every bound:

* `Inductive`: `Spec => []IInv`.
* `TypeCorrect`: `TypeOK`; `OneFlushes`: `OneFlusher`; `ItemsConserved`: `KeptUnlessStale`.
* `InsertsAreCaught`: `CaughtUnlessMissed`.
* `ImplementsPromise`: `Spec => ImplementsService`, the refinement.

Assumptions: the four ASSUMEs of `PDMQueue` (at least one item and one slot of slack;
the EMTs are not among the other threads; only EMTs insert from ring-0 or raw mode; the
bounds are naturals).  The compare-and-swap of `PDMQueueAlloc` has the classical ABA
problem, and no theorem assumes it away: `ItemsConserved` and `ImplementsPromise` say what
holds until it strikes (`stale`, section 7).

None of the properties is inductive.  `IInv` is `TypeOK` with four parts, of which the
first two hold until `stale`:

* `PlaceOK`: every item is in exactly one place (a slot of the ring, a thread, a list, an
  EMT), and no list holds an item twice.  It says this without counting: that the ring
  does not overflow follows from there being more slots than items, each in one place.
* `HandsOK`: the free slots, the threads that have taken an item and the EMT that frees
  one do hold items; a thread whose compare-and-swap is going to succeed has read the
  item that is still there, or is in `late`.
* `FlusherOK`: at most one EMT is at the places of a flush, the active bit is down unless
  one is, and an EMT has nothing yet from the lists it has still to take.
* `OwedOK`: an item that waits, and is not the rest of an abandoned flush, is noted (the
  pending bit is up, a thread is about to raise the flag and the bit, or a flusher has
  still to take its list), and somebody will come for it (the force flag is up or about
  to be, or an EMT is about to flush), or `missed` says that the exception happened.

The proof has one lemma per action and part.  The refinement is proved from
`FlusherOK` and `PlaceOK`: at most one EMT holds items, so the line of a context is what it
holds followed by the reverse of the list (`Line`, `Held`), each action appends, takes
the head, moves items to the line of ring-3, or leaves the lines alone.

Model-checked only: `TakenUp` (liveness).

### The rendezvous

`VMMRendezvousProofs` proves, for every number of CPUs above one, every set of
requests and results and every number of calls:

* `Inductive`: `Spec => []IInv`.
* `TypeCorrect`: `TypeOK`; `RendezvousKeptApart`: `KeptApart`; `TurnsAreHandedOn`: `OneTurn`.
* `ImplementsPromise`: `Spec => ImplementsGathering`, the refinement.
* `NobodyHangs`: `NoStandstill`: while an EMT is in a call or in a rendezvous, some EMT
  can go on.

Assumptions: the four ASSUMEs of `VMMRendezvous` (at least two CPUs; an error stops only
the types that run one EMT at a time in a loop, as `vmm.h` says; results are integers,
0 among them; the bound is a natural).

None of the properties is inductive: that a counter does not pass the number of CPUs,
or that a new rendezvous meets nothing of the last, needs to know where every EMT may
be.  `IInv` is `TypeOK` with six parts:

* `LockOK`: exactly the EMT that has the lock is the one that calls or is the caller, and
  the rendezvous is armed once that EMT has cleared the slate.
* `LocalsOK`: what an EMT has read of the flags and of the status is still so.
* `StagesOK`: an armed rendezvous is in one of four stages, `Calling`, `Coming`, `Running`
  and `Leaving`, told by the caller's place, the force flag and the done event; each stage
  fixes what may be counted and signalled.
* `PlacesOK`: the stage fixes at which places of the code the EMTs may be.
* `CountsOK`: the counters are the cardinalities of the sets of EMTs at certain places, so
  that a counter which reaches the number of CPUs says where all of them are.  That is the
  step from one stage to the next.
* `TurnsOK`: at most one EMT has the turn where the type wants it so; in an order the
  number of an EMT against `cDone` tells whether it is done, has the turn or waits.

The proof has one lemma per action.  A step from turn to turn changes nothing but the
place and the status (`TurningStep`), a step outside the rendezvous only the lock
(`OutsideStep`); the last EMT to come and the last to be done, where the stage changes, are
proved at length.  For the refinement each step is either one of the gathering or moves
one EMT between places that the gathering does not tell apart (`UnseenStep`).

`NoStandstill` needs one more invariant, `HasNext`: a rendezvous of all EMTs at once has
its event up once it runs, one of type ONCE has an EMT in the callback or on its way
there, and when all others have returned the caller's event is up or the caller is
past it.  With the stages and the counters of `IInv` each stage then has an EMT that can go
on (`ComingGoes`, `RunningGoes`, `LeavingGoes`).

Model-checked only: `CallsReturn` (liveness), of which `NobodyHangs` is the part that
needs no fairness.

### The threads of devices

`PDMThreadProofs` proves, for every set of threads and every bound on operations,
time-outs and failures:

* `Inductive`: `Spec => []IInv`.
* `TypeCorrect`: `TypeOK`; `ReportsAreTrue`: `ToldIsTrue`; `FailuresHaveReasons`: `FailsForAReason`.
* `DoomedStay`: `Spec => DoomedStays`, an action property.
* `SignalsArrive`: `NobodyForgotten`: whenever the EMT waits for a thread, the thread is
  on its way to what the EMT waits for.

Assumptions: the two ASSUMEs of `PDMThread` (the mark for no thread is none; the bounds
are naturals).

`IInv` is `TypeOK` with, for the EMT, `EmtOK` (each operation is at one of its own places)
and `ListOK` (the list has the threads that are there, but the one being created, and what
an operation on all has still to do is on the list), and for every thread:

* `StateOK`: the state word goes with the place of the thread, whatever the EMT does:
  SUSPENDED only where the thread has written it or waits, TERMINATED from its own last
  write on, RUNNING only in its function.
* `CallerOK`: what the caller was told fits the place and the block event, and where the
  operation on the thread stands.  `ToldIsTrue` alone is not inductive: the state could
  change under a caller if, say, a thread that is told to be suspended had its block
  event set.
* `HealthyOK`: a thread to which nothing has happened is where the operation in progress
  wants it, and its user event is set exactly when it has got there (`Suspending`,
  `Resuming`, `Ends`).  `FailsForAReason` follows, since no such thread is in the bailout,
  and so does `DoomedStays`: the state a thread expects in its compare-and-swap is
  INITIALIZING or SUSPENDING.

The proof has one lemma per action; a step of the thread (`MainStep`) or of the operation
on it (`ControlStep`) leaves all other threads alone (`Untouched`).

`NobodyForgotten` needs more than `IInv`, which says nothing of a sleeping thread
with nothing to do.  `WakesKept` says, for every thread, that one which sleeps although it
was asked for something has its sleep event signalled or is about to get the signal
(`SleeperOK`), that the same holds of one that is blocked and of its block event
(`BlockedOK`), and what each step of the EMT before its wait rests on (`WaitOK`): the
thread is still to set the user event, or has set it, and nothing makes it run again
while it is being suspended or ended.

Model-checked only: `OpsReturn` (liveness), of which `SignalsArrive` is the part that needs
no fairness.

### The request queues

`VMReqProofs` proves, for every number of CPUs, every set of clients and packets and
every plan of calls:

* `Inductive`: `Spec => []IInv`.
* `TypeCorrect`: `TypeOK`; `EventsNotStale`: `EventNotStale`; `WakeupsNotLost`:
  `NoLostWakeup`; `RunAsAsked`: `RanAsAsked`; `QueuedAreSeen`: `QueuedIsSeen`.
* `ImplementsPromise`: `Spec => ImplementsService`, the refinement.

Assumptions: the ASSUMEs of `VMReq` (at least one CPU; the special destinations are
no CPUs and differ; the mark for no packet is none; the plans are sequences of calls
in which a request to all CPUs is not NO_WAIT, as `VMR3ReqQueue` asserts; the VM
starts running or suspended).  `Clients` and `Packets` need not be finite; the plans give
each client finitely many calls, but no theorem depends on how many.

The invariants of the run are not inductive one by one: that an event is not stale
depends on who may still signal it, that on which EMT has the packet, and that on
what the state word of the packet allows.  `IInv` is `TypeOK`, `PendingFlagged` and
`NoLostWakeup` with:

* `EmtOK`, `ServiceOK`: what an EMT has taken is a list without repetition and one packet
  besides; the packet it runs is PROCESSING, then COMPLETED; at most one EMT runs a
  packet, and the packet it is about to signal is not NO_WAIT and its event is marked as
  one to be reset by a wait (`fEventSemClear` is down).  An EMT that
  tests the flags for the last time, or sleeps, has its wait flag up, so whoever raises
  a flag after that test sees that it must be woken.
* `ClientOK`: a client that will look at a packet again (`Owns`) is the only one that does;
  the CPUs it has still to ask are the rest of those asked for, and what has run of the
  request is what is not left (`Done`), with one more from PROCESSING on.  When it has
  found the request completed, no event and no EMT is left over from it.
* `PacketOK`: an event that is signalled belongs to a completed request that no EMT
  serves any more; a free packet has no owner; what has run is a prefix of what was asked.
* `ListsOK`: a queued packet is in one list or in one EMT's hands and waits there for its
  turn (`TurnOf`): the next CPU to run it is the one whose list it is in.
* `CallsOK`, `NotifyOK`: bookkeeping of calls still to be made and CPUs still to be notified.

The proof has one lemma per action and part, over facts on lists
(push, push-back, reversal) and on what a step of one thread leaves alone.  For the refinement, what an
EMT takes and what it pushes back stays in the same line (`HandsView`): a push appends,
`Exec` takes the head, `Complete` ends the service, and all other steps of an
EMT leave the abstract state alone (`Stutters`).

Model-checked only: `CallsReturn` (liveness).

## 10. Not modelled yet

The virtual sync queue (`tmTimerVirtualSyncSet` and so on), `TMTimerPoll`, saved
state, what sections 3 to 8 name as left out, and the components of the plan that are not
marked done.  Instruction
emulation, memory management, device registers, image formats and user interfaces
are not planned: they are data rather than control.
