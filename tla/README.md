# A verification development of OrcGC

OrcGC (`src/trackers/OrcPTP.hpp`) is automatic memory reclamation for lock-free
data structures: objects carry a count of the links to them, the threads that
use them announce *hazardous pointers*, and an object is deleted when it has no
link and nobody announces it. The client annotates types and never calls
`retire()`. The repository also has three manual reclaimers and a collection of
lock-free data structures, most of them written for both.

The project models the registry of threads, the OrcGC engine with the parts of
`orc_atomic` and `orc_ptr` that drive it, the index bookkeeping of the `orc_ptr`s
of a thread, the three manual reclaimers, and every data structure of the
repository over what its reclaimers promise. TLC checks them. TLAPS proves the
main exclusion, counting and protection properties of the registry, of OrcGC,
of `orc_ptr` and of the three manual reclaimers, and the linearizability of the stack
over a manual reclaimer and of the Michael-Scott queue, for any number of threads,
objects and operations.

## The system and its parts

| Part | State | Operations | What makes it hard, and what must hold |
|---|---|---|---|
| Thread registry, `common/ThreadRegistry.hpp` | `usedTID[]`, `maxTid`, a thread-local tid | `getTID()` registers on the first call; the thread's end frees the tid | two CAS loops race with threads that come and go. Tids are unique, `maxTid` covers every one of them and never shrinks, a registration ends |
| OrcGC engine, `trackers/OrcPTP.hpp` (`PassThePointerOrcGC`, `orc_atomic`) | per object the word `_orc` (count, BRETIRED, sequence); per thread a row of `hp` and of `handovers`, `retcnt`, `recursiveList`; `maxHPs` | `load`, `store`, `compare_exchange`, `poison`; `retire`, `retireOne`, `tryHandover`, `clearBitRetired`; the destructor | every step races with every other. No use after free, one retirer at a time, nothing forgotten, `retire()` returns when the others make finitely many calls |
| `orc_ptr`, `trackers/OrcPTP.hpp` | pointer, index of its hp, `lnk`; `usedHaz[]` | construction, copy, move, swap, assignment, `setUnmarked`, destruction; `make_orc` | the order of protecting one pointer and letting another go; indices that several `orc_ptr`s share |
| Manual reclaimers, `trackers/HazardPointers.hpp`, `PassThePointer.hpp`, `PassTheBuck.hpp` | a row of hps per thread; lists of retired objects, handovers, or versioned handovers | `protect`, `protectPtr`, `protectPtrRelease`, `swapPtrs`, `clear`, `clearOne`, `retire` (`liberate`) | scans race with protections and with one another. A protected object is never deleted, a retired one is in one place until it is, calls end |
| Stack and queues, `datastructures/stacks`, `datastructures/queues` | linked nodes or rings; announced requests | `push`/`pop`, `enqueue`/`dequeue` | lock-free updates in several steps, helping, lagging tails, rollback. Linearizable, and correct clients of their reclaimer |
| Lists, skip list, tree, `datastructures/lists`, `skiplists`, `trees` | sorted nodes with marked, poisoned, flagged or tagged links | `add`/`remove`/`contains`, `put`/`replace`/`get` | a removal marks and then unlinks, and others help. The same promises |
| Benchmarks and command line (`graphs/`, `common/CmdLineConfig.hpp`) | - | time the data structures | no behaviour of the library; not modelled |

A data structure is made of `orc_atomic` fields, and its operations hold
`orc_ptr`s. A `load()` announces the pointer in `hp[tid][0]` and hands it to an
`orc_ptr`, which copies the announcement to an index of its own. `store()` and
`compare_exchange()` increment the count of the new object and decrement that
of the old one. Whoever sees a count of zero tries to set BRETIRED with a CAS;
the winner calls `retire()`. `retire()` looks for an hp that holds the object.
If there is one, it exchanges the object into the handover entry beside that hp
and goes on with the object it got back; otherwise it deletes the object, whose
members decrement further objects, which are retired in turn through
`recursiveList`. A handover is found again by `retireOne()`, which
`decrementOrc()` calls now and then, or by the destructor of the engine. All
arrays are indexed by tids and scanned up to `getMaxThreads()` and `maxHPs`.

Over a manual reclaimer a thread announces a pointer in `hp[tid][i]` with
`protect()`, which reads the link again until both agree, unlinks with a CAS and
hands the node to `retire()`. The data structures see a reclaimer only through
these calls, and OrcGC only through `orc_atomic` and `orc_ptr`.

`PROJECT.json` lists the hazards of this code, each with its line and with the
properties that cover it.

## Modules

### ThreadRegistry

One thread is one element of `Threads`; when it ends, another may be born in
its place. Each access to `usedTID` or `maxTid` is a step:

| Action | Code |
|---|---|
| `GetTID` | `getTID()` of a thread without a tid |
| `LoadUsed`, `CasUsed` | the load and the CAS of the `for` loop; `NextSlot` is its `continue`, or the error at its end |
| `LoadMax`, `CasMax` | the load and the CAS of the `while` loop on `maxTid`; the exit from it assigns the tid |
| `Deregister` | `~ThreadCheckInCheckOut()` |

### OrcGC

One module for the engine and its callers, because they share the locals of a
call: `retire()` is reached from `store()`, from `compare_exchange()`, from the
destructor of an `orc_ptr`, from `retireOne()` and from the engine's
destructor, and goes back to each of them.

| State | Code |
|---|---|
| `orc[o]` | `_orc`: `cnt` relative to `ORC_ZERO`, `ret` for BRETIRED, `seq` |
| `link[c]` | the content of an `orc_atomic`: a root, or the one member of an object, named by the object |
| `alive` | the addresses that hold an object; an address is used again after a deletion |
| `hp`, `handovers`, `maxHPs`, `retcnt`, `retireStarted`, `rlist` | the fields of the engine and of `tl[tid]` (`rlist` is the part of `recursiveList` not yet taken) |
| `slot[t][i]` | the `orc_ptr` of thread `t` with index `i`; `usedHaz[i]` is 1 when it holds an object |
| `pc`, `op`, `dec`, `ptr`, `lorc`, `again`, `seen`, `scan`, `retTo` | where a thread is, and the locals of the calls it is in; `dec[t][1]` is the `decrementOrc()` nested in a `retire()` |
| `inDestructor`, `left` | the destructor of the engine and what it has still to visit |

| Actions | Code |
|---|---|
| `MakeOrc`, `Load`, `Store`, `CompareExchange`, `PoisonCell` | the calls of a client, up to their first shared access |
| `Assign` | `operator=(internal&&)` and `setUnmarked(internal&&)`: a load into an `orc_ptr` that holds an object |
| `CopyPtr`, `DropPtr` | a copy to a higher index, and the destructor of an `orc_ptr` |
| `GetProtected`, `Publish` | the loop of `get_protected()` |
| `GetNewIdx`, `ProtectPtr` | `getNewIdx()`, `protect_ptr()` and the end of an assignment |
| `Clear`, `ClearCas` | `clear()` of a pointer that was never linked |
| `IncrementOrc`, `IncrementCas`, `Exchange` | `incrementOrc()` and the exchange of `store()` |
| `DecrementProtect`, `DecrementOrc`, `ResetRetcnt`, `DecrementCas` | `decrementOrc()` before and after its `retireOne()` |
| `RetireOne`, `Seek`, `SeekHP`, `TakeHandover` | `retireOne()` |
| `RetireSelf`, `RetireLoad`, `CheckWord`, `Destroy`, `FreeObj` | `retire()`; `Retire` is the call of it, `Continue` the end of a round of its loops |
| `ScanThreads`, `ScanHPs`, `Scan`, `HandOver` | `tryHandover()`, place by place |
| `ClearBitProtect`, `ClearBit`, `ClearBitCas`, `ClearBitOk`, `ClearBitFail` | `clearBitRetired()` |
| `Shutdown`, `Sweep` | `~PassThePointerOrcGC()` |

A client may do anything an `orc_ptr` program can: `Program[t][k]` is the set of
operations from which operation `k` of thread `t` is chosen, on any cell the
thread can reach and with any pointer it holds. Destructions of `orc_ptr`s are
always possible and not counted. Registration is the successful part of
ThreadRegistry: threads register in the order of their tids, at any time. A
thread without `orc_ptr`s leaves its row and its `retcnt` as a successor with
the same tid finds them, so the reuse of a tid is covered.

### OrcPtr

What OrcGC simplifies, the sharing of indices: the `orc_ptr`s of one thread as a
program uses them, in scopes, in containers and as results. Each member function
is one action. Other threads see of it only one store to an `hp` entry, and the
part of the thread's state that it changes is the thread's own, so the steps of
others fall before or after. The engine appears as what it promises: another
thread may link an object at any time (`Publish`), and an unlinked or retired
object is deleted only when no hp of the thread has it (`Reclaim`). That a scan
finds such an hp is OrcGC's subject, and `CopiesGoUp` is what it needs for that.

| State | Code |
|---|---|
| `live`, `ref[v]` | the `orc_ptr`s in scope, and `ptr`, `idx`, `lnk` of each; index 0 after a move |
| `temp` | the `orc_unsafe_internal_ptr` of a `load()` on its way to an `orc_ptr` |
| `hp`, `usedHaz` | the thread's row of `hp`, and `tl[tid].usedHaz` |
| `status` | of an object: not there, new, linked at least once, retired by `clear()` |
| `failed` | the assertion of `getNewIdx()` has failed; nothing happens after it |

| Actions and helpers | Code |
|---|---|
| `Construct`, `MakeOrc`, `ConstructLoaded`, `Copy`, `Move` | the constructors and `make_orc()` |
| `Load` | `load()`, up to its last store in `hp[tid][0]` |
| `AssignLoaded`, `UnmarkLoaded` | `operator=` and `setUnmarked()` of a load |
| `Assign`, `MoveAssign` | the other two `operator=`, and `setUnmarked(orc_ptr&)`, which is the first of them up to mark bits; `CopyUp` is the branch they share |
| `SwapPtrs`, `Destroy` | `swapPtrs()`, `~orc_ptr()` |
| `Clean`, `Cleared`, `Take`, `Keep` | `cleanIdx()`, `clear()`, `getNewIdx()` with `protect_ptr()`, `protect_ptr()` with the old index |
| `Link` | a `store()` or `compare_exchange()` of a new object |

`Ops` is the set of operations the program uses. `"swap"` swaps any two
`orc_ptr`s, `"swapalike"` two with the same `lnk`.

### Memory, Reclaimer, ReclaimerClient

`Memory` is the state that a data structure and its manual reclaimer share: `hp`,
the state `mem[a]` of each address (none, used, retired, or retired twice), and
`since[a]`, the hps that have held `a` *ever since it was retired*. It says when
a reclaimer may delete: when `since[a]` is empty. A looser rule ("no hp holds it
now") would be wrong for these algorithms, because an hp that gets a retired
object is of no use to its thread, and a stricter one would not be kept by them.

`Reclaimer` is the abstract specification made of it: threads store to hps and
copy them upwards, `new` and `retire()` happen in any order, and `delete` happens
to a retired object with `since[a] = {}`.

`ReclaimerClient` is the program that drives the three detailed modules: threads
`protect()` what shared links lead to, in two steps with the test between them,
`protectPtrRelease()`, `swapPtrs()`, clear, exchange links and retire what was
there, without end. `valid` are the hps whose object the program may access.
Those functions are the same code in the three files.

### HazardPointers, PassThePointer, PassTheBuck

| Module | State | Actions |
|---|---|---|
| HazardPointers | `kept[t]` is `retiredList`; `scan[t]` the object and hp it looks at | `Retire`, `Look` (one hp), `DeleteObj`, `Clear` |
| PassThePointer | `kept` are the handovers, `scan[t]` the object in hand and the place | `Retire`, `Look`, `Handover`, `LookAgain`, `DeleteObj`; `Clear` and `ClearOne` with `TakeLook` and `Take` |
| PassTheBuck | `kept` are the handovers with their versions, `scan[t]` the ValueSet and the place | `Retire`, then `Version`, `Value`, `Same` (the read of a handover), `Look`, `Give`, `Retry`, `Get`, `DeleteAll`; `Clear`, `ClearOne` |

Each has one step per access to a shared atomic and implements `Reclaimer`
(`Promise`). The versions of PassTheBuck are drawn from a small set, always one
that no thread has read, so that a version never comes back under a reader.

### LockFree and the data structures

`LockFree` has what the data structures have in common.

- Calls: `Program[structure][t][k]` is the set of calls from which call `k` of
  thread `t` is chosen.
- Memory: addresses that are used again. With `orc = FALSE` it is `Memory`, and a
  node may be deleted when `Reclaimer` allows it; with `orc = TRUE` a node may be
  deleted when no link and no `orc_ptr` leads to it. A node that *may* be deleted
  is one that the next allocation may take, so deletion needs no step. `protect()`
  and `load()` are one step: the reclaimers' modules have their loops.
- Linearizability: `configs` is the set of all ways in which the calls so far can
  have taken effect in some order, each between its start and its end. A return
  value that no way explains leaves it empty.

| Module | Code | Actions |
|---|---|---|
| TreiberStack | `stacks/TreiberStack*.hpp` | `PushSteps`, `PopSteps` |
| MichaelScottQueue | `queues/MichaelScottQueue*.hpp` | `EnqueueSteps`, `DequeueSteps` |
| TurnQueue | `queues/TurnQueue*.hpp` | the two loops over the requests, `giveUp()`, `searchNext()`, `casDeqAndHead()` |
| LCRQueue | `queues/LCRQueue*.hpp` | tickets, the double-word CASes of a cell, `fixState()`, closing, appending and leaving a ring |
| KoganPetrankQueue | `queues/KoganPetrankQueueOrcGC.hpp` | announcing, `help()` of every older phase, the three steps of each operation |
| MichaelHarrisList | `lists/MichaelHarrisLinkedListSet*.hpp` | `FindSteps`, `AddSteps`, `RemoveSteps` |
| HarrisList | `lists/HarrisOriginalLinkedListSetOrcGC.hpp` | `search()` that unlinks a chain of marked nodes at once |
| HerlihyShavitList | `lists/HerlihyShavitHarrisLinkedListSetOrcGC.hpp` | poisoned links, and a `contains()` that restarts on one |
| TBKPList | `lists/TBKPLinkedListSetOrcGC.hpp` | announced operations, their helping, success bits and versioned links |
| SkipList | `skiplists/HerlihyShavit*.hpp` | `FindSteps`, `AddSteps`, `RemoveSteps`, `ContainsSteps`; `root.poisons` tells the two files apart |
| NatarajanTree | `trees/NatarajanTree*.hpp` | `SeekSteps`, `InsertSteps`, `ReplaceSteps`, `RemoveSteps`, `cleanup()` |

`ListSet` has the nodes, marks and keys that the three Harris lists share. The
groups of actions named above, one for each method, are the disjuncts of a module's
`Internal`; a call begins with an action that has the method's name. Where a file exists in two variants, the differences are
conditions on `orc` inside the actions: which hps are stored to, when the node is
retired, and what is poisoned.

### The other modules

`MCOrcGC`, `MCOrcGCCases`, `MCOrcPtr`, `MCReclaimers`, `MCQueues` and `MCSets` have
the constants and instances of the runs; the last three and `MCOrcGCCases` choose
a case at the start of a behaviour, and each case is an instance of a module.
`OrcGCSafety` extends `OrcGC` with the inductive invariant behind `NoUseAfterFree`
and the conditions it needs; `MCOrcGC` extends it, so that TLC checks it too.
`ThreadRegistryProofs`, `OrcGCProofs`, `OrcPtrProofs`, `ReclaimerProofs`,
`HazardPointersProofs`, `PassThePointerProofs`, `PassTheBuckProofs` and
`LockFreeProofs` hold the proofs. `LockFreeProofs` extends both `TreiberStack` and
`MichaelScottQueue`, which is why some names of the latter begin with Q. The definitions
whose comment begins with "Mutant" are plausible bugs: each property of a run is
violated when one of them replaces the definition it is a variant of.

## Runs

| Run | Instance | Question |
|---|---|---|
| `registry` | 3 threads, 3 entries, unbounded births and deaths | Are tids unique, covered by `maxTid`, and always available; does a registration end? |
| `orcgc` | 2 threads, any 2 and any 3 operations, 2 objects, 1 root | Is the engine right whatever the clients do, and does every `retire()` return? |
| `orcgc_cases` | `readers`: 3 roots emptied while a reader loads up to 3 pointers; `chain`: 2 threads walk and cut a list of 3 objects; `three`: 3 threads, any 2, 1 and 1 operations; `relink`: 3 threads, an object linked again during a scan for it | Do displaced handovers, the deletion of a whole list, a third thread between scan and hand-over, or an outdated scan lose or free an object? |
| `orcptr` | 3 `orc_ptr`s, 2 objects, indices 0 to 4, any sequence of operations | Are shared indices counted, and is what an `orc_ptr` holds protected? |
| `reclaimers` | 6 cases: each reclaimer with 2 threads (PassThePointer also with 3), 1 or 2 hps, 2 or 3 objects, unbounded programs | Does each reclaimer implement `Reclaimer`, keep each retired object in one place, and end its calls? |
| `queues` | the stack and the queues, over a manual reclaimer and over OrcGC, 2 threads with up to 5 calls, 8 addresses; LCRQ with rings of 2 and of 1 | Linearizable, safe clients of their memory, lossless and lock-free? |
| `sets` | the lists, the skip lists and the trees, each with neighbouring keys, 2 threads | Linearizable, safe clients of their memory, lossless? |
| `orcgc_growth` | case `readers` with `maxHPs` still growing | violation, finding 1 |
| `orcgc_retire_one` | 2 threads, 3 objects: a decrement to zero that runs `retireOne()` before its CAS | violation, finding 2 |
| `turn_rollback` | a dequeuer of the Turn queue asleep in `giveUp()` | violation, finding 3 |
| `lcrq_lagging_tail` | head of the LCRQ passes a ring that tail leads to | violation, finding 4 |
| `tree_remove` | two removals of siblings in the tree over OrcGC | violation, finding 5 |

The properties, all stated and explained in the modules:

- `UniqueTid`, `MaxCoversLive`, `NeverFull`, `MaxNeverShrinks`,
  `RegistrationEnds` for the registry.
- `NoUseAfterFree`: no step accesses a deleted object, and no `orc_ptr` or
  protecting hp has one. For the data structures: no thread is about to access a
  node that its reclaimer may have deleted, or a null or poisoned address.
- `OneRetirer`: an object under retirement is in one place only - the hand of a
  thread, a handover, a `recursiveList` - and has BRETIRED. So it is never
  deleted twice, and the `fetch_add(-BRETIRED)` never borrows from the sequence.
- `CountIsLinks`: between operations the count is the number of links, although
  `compare_exchange()` increments late and the count may pass through values
  below zero.
- `NothingForgotten`: between operations an unlinked object waits in a handover
  or has an `orc_ptr` that will clear it. `AllReclaimed`: after the destructor
  no unlinked object is left.
- `SafeKept`: a step whose scans see every place, and whose nested work leaves
  `hp[tid][0]` alone, keeps `SafeInv`, the inductive invariant behind
  `NoUseAfterFree` and `CountIsLinks` (see Proofs). It is an action property
  because `SafeInv` itself fails where findings 1 and 2 happen, and the run
  `orcgc` has steps of the second kind.
- `RetireEnds`: `retire()` returns if the other threads make finitely many calls, as
  they do in every `Program`. Its loop restarts when the word of the object has changed
  or a hand-over has displaced another object, so that it might also chase the same
  objects for ever. This is not the wait-free bound that the comment of `retire()`
  promises, which the code does not have (see Observations).
- `UsedIsCount`: `usedHaz` of an index is the number of `orc_ptr`s that have it.
- `HeldIsSafe`: the hp at the index of an `orc_ptr` holds its pointer, so that no
  other `orc_ptr` overwrites it, and the object is not deleted. `PtrInv` is the
  inductive invariant of both.
- `CopiesGoUp`: an index above 0 gets the result of a load, a new object, or what
  a lower index of the thread holds, as the comment of `protect_ptr()` demands.
- `OnlyUnmarkForgets`: an object that was never linked has an `orc_ptr` that will
  retire it until it is linked or retired, except for the second observation below.
- `OnePlace`: a retired object is in one list, handover or hand.
- `Promise`: a reclaimer implements `Reclaimer`.
- `Linearizable`, `RetiredOnce`, and `NothingLost`: when all calls have ended,
  the structure contains what some sequential order of the calls leaves there.
- `NonBlocking`: of the threads that keep on reclaiming, always one ends its call;
  a thread that keeps taking steps in a stack or queue ends its calls when the
  others make finitely many. For the Turn and the Kogan-Petrank queue this is less
  than the wait-freedom that their comments claim, which is not checked.

### Bounds, and why they suffice

OrcGC: two threads already show the races of one thread that unlinks with one
that loads; the protocols have parties for at most three roles (who unlinks, who
protects, who links again or displaces), which the cases `three` and `relink`
provide. `MaxHaz` is 2 to 4: index 0, and one to three `orc_ptr`s, so that
copies to a higher index and several handovers of one row occur. `MaxRetCnt` is
2 or 3, so that `retireOne()` runs inside short programs, nested calls included;
with 9 it never runs, which keeps `relink` small. Counters
(`seq`, `cnt`, `retcnt`) are bounded only by the length of the programs; their
real widths (40, 22 and 31 bits) are out of reach of any run. `orcgc_cases` takes
objects and roots as symmetric: the actions do not tell them apart, and the
domains of the functions of a state keep a permutation within its case. Threads
are not symmetric: tids have an order.

`orcptr` has no bound on the length of a program. Three `orc_ptr`s are the least
with which one index is shared by two while a third competes for it, and four
indices beside 0 let copies climb until `getNewIdx()` fails, so its failure is
among the states checked. Two objects are needed for one `orc_ptr` to unprotect
the object of another. Variables and objects are symmetric: no action compares
them.

In the passing runs of OrcGC `maxHPs` starts at `MaxHaz`: the indices were all
used before. That is a state of the program after a warm-up, and it is where the
algorithm works. `orcgc_growth` is the case `readers` from a state in which
`maxHPs` has yet to grow.

The reclaimers' programs are unbounded; only their threads, hps and addresses are
few. Three addresses let a list or a row of handovers hold one object while
another is retired, two hps let `swapPtrs()` and `protectPtrRelease()` move a
protection past a scan, and the third thread of PassThePointer lets a handover go
from one row to another.

A data structure has two threads with two to seven calls between them, chosen for
it: short enough to be exhausted, long enough that an address is used again
(`Addrs` is near the number of nodes that are ever in use, 6 to 14), that a
helper finishes the operation of another, and that a ring is filled, closed and
left. `Ring` is 2 or 1, `Tries` 2, `Spins` 1 and `Reload` 2 where the
LCRQ has 1024, 10, 200000 and 1024. The skip list has two levels. Sets start
filled with one or two keys, so that the first removal finds a neighbour. Phases and
tickets are unbounded numbers: the programs keep them small.

Some programs are narrowed to where the code works. No thread of the LCRQ
programs enqueues after another has moved head past tail, and no removal of a
sibling competes with another in the tree: findings 4 and 5 are those programs.
The programs of the stack pop an empty stack at most once (see the observations).
With a ring of one cell an enqueuer and a dequeuer can chase each other without
end over an unsafe cell, which the programs avoid too; with 1024 cells that needs
as many tickets.

Deadlock is checked in all runs. A thread of OrcGC that has ended its program can
only drop its `orc_ptr`s and the last one runs the destructor, after which `Down`
stutters. `Stopped` is the end of OrcPtr's program after a failed assertion. In
`MCQueues` and `MCSets` a behaviour stutters when all calls are `Done`.

### Fairness

`FairSpec` of ThreadRegistry assumes weak fairness of `Register(t)`, that of
OrcGC weak fairness of `Call(t)`: a thread inside a library call is scheduled
again and again. Both are one condition per thread, not per step, since a thread
has one next step. Nothing obliges a thread to start a call, to drop an
`orc_ptr` or to end.

`NonBlocking` needs no fairness of the specification: it says itself which thread
has to go on. It is checked under any scheduling, an adversary's included, which
is what lock-freedom means.

## Findings

1. `tryHandover()` reads `maxHPs` once (`OrcPTP.hpp:324`). During its scan
   another thread can take a new index, raise `maxHPs`, copy its protection there
   and overwrite the old hp. The scan misses the pointer and the object is
   deleted while an `orc_ptr` holds it (`orcgc_growth`).
2. `decrementOrc()` protects the object in `hp[tid][0]`, decrements, and at every
   `MAX_RETCNT`-th decrement runs a whole `retireOne()` before its CAS
   (`OrcPTP.hpp:634,639`). A `retire()` in there overwrites `hp[tid][0]`, in
   `clearBitRetired()` or when it deletes an object with a link. If the count was
   zero, another thread can then delete the object, and the CAS uses freed memory
   (`orcgc_retire_one`).
3. `dequeue()` of the Turn queue over OrcGC rolls a request back with a raw
   `Node*` (`TurnQueueOrcGC.hpp:197,206`). If that node was deleted and its address
   is the item the dequeuer is given, the request looks open, a helper assigns a
   second item, and the first is lost (`turn_rollback`).
4. `dequeue()` of the LCRQ moves head to the next ring and retires the old one
   (`LCRQueue.hpp:269`) though tail may still lead to it. An enqueuer then uses the
   deleted ring; over OrcGC the ring is kept but its `next` is poisoned, and the
   enqueuer follows it (`lcrq_lagging_tail`).
5. `innerRemove()` of the tree over OrcGC compares the leaf with an edge that
   still has its flag (`NatarajanTreeOrcGC.hpp:460`), takes its own leaf for one
   that is gone, and returns success although the key is still there
   (`tree_remove`).

Finding 2 needs three objects and two roots to which one of them moves, more than
`orcgc` has, and a `retireOne()`, which the cases of `orcgc_cases` do not bring
about at that point.

### Observations

Seen while modelling; no run of the project is kept for them.

- `operator=(orc_unsafe_internal_ptr&&)` clears the old object before the loaded
  pointer is copied from `hp[tid][0]` (`OrcPTP.hpp:536`). If the old object was
  never linked, `clear()` retires it, and what happens inside `retire()` overwrites
  `hp[tid][0]` as in finding 2: the loaded object can be deleted by another thread.
  TLC needs four objects to show it.
- `setUnmarked(orc_unsafe_internal_ptr&&)` does not call `clear()` when it
  reuses its index (`OrcPTP.hpp:567`): an object that was never linked is never
  reclaimed. `OnlyUnmarkForgets` names this as its exception; the programs of
  OrcGC use `setUnmarked()` in `chain` only, whose objects were all linked.
- A copy of an `orc_ptr` with a lower index takes an index above it
  (`OrcPTP.hpp:500`), never one below, so indices only climb. Three `orc_ptr`s
  with different indices, rotated by `o = c; c = a; a = o;`, climb by one index in
  every round, and after about sixty `getNewIdx()` (`:157`) reports that `MAX_HAZ`
  is not enough to a thread that has three. `EnoughIndices` of OrcPtr states what
  one would expect.
- `swapPtrs()` of two `orc_ptr`s leaves `lnk` behind (`OrcPTP.hpp:424`), so after
  a swap of a new object with a loaded one the first is in an `orc_ptr` that takes
  it for linked and is forgotten. `orcptr` swaps only `orc_ptr`s with the same
  `lnk`, as the one caller, the tree, does; with `"swap"` in `Ops` TLC finds it.
- `swapPtrs()` of the manual reclaimers stores to `hp[from]` first: between the two
  stores its old pointer is in no hp. `ReclaimerClient` takes it out of `valid`.
- The header of PassThePointer gives a bound on unreclaimed objects
  (`PassThePointer.hpp:35-36`) that leaves out the objects in the hands of threads.
- The comment of `retire()` says "wait-free bounded" (`OrcPTP.hpp:219-222`). With
  threads that go on making calls there is no bound on its loop (`:249-262`): an
  object that is linked, read and unlinked during every scan has another word after
  each (`:258`), and every hand-over may find an object that another thread has left
  in the entry (`:256`). `RetireEnds` therefore says only that `retire()` ends when
  the others make finitely many calls. No run shows the endless loop: every round
  of the first kind takes a new sequence number, so no state comes back.
- The ValueSet of `liberate()` may have to hold one entry more than its array has
  (`PassTheBuck.hpp:56`); it is a set in the model.
- `NatarajanTree.hpp` publishes pointers with their flag and tag, which `retire()`
  does not find, and `cleanup()` retires only two of the nodes it unlinks. The
  manual variant of the model therefore never uses memory again, and
  `NoUseAfterFree` says nothing of it.
- `replace()` and `put()` of `NatarajanTreeOrcGC.hpp` compare with a leaf that may
  have its flag (`:498`); `get()` ignores the level of a sentinel key; the `put()`
  and `rangeQuery()` of that file do not compile when they are instantiated.
- `helpRemove()` of the TBKP list reads `curr->key` (`:331`) without the test for
  the tail that its sibling has.
- `HerlihyShavitHarrisLinkedListSetOrcGC.hpp:36` calls `contains()` wait-free; it
  has a `goto retry` (`:125`) for poisoned links.
- `TreiberStackOrcGC.hpp` never initializes its member `sentinel` (`:49`). The first
  `pop()` of an empty stack takes the sentinel's node off and leaves head at null; the
  next one compares that with the uninitialized pointer (`:81`) and, unless this
  happens to be null, dereferences null. TLC finds it with two calls of `pop()`.
- `~TurnQueue()` deletes the sentinel and then drains the queue through it
  (`TurnQueue.hpp:138-143`).

## Proofs

All theorems hold for every number of threads, objects, roots and indices, every
initial structure and every program (two results of OrcGC: every program without
`setUnmarked()` of a load). They assume only the named ASSUMEs of the
modules: there is a thread and an index beside 0, addresses are not `Null` or
`Poison`, roots are not objects, an object linked at the start has finitely many
links; for the registry, that no more than N threads are alive; for OrcPtr, that a
thread has finitely many `orc_ptr`s; for the reclaimers, the stack and the queue that there is
a thread, an hp and an address (for the queue over a manual reclaimer, two hps); and for the stack and the
queue that the program of a thread is a finite sequence of calls.

**ThreadRegistryProofs.** `UniqueTid` and the others are not inductive. The
invariant is `RegistryInv == TypeOK /\ OwnInv /\ Crowd`. `OwnInv` says that an
entry of `usedTID` is TRUE exactly when one thread owns it, and what a thread
knows of its locals; `UniqueTid` and `MaxCoversLive` follow. `Crowd` is a counting
argument: at most N-k threads own or look at an entry from k on. A thread
passes entry k only because another thread owns it, which stays behind, so no
thread gets past the last entry: `NeverFull`. `MaxNeverShrinks` holds because
the local `curMax` of a thread at its CAS is at most its entry.

**OrcGCProofs** proves first `LocalsInv`: types, and for every thread that its
locals fit its place in the nested calls - inside the loop of `retire()` there
is an object in hand and `retireStarted` is set; outside, the list is empty; a
step that will follow a pointer has the address of an object; and the place to
which `retire()` returns finds its operands too (`retTo`). The proof has one
case per action for the thread that moves, and `FrameStep` for the others.

Its second part proves `RetireInv`, whence `OneRetirer`. The argument: BRETIRED
is set only by a CAS against a word read with the bit clear, and the word of
freed memory has it set until the address is used again (`WordInv`). So the
CAS succeeds only on an object that exists and is in no hand, handover or list,
and its winner takes it into its hand. After that the object only moves: each
exchange of a handover, each append to and each pop from a list is a move, and
the lemmas `PutHand`, `ClearHand`, `PutEntry`, `ClearEntry`, `PutList` and
`PopList` show that a move keeps every object in one place. The bit is cleared
only by the thread that has the object in hand, and what was deleted was in one
place only.

One assumption of the model matters for `WordInv`: freed memory reads as BRETIRED
until it is allocated again. `NoUseAfterFree` says that no step reads it.

The second half of the module is about the other direction: what should be
deleted will be. `NothingIsForgotten` and `EverythingIsReclaimed` derive
`NothingForgotten` and `AllReclaimed` from two invariants.

- `KeptInv` (`KeptInvariant`) says why an object whose count is zero is not lost on
  its way. With BRETIRED it is in a hand, a handover or a list (`RetirerInv`).
  Without, some thread is *responsible* for it (`ResponsibleInv`): it has an
  `orc_ptr` for which `clear()` will be called, or is on its way to one or in that
  `clear()`; or it has read exactly the present word of the object and will try the
  CAS that sets BRETIRED. The second kind is the delicate one. A CAS fails only if
  the word has changed, and then the object either has a link, or BRETIRED, or whoever
  brought the count back to zero has read the new word and is responsible in turn.
  A decrement may sit out a whole `retireOne()` between its `fetch_add` and its CAS
  (`Decides`), and a nested one too. The bit is given up only in
  `clearBitRetired()`, which looks at the word that its `fetch_add` returns.
  `ClearsOld` adds that an assignment has the old object of an `orc_ptr` that is not
  linked, so that it can clear it. This is what `setUnmarked()` of a load does not
  do (the second observation), whence the hypothesis `NoUnmarked`.
  Findings 1 and 2 do not matter here: what they break is `NoUseAfterFree`.
- `DownInv` and `SweepInv` (`SweepInvariant`) are about the destructor: one thread
  is left, without an `orc_ptr`; an entry of `handovers` is only ever filled at a
  place below `maxThreads` and `maxHPs`, which are what the destructor visits, and
  `maxHPs` and `maxThreads` only grow, so that what a scan has read of them stays in
  bounds; a nested `retire()` of the destructor fills none. So when `left` is empty
  so are all handovers.

Its third part proves that nothing is used after it is freed. This is not true of
the code without conditions (findings 1 and 2), and the proof says which two are
enough. Both are about single steps:

- `ScansCover`: while a thread scans, `maxHPs` does not change, and it is not 0 when
  the scan begins. This is what `OrcPTP.hpp:324` relies on; finding 1 breaks it.
- `Hp0Stays`: a `retire()` inside an assignment, or inside `retireOne()` while a
  decrement that has found a count of zero waits for its CAS, leaves `hp[tid][0]`
  as it is. Finding 2 and the first observation break it.

`StepsKeepSafe` says that a step under both keeps `SafeInv`, `SafeInvariant` that
`SafeInv` holds as long as all steps were such, and `SafeReclamation` and
`CountsAreLinks` derive `NoUseAfterFree` and `CountIsLinks` from it.
`SafeBeforeRetireOne` gets rid of the conditions: if all indices are in use from
the start (`InitMaxHPs = MaxHaz`) and no program assigns, `NoUseAfterFree` holds as
long as no thread has come to its first `retireOne()`. The case `relink` is an
instance of it.

The parts of `SafeInv`, each needed for the next:

- `CountInv`: the count of an object is the number of links to it, plus the calls
  that have counted a link that is not there yet (`Early`) or not yet uncounted one
  that is gone (`Owed`, `OwedInside`), minus the `compare_exchange()`s that have
  made a link and not counted it (`Late`). Links in an object that is being deleted
  do not count any more.
- `HpInv`: what a thread relies on (`Guarded`) is in the hp it relies on: index 0
  for what it loads, decrements or gives up (`Temporary`), the index of an `orc_ptr`
  for the rest. `OperationInv` and `RowInv` say what the locals of an operation and
  of a scan refer to.
- `WordOrderInv`: words only move on; the sequence number makes a word that has
  changed differ for ever from the one that a scan began with.
- `ScanInv` is the argument of the algorithm. While the word of an object is the
  one that the scan for it began with, whoever protects the object is at a place the
  scan will still visit. A new protection can only come from a link or from a
  protection at a lower index of the same thread. A link means that the count
  is not zero, so the word has changed, unless it is a `Late` link; that of a
  `compare_exchange()` whose thread has the object in an `orc_ptr` which the
  scan has yet to find (`Anchored`). A copy goes upwards, where the scan still
  has to go. So when the scan has visited all places and the word is still the
  same, nobody protects the object and no link leads to it.
- `DoomedInv`: an object that does not exist, or that a thread has begun to
  delete, has a count of zero and is protected by nobody. `NoUseAfterFree` follows:
  every step that accesses an object has it in a place that is `Guarded`, in hand
  (`OneRetirer`), or in the destructor (`DownInv`).

The proof has a lemma per action and part. Most actions are *quiet* in most parts,
and lemmas on the frame treat them together.

**OrcPtrProofs** proves `PtrInv`, whence `UsedIsCount` and `HeldIsSafe`. Each
follows only from the other: an index is given a new pointer when its count says
that no other `orc_ptr` has it, which is true only if the counts are right; and
the counts move with `orc_ptr`s that must not be there when an index is 0 or a
variable is out of scope (`ScopeInv`). Most operations take a share away and add
one, so the proof counts the *other* users of an index: `CleanCount` says that
after `cleanIdx()` the count of each index is the number of other `orc_ptr`s with
it, whether the old one was counted or not, and `CountAfter` adds the new share.
`SafeAfter` shows that a store to an entry that no other `orc_ptr` has leaves
their protections alone. `TakeStep`, `KeepStep` and `ShareStep` put these
together for the three things that a member function can do with an index, and
each action is one of them. `CopiesGoUp` follows from the same shape: a store
to an index above 0 is one of those three.

**ReclaimerProofs** and **HazardPointersProofs** prove `HPInv`, whence
`NoUseAfterFree`, `OnePlace` and the refinement of `Reclaimer`. The invariant has
three parts. `ProgramInv`: a link leads to an object of its own that is not
retired, until one thread has unlinked it and is about to retire it, and what a
thread may access is in use, or retired with its hp in `since`. `ListInv`: the lists
hold the retired objects, each once. `ScanInv`: an hp that the scan for an object has passed is not in `since` of
it. The last one is the argument of the algorithm: an hp enters `since` only when
the object is retired or by a copy from a *lower* hp, so what the scan has passed
stays out, and when it has passed all hps `since` is empty, which is what
`Reclaimer` asks of a deletion. Hence the order of `protectPtrRelease()`, upwards,
and the direction of the scan are both needed. `ReclaimerProofs` has the part about
`ReclaimerClient`, which the reclaimers share.

**PassThePointerProofs** proves the same three results for PassThePointer, from
`PTPInv`. Here an object that is being scanned for changes hands: whoever finds it in
an hp leaves it beside that hp, and goes on, from the same place, with what was
there. `HandoverInv` is what makes this right: the object in handover `(i, j)` has
been in none of the hps before `(i, j)` ever since it was retired, whichever threads
looked at them. So the thread that takes it over need not start again, and the owner
of the row, which takes it in `clear()`, starts at its own row. `PlaceInv` says that
every retired object is in one handover or in one hand; the lemma `Swapped` shows
that an exchange keeps it so.

**PassTheBuckProofs** proves them for PassTheBuck, from `PTBInv`. The places are as in
PassThePointer, but a liberator moves objects with a DCAS on a handover that it has
read in three steps, and may lose it. Two parts of the invariant carry the argument.
`HandoverInv`: as long as the version in the handover is the one read, so is the
value, and if the thread is about to take that value, the hp beside it has not held
it ever since it was retired. `Claims` is about the liberator that goes on with an
object it has found in the hp, after its third DCAS has failed: it may do so only if
the hp has not held the object ever since it was retired. Suppose it has (`Held`).
Then no other liberator finds in this hp an object of its own, so once the handover
has changed under the first DCAS, no other liberator is about to leave an object
there with a version that is still valid; what makes the second DCAS fail is
therefore a liberator that takes the handover and leaves none; and then nothing can
change it before the third one, which succeeds. The break that the code takes when
the third read of the handover is not null is for the same reason one that only a
liberator takes whose object the hp has not held all the time. `NewerFacts` shows
that there is always a version that no liberator has read, so the guard of the model
on versions blocks nobody.

**LockFreeProofs** proves `Linearizable` and `RetiredOnce` first for the stack over a
manual reclaimer, that `pop()` reads no deleted node (`PopReadsNoDeleted`), and that
no item is lost, for any number of threads, hps and addresses and any programs. `configs` is the set of
all ways in which the calls can have taken effect, and the proof follows one of them
through it. `Reached[k]` is what `configs` becomes when at most k of the pending
calls take effect (induction over k is done by hand, with the least k for which a
claim fails). The invariant says that the nodes from the sentinel up form a chain
`f[1]`, ..., `f[n]` that ends in head, and that the state in which the stack has the
items of the chain, and those calls have their results whose CAS has succeeded or who
have found head at the sentinel (`Now`), is in `Reached[k]`, where k counts the calls
that have come that far and not returned (`Ahead`). A CAS then adds one effect to
`Now`, and a return drops the result from it. Why a CAS of `pop()` that succeeds is
right is the ABA argument: the node in head is the one that the thread protects, it
has been in use since it was read (`Seen`: otherwise it is retired, and its hp, which
is in `since`, keeps it from being pushed again), so its `next` is still the one that
was read. `Apart` says that a node that is being pushed or has been popped is in the
hands of one thread, which is why it is retired once. `StackLosesNothing` says what
is left when all calls have returned: no call is then under way, so `Now` itself is
in `configs`, and what `Contents` finds by following the links from head is the chain
(`ChainIs`).

Its second part proves the same for the Michael-Scott queue in both variants, for any
number of threads and addresses, any programs, and, over a manual reclaimer, two hps or
more (`MichaelScottQueue.hpp:55` asks for two). The invariant, `QueueInv`, has a chain
`f[1]`, ..., `f[m]` from head on, with tail at `f[k]`, where m is k or k+1 (`Queued`).
What makes the queue harder than the stack is where a call takes effect. One would
like `enqueue()` to take effect when it links its node, but `dequeue()` compares head
with tail and answers "empty" although a node has been linked and tail not moved yet.
So the queue has the items up to tail only, and `enqueue()` takes effect in the step
that moves tail, which a helper may take (`TailMoves`, `EnqHelpMoves`). That is right
because of `Linking`: tail lags behind by one exactly if there is a thread that has
linked, is about to move tail, and has in `tail` the value of the shared one
(`Linker`), and there is at most one such thread. When somebody moves tail, that
thread turns into one whose call has taken effect and whose own CAS will fail
(`EnqSwingFails`). It will fail because tail never returns to a node while an hp or an
`orc_ptr` holds it (`Holds`): a node that a thread keeps is never used again (`Kept`),
and a kept node with a successor that is not tail never is tail again (`MovesOn`). `dequeue()` takes effect
with its CAS, or in the step that compares head with tail if they are equal
(`DeqTailEnds`): the node it has read as head may be outdated then, but `QSeen` says
that a kept node is either still the sentinel or no longer in the queue, and tail is
in it. For the CAS it says besides that the successor it read is the one the sentinel
has, and that it has been kept since; so the item is read from a node that has not been
deleted (`QueueReadsNoDeleted`), although another `dequeue()` may have taken that
node out of the queue meanwhile.

The two variants differ in when an address is used again. A manual reclaimer may delete
a retired node that no hp has held since; OrcGC may delete what neither the roots nor
the `orc_ptr`s lead to. For the latter, `LiveIsClosed` says that what they lead to
(`QLive`) is closed under the links, `QueueIsLive` that it has the chain, and
`FreshNode` that the node of a new call is therefore in nobody's hands. Besides,
`dequeue()` poisons the link of the sentinel that it has taken out, which a slower
thread may still read: `Grows` says that links change only at the end of the queue
and in nodes that have left it, so that such a thread fails its CAS.

## Only model-checked

`NothingForgotten` and `AllReclaimed` of OrcGC are proved for programs without
`setUnmarked()` of a load; for the case `chain`, which uses it on objects that have
been linked, they are model-checked.
`NoUseAfterFree` and `CountIsLinks` are proved under the conditions
`ScansCover` and `Hp0Stays`; in general the first is false (findings 1 and 2). The
runs check both without the conditions, on instances in which `Hp0Stays` fails
and no object is freed too early all the same. `RegistrationEnds`, `RetireEnds` and `NonBlocking` are
liveness, which the proof system does not reach; `RetireEnds` shows termination
when the others make finitely many calls, not a bound on the steps. `OnlyUnmarkForgets` is checked in `orcptr`.
Of the data structures only the stack over a manual reclaimer and the Michael-Scott
queue are proved. The others are model-checked. So is the stack over OrcGC, on programs
that do not meet the fault of its uninitialized sentinel (see above): with it, the end
of the links is not where `root.sentinel` says.
The data structures are checked over the *promises* of the reclaimers, and the
reclaimers against the same promises, so the composition is covered without a run
of both together.

## Abstractions, and what is not modelled

- Steps are sequentially consistent. The code uses acquire, release and relaxed
  orders, for instance in `protect_ptr()`; weak-memory behaviours are not
  covered.
- Accesses of one thread that no other can see are joined to a shared access.
  In `tryHandover()` the reads of `maxThreads` and of `maxHPs` are two steps
  before the scan; in `retireOne()` they are one, while the code reads
  `maxThreads` after its own row and so may visit a row that has just been
  registered. `getNewIdx()` raises `maxHPs` in one step, as its loop makes no
  other difference.
- An object has one `orc_atomic` member. Links are unmarked: `getMarked()`
  bits concern the data structures.
- `exchange()` of `orc_atomic`, which no data structure calls, is left out.
- In OrcGC operations are started only with an index free, and no two `orc_ptr`s
  share an index; sharing and the error of `getNewIdx()` are in OrcPtr.
- OrcPtr leaves out what `retire()`, called by `clear()`, does to `hp[tid][0]`:
  that is in OrcGC (the first observation). It does not read an `orc_ptr` that was moved
  from, nor move one to itself.
- `poison()` reads and then stores; the model joins the two. The code's comment
  "This assumes no other thread will change the value after poisoned" puts the
  exclusion of other writers on the client.
- In the data structures, `protect()` and `load()` are one step (their last read),
  and an `orc_atomic` is a word whose store or CAS is one step: counts are OrcGC's
  subject. A descriptor of the Kogan-Petrank queue or the TBKP list is its value.
  An item is a number that occurs once. All threads of a structure are registered.
- Not modelled: the destructors of reclaimers and data structures, which run when no
  thread uses them; `rangeQuery()`; the `put()` of `NatarajanTreeOrcGC.hpp`, which
  does not compile; `addAll()`, whose result is the initial state of the sets; the
  benchmarks and their command line, which have no behaviour of the library.

## Plan

1. *Done*: ThreadRegistry with its proofs; OrcGC with its runs and the proofs of
   its locals and of exclusive retirement.
2. *Done*: OrcPtr with its runs and the proofs of its counts and protections.
3. *Done*: `Reclaimer`, the three manual reclaimers and their refinement of it;
   proved for each of them.
4. *Done*: the stack and the queues.
5. *Done*: the lists, the skip lists and the trees.
6. *Done*: `NoUseAfterFree` and `CountIsLinks` of OrcGC, proved under the two
   conditions that the code needs for them.
7. *Done*: `NothingForgotten` and `AllReclaimed` of OrcGC, proved for programs
   without `setUnmarked()` of a load.
8. *Done*: the stack over a manual reclaimer and the Michael-Scott queue in both
   variants, proved linearizable, and proved to have lost nothing at the end.
9. *Left*, proofs: the stack over OrcGC, the other queues and the sets. The lemmas
   about `Reached` and `Chain` serve for all of them.
