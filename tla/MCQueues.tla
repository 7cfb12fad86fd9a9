------------------------------ MODULE MCQueues ------------------------------
(***************************************************************************)
(* Instances of the stack and the queues for TLC: a run checks each of     *)
(* Structures in each of its Variants, with the calls of Program.          *)
(***************************************************************************)
EXTENDS LockFree

CONSTANTS Structures, Variants

Ring == 2
Tries == 2
Spins == 1
Reload == 2
Treiber == INSTANCE TreiberStack
MSQueue == INSTANCE MichaelScottQueue
TurnQ == INSTANCE TurnQueue
LCRQ == INSTANCE LCRQueue
TinyLCRQ == INSTANCE LCRQueue WITH Ring <- 1
KP == INSTANCE KoganPetrankQueue

CallOf(o, v) == {[op |-> o, arg |-> v]}
Enq(v) == CallOf("enqueue", v)
Deq == CallOf("dequeue", Null)
Push(v) == CallOf("push", v)
Pop == CallOf("pop", Null)
Two(p0, p1) == [t \in Threads |-> IF t = 0 THEN p0 ELSE p1]

\* Each item is enqueued once.  In the programs of LCRQueue no thread
\* enqueues after another has moved head past tail; LaggingPrograms do.
Programs == [
    TreiberStack |-> Two(<<Push(11), Pop, Push(12), Pop>>, <<Pop, Push(21), Pop>>),
    MichaelScottQueue |-> Two(<<Enq(11), Enq(12), Deq>>, <<Enq(21), Deq, Deq>>),
    TurnQueue |-> Two(<<Enq(11), Deq>>, <<Deq, Enq(21), Deq>>),
    LCRQueue |-> Two(<<Enq(11), Deq, Deq, Enq(12), Enq(13)>>, <<Deq>>),
    TinyLCRQueue |-> Two(<<Enq(11), Enq(12)>>, <<Enq(21), Deq>>),
    KoganPetrankQueue |-> Two(<<Enq(11), Deq>>, <<Enq(21) \cup Deq>>)]

\* A tail that lags behind head, and an enqueuer that reads it.
LaggingPrograms == [TinyLCRQueue |-> Two(<<Enq(11), Enq(12)>>, <<Deq, Deq, Enq(21)>>)]

\* A dequeuer that waits while the other thread makes all its calls.
SleepyPrograms ==
    [TurnQueue |-> Two(<<Enq(11), Deq, Deq>>, <<Enq(21), Enq(22), Deq, Enq(23), Deq>>)]

Init ==
    /\ structure \in Structures /\ orc \in Variants
    /\ CASE structure = "TreiberStack"      -> Treiber!Init
         [] structure = "MichaelScottQueue" -> MSQueue!QInit
         [] structure = "TurnQueue"         -> TurnQ!Init
         [] structure = "LCRQueue"          -> LCRQ!Init
         [] structure = "TinyLCRQueue"      -> TinyLCRQ!Init
         [] structure = "KoganPetrankQueue" -> KP!Init
Next ==
    \/ structure = "TreiberStack" /\ Treiber!Next
    \/ structure = "MichaelScottQueue" /\ MSQueue!QNext
    \/ structure = "TurnQueue" /\ TurnQ!Next
    \/ structure = "LCRQueue" /\ LCRQ!Next
    \/ structure = "TinyLCRQueue" /\ TinyLCRQ!Next
    \/ structure = "KoganPetrankQueue" /\ KP!Next
    \/ Done /\ UNCHANGED vars
Spec == Init /\ [][Next]_vars

\* Thread 1 begins when thread 0 has begun its last call.
SleepyNext == Next /\ (calls'[1] = 1 => calls'[0] = Len(Program[structure][0]))
SleepySpec == Init /\ [][SleepyNext]_vars

Access(t) ==
    CASE structure = "TreiberStack"      -> Treiber!Access(t)
      [] structure = "MichaelScottQueue" -> MSQueue!QAccess(t)
      [] structure = "TurnQueue"         -> TurnQ!Access(t)
      [] structure \in {"LCRQueue", "TinyLCRQueue"} -> LCRQ!Access(t)
      [] structure = "KoganPetrankQueue" -> KP!Access(t)
Live ==
    CASE structure = "TreiberStack"      -> Treiber!Live
      [] structure = "MichaelScottQueue" -> MSQueue!QLive
      [] structure = "TurnQueue"         -> TurnQ!Live
      [] structure \in {"LCRQueue", "TinyLCRQueue"} -> LCRQ!Live
      [] structure = "KoganPetrankQueue" -> KP!Live
Contents ==
    CASE structure = "TreiberStack"      -> Treiber!Contents
      [] structure = "MichaelScottQueue" -> MSQueue!QContents
      [] structure = "TurnQueue"         -> TurnQ!Contents
      [] structure = "LCRQueue"          -> LCRQ!Contents
      [] structure = "TinyLCRQueue"      -> TinyLCRQ!Contents
      [] structure = "KoganPetrankQueue" -> KP!Contents

-----------------------------------------------------------------------------

\* No thread accesses a node that the reclaimer may have deleted.
NoUseAfterFree ==
    LET accessed == UNION {Access(t) : t \in Threads}
    IN  accessed \subseteq Addr /\ accessed \cap Deleted(Live) = {}

\* When all calls have ended, the items in the structure are those that
\* the calls have left there, in their order.
NothingLost == IsLeft(Contents)

\* A thread that keeps taking steps ends its calls, if the others make
\* finitely many.
NonBlocking ==
    \A t \in Threads :
        []<><<pc[t] # pc'[t] \/ loc[t] # loc'[t]>>_vars => []<>(pc[t] = "idle")
=============================================================================
