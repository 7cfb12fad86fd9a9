------------------------------- MODULE MCSets -------------------------------
(***************************************************************************)
(* Instances of the lists, the skip list and the tree for TLC: a run       *)
(* checks each of Structures in each of its Variants, with the calls of    *)
(* Program.                                                                *)
(***************************************************************************)
EXTENDS Integers, Sequences, FiniteSets

CONSTANTS Structures, Variants, Program

VARIABLES structure, orc, root, node, hp, mem, since, pc, loc, call, calls, configs
vars == <<structure, orc, root, node, hp, mem, since, pc, loc, call, calls, configs>>

Threads == {0, 1}
One == <<1>>
JustTwo == <<2>>
OneTwo == <<1, 2>>
MH == INSTANCE MichaelHarrisList WITH N <- 2, Addrs <- 6, HPs <- 3, Filled <- JustTwo
Harris == INSTANCE HarrisList WITH N <- 2, Addrs <- 6, HPs <- 1, Filled <- JustTwo
HSH == INSTANCE HerlihyShavitList WITH N <- 2, Addrs <- 6, HPs <- 1, Filled <- JustTwo
TBKP == INSTANCE TBKPList WITH N <- 2, Addrs <- 6, HPs <- 1, Filled <- One
Skip == INSTANCE SkipList WITH N <- 2, Addrs <- 6, HPs <- 1, Filled <- One, MaxLevel <- 1
Tree == INSTANCE NatarajanTree WITH N <- 2, Addrs <- 14, HPs <- 5, Filled <- OneTwo

Calls(Op, Keys) == [op : Op, arg : Keys]
Sets(Keys) == Calls({"add", "remove", "contains"}, Keys)
Add(Keys) == Calls({"add"}, Keys)
Remove(Keys) == Calls({"remove"}, Keys)
Grow(Keys) == Calls({"add", "contains"}, Keys)
Two(p0, p1) == [t \in Threads |-> IF t = 0 THEN p0 ELSE p1]

ListProgram == Two(<<Sets({1, 2}), Sets({3})>>, <<Sets({2}), Sets({1, 2})>>)
Programs == [
    MichaelHarrisList |-> ListProgram,
    HarrisList |-> ListProgram,
    HerlihyShavitList |-> ListProgram,
    TBKPList |-> Two(<<Add({2}) \cup Remove({1})>>, <<Sets({1})>>),
    SkipList |-> Two(<<Sets({1, 2})>>, <<Sets({1, 2}), Sets({1})>>),
    NatarajanTree |-> Two(<<Calls({"remove", "put", "replace"}, {1, 2})>>, <<Grow({2, 3}), Grow({1, 2})>>)]

\* Two deletions of siblings, of which the one helps the other.
SiblingPrograms == [NatarajanTree |-> Two(<<Remove({1}), Calls({"contains"}, {1})>>, <<Remove({2})>>)]

Init ==
    /\ structure \in Structures /\ orc \in Variants
    /\ structure \in {"HarrisList", "HerlihyShavitList", "TBKPList", "SkipList"} => orc
    /\ CASE structure = "MichaelHarrisList" -> MH!Init
         [] structure = "HarrisList"        -> Harris!Init
         [] structure = "HerlihyShavitList" -> HSH!Init
         [] structure = "TBKPList"          -> TBKP!Init
         [] structure = "SkipList"          -> Skip!Init
         [] structure = "NatarajanTree"     -> Tree!Init
Done == Tree!Done
Next ==
    \/ structure = "MichaelHarrisList" /\ MH!Next
    \/ structure = "HarrisList" /\ Harris!Next
    \/ structure = "HerlihyShavitList" /\ HSH!Next
    \/ structure = "TBKPList" /\ TBKP!Next
    \/ structure = "SkipList" /\ Skip!Next
    \/ structure = "NatarajanTree" /\ Tree!Next
    \/ Done /\ UNCHANGED vars
Spec == Init /\ [][Next]_vars

Access(t) ==
    CASE structure = "MichaelHarrisList" -> MH!Access(t)
      [] structure = "HarrisList"        -> Harris!Access(t)
      [] structure = "HerlihyShavitList" -> HSH!Access(t)
      [] structure = "TBKPList"          -> TBKP!Access(t)
      [] structure = "SkipList"          -> Skip!Access(t)
      [] structure = "NatarajanTree"     -> Tree!Access(t)
Unsafe ==
    CASE structure = "MichaelHarrisList" -> MH!Deleted(MH!Live)
      [] structure = "HarrisList"        -> Harris!Deleted(Harris!Live)
      [] structure = "HerlihyShavitList" -> HSH!Deleted(HSH!Live)
      [] structure = "TBKPList"          -> TBKP!Deleted(TBKP!Live)
      [] structure = "SkipList"          -> Skip!Deleted(Skip!Live)
      [] structure = "NatarajanTree"     -> IF orc THEN Tree!Deleted(Tree!Live) ELSE {}
Contents ==
    CASE structure = "MichaelHarrisList" -> MH!Contents
      [] structure = "HarrisList"        -> Harris!Contents
      [] structure = "HerlihyShavitList" -> HSH!Contents
      [] structure = "TBKPList"          -> TBKP!Contents
      [] structure = "SkipList"          -> Skip!Contents
      [] structure = "NatarajanTree"     -> Tree!Contents

-----------------------------------------------------------------------------

\* What every call returns is explained by some order of the calls, each
\* between its start and its end.
Linearizable == configs # {}

\* No thread accesses a node that the reclaimer may have deleted.
NoUseAfterFree ==
    LET accessed == UNION {Access(t) : t \in Threads}
    IN  accessed \subseteq DOMAIN node /\ accessed \cap Unsafe = {}

\* No node is retired twice.
RetiredOnce == \A a \in DOMAIN mem : mem[a] # "twice"

\* When all calls have ended, the set has the keys that the calls have left
\* in it.
NothingLost == Done => Contents \in {c.abs : c \in configs}
=============================================================================
