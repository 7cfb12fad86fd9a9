--------------------------- MODULE ReclaimerClient ---------------------------
(***************************************************************************)
(* A program that uses a reclaimer: threads protect what shared links lead *)
(* to, copy and swap and clear their hps, and exchange links and retire    *)
(* what was there.  All of protect(), protectPtr(), protectPtrRelease()    *)
(* and swapPtrs() are the same code in the three reclaimers.               *)
(***************************************************************************)
EXTENDS Memory

CONSTANTS Links,      \* bound: the shared links
          Readers,    \* bound: the threads that protect objects
          Writers     \* bound: the threads that exchange links

VARIABLES
    link,       \* link[x]: what the std::atomic<T*> x holds
    kept,       \* what the reclaimer has of the retired objects
    valid,      \* the hps whose object the program may access
    pc,         \* the next step of a thread
    loc,        \* its locals in the functions of this module
    scan        \* its locals in the functions of the reclaimer

vars == <<mm, link, kept, valid, pc, loc, scan>>
program == <<link, valid, loc>>
reclaimer == <<kept, scan>>

At(t, l) == pc[t] = l
Goto(t, l) == pc' = [pc EXCEPT ![t] = l]
Locals(i, x, p) == [index |-> i, addr |-> x, ptr |-> p]
NoLocals == Locals(0, CHOOSE x \in Links : TRUE, Null)

InitClient ==
    /\ InitMemory
    /\ link = [x \in Links |-> Null]
    /\ valid = {}
    /\ pc = [t \in Threads |-> "idle"]
    /\ loc = [t \in Threads |-> NoLocals]

\* protect(): the pointer is protected when the link still holds it after
\* the hp does.
Protect(t) ==
    /\ At(t, "idle") /\ t \in Readers /\ Goto(t, "load")
    /\ \E i \in Index, x \in Links : loc' = [loc EXCEPT ![t] = Locals(i, x, Null)]
    /\ UNCHANGED <<mm, link, valid, reclaimer>>

ProtectLoad(t) ==
    LET l == loc[t]
        v == link[l.addr]
        same == v = l.ptr
    IN  /\ At(t, "load") /\ Goto(t, IF same THEN "idle" ELSE "store")
        /\ valid' = IF same /\ v # Null THEN valid \cup {<<t, l.index>>} ELSE valid
        /\ loc' = [loc EXCEPT ![t] = IF same THEN NoLocals ELSE [l EXCEPT !.ptr = v]]
        /\ UNCHANGED <<mm, link, reclaimer>>

\* Mutant: the link is not read again.
ProtectStoreOnce(t) ==
    /\ At(t, "store") /\ Goto(t, "idle")
    /\ Publish(t, loc[t].index, loc[t].ptr)
    /\ valid' = IF loc[t].ptr = Null THEN valid \ {<<t, loc[t].index>>}
                                     ELSE valid \cup {<<t, loc[t].index>>}
    /\ loc' = [loc EXCEPT ![t] = NoLocals]
    /\ UNCHANGED <<link, reclaimer>>

ProtectStore(t) ==
    /\ At(t, "store") /\ Goto(t, "load")
    /\ Publish(t, loc[t].index, loc[t].ptr)
    /\ valid' = valid \ {<<t, loc[t].index>>}
    /\ UNCHANGED <<link, loc, reclaimer>>

\* protectPtr() and protectPtrRelease(), as the structures use them: hp j
\* gets what a lower hp protects.
ProtectPtr(t) ==
    /\ At(t, "idle")
    /\ \E i, j \in Index :
         /\ <<t, i>> \in valid /\ CopyUp(t, i, j)
         /\ valid' = valid \cup {<<t, j>>}
    /\ UNCHANGED <<link, pc, loc, reclaimer>>

\* swapPtrs(): the pointer from hp `from' is in no hp for a while, so the
\* program may not rely on it; the other is in both if it moves up.
SwapPtrs(t) ==
    /\ At(t, "idle") /\ t \in Readers /\ Goto(t, "swap")
    /\ \E to, from \in Index :
         /\ to # from
         /\ loc' = [loc EXCEPT ![t] = [@ EXCEPT !.index = to, !.ptr = hp[<<t, from>>]]]
         /\ IF to < from THEN CopyUp(t, to, from) ELSE Publish(t, from, hp[<<t, to>>])
         /\ valid' = IF to < from /\ <<t, to>> \in valid
                     THEN valid \cup {<<t, from>>} ELSE valid \ {<<t, from>>}
    /\ UNCHANGED <<link, reclaimer>>
SwapBack(t) ==
    /\ At(t, "swap") /\ Goto(t, "idle")
    /\ Publish(t, loc[t].index, loc[t].ptr)
    /\ valid' = valid \ {<<t, loc[t].index>>}
    /\ loc' = [loc EXCEPT ![t] = NoLocals]
    /\ UNCHANGED <<link, reclaimer>>

\* The program puts a new object or none into a link, and retires the old one.
Exchange(t) ==
    /\ At(t, "idle") /\ t \in Writers
    /\ \E x \in Links, a \in {b \in Addr : mem[b] = "none"} \cup {Null} :
         /\ link' = [link EXCEPT ![x] = a]
         /\ Allocate({a} \ {Null})
         /\ IF link[x] = Null THEN UNCHANGED <<pc, loc>>
            ELSE Goto(t, "retire") /\ loc' = [loc EXCEPT ![t] = [@ EXCEPT !.ptr = link[x]]]
    /\ UNCHANGED <<valid, reclaimer>>

\* clear() sets the hps to null one after the other; clearOne() one of them.
ClearHp(t, i) ==
    /\ Publish(t, i, Null)
    /\ valid' = valid \ {<<t, i>>}
    /\ UNCHANGED <<link, loc, kept>>

Client(t) ==
    \/ Protect(t) \/ ProtectLoad(t) \/ ProtectStore(t) \/ ProtectPtr(t)
    \/ SwapPtrs(t) \/ SwapBack(t) \/ Exchange(t)

\* The place after hp <<it, ihp>> in a loop over all of them.
Following(it, ihp) == IF ihp + 1 < HPs THEN <<it, ihp + 1>> ELSE <<it + 1, 0>>

Retired == {a \in Addr : mem[a] = "retired"}

-----------------------------------------------------------------------------

\* What a thread has protected, and not released since, is not deleted.
NoUseAfterFree == \A s \in valid : mem[hp[s]] # "none"

\* Each retired object is in exactly one place, where P[a] are the places of a.
OneOf(P) == \A a \in Addr : Cardinality(P[a]) = IF mem[a] = "retired" THEN 1 ELSE 0

\* The memory behaves as the data structures rely on.
R == INSTANCE Reclaimer
Promise == R!Spec
=============================================================================
