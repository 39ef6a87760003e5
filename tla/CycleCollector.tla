--------------------------- MODULE CycleCollector ---------------------------
(***************************************************************************)
(* The heap of one isolate and its cycle collector: the reference counted  *)
(* boxes of src/vendor/gcmodule (cc.rs, collect.rs), the Trace             *)
(* implementations of src/src/gc.rs and src/src/value.rs that tell the     *)
(* collector what a box holds, and gc::collect.                            *)
(*                                                                         *)
(* Three kinds of box hold script values:                                  *)
(*   Objs      arrays, objects, maps, sets, instances, closures and upvalue *)
(*             cells: Cc boxes, in the collector's list, traced;           *)
(*   Variants  an enum variant with a payload: an Rc box, not in the list, *)
(*             but the trace of whatever holds it goes on to its payload,  *)
(*             which is an object of its own (Rc<EnumVariant>);            *)
(*   Handles   futures, generators, native resources, tree-walker          *)
(*             functions: Rc boxes that may own values and are never       *)
(*             traced.                                                     *)
(*                                                                         *)
(* One thread runs everything, so a drop and a sweep run to their end with *)
(* no step of the program in between; they are many steps here because     *)
(* their order is what can be wrong.                                       *)
(***************************************************************************)
EXTENDS Integers, Sequences, FiniteSets

CONSTANTS Objs, Variants, Handles,   \* the boxes there is memory for
          Roots,                     \* places outside the heap: stack, globals
          Width,                     \* values a box can hold
          Nil                        \* no reference

ASSUME WidthAssumption == Width \in Nat \ {0}

Nodes == Objs \cup Variants \cup Handles
Slots == 1 .. Width
Empty == [i \in Slots |-> Nil]

VARIABLES
  root,        \* what each place outside the heap refers to
  ref,         \* what each box holds
  count,       \* the strong count of each box; 0: the box is free
  dropped,     \* boxes whose contents were dropped before the box
  drops,       \* references being dropped, innermost first
  phase,       \* "run"; "mark" and "drop" (a sweep); "panicked"
  borrowed,    \* objects with an outstanding mutable borrow, during a sweep
  gcRef,       \* the sweep's copy of the counts (GcHeader.prev)
  collecting,  \* objects flagged PREV_MASK_COLLECTING
  grey,        \* objects mark_reachable is about to revive
  toDrop,      \* what the sweep found unreachable and holds a clone of
  shared       \* history: a sweep ran while a variant had several owners

heap  == <<root, ref, count, dropped, drops>>
sweep == <<borrowed, gcRef, collecting, grey, toDrop>>
vars  == <<heap, phase, sweep, shared>>

Live == {n \in Nodes : count[n] > 0}

(* The references a box holds, in order. *)
Contents(n) == SelectSeq(ref[n], LAMBDA m : m # Nil)

(* What is found from the set "from" by following Succ.                   *)
Closure(from, Succ(_)) ==
  {n \in Nodes : \A S \in SUBSET Nodes :
     from \subseteq S /\ (\A m \in S : Succ(m) \subseteq S) => n \in S}

Held(n)   == {ref[n][i] : i \in Slots} \ {Nil}
Known     == {root[r] : r \in Roots} \ {Nil}
Reachable == Closure(Known, Held)

-----------------------------------------------------------------------------
(* Trace.                                                                  *)

(* Tracing one value: an object is reported, a variant is looked through   *)
(* to the object that is its payload, everything else is a no-op.          *)
Through(m) ==
  IF m \in Variants THEN ref[m][1] ELSE IF m \in Objs THEN m ELSE Nil

(* Tracing an object reports each value it holds, once for each slot; an   *)
(* object that is mutably borrowed reports nothing.                        *)
Traced(o) ==
  IF o \in borrowed THEN <<>>
  ELSE SelectSeq([i \in Slots |-> Through(ref[o][i])], LAMBDA m : m # Nil)

-----------------------------------------------------------------------------
(* The program.                                                            *)

Idle == phase = "run" /\ drops = <<>>

Plus(n) == [count EXCEPT ![n] = @ + 1]

(* An object is created (Cc::new).                                         *)
New(o, r) ==
  /\ Idle /\ count[o] = 0 /\ root[r] = Nil
  /\ root' = [root EXCEPT ![r] = o]
  /\ count' = Plus(o)
  /\ UNCHANGED <<ref, dropped, drops, phase, sweep, shared>>

(* A variant with a payload is created: the payload is a new object that   *)
(* holds a clone of m, and only the variant refers to it.                  *)
NewVariant(v, o, r, m) ==
  /\ Idle /\ count[v] = 0 /\ count[o] = 0 /\ root[r] = Nil
  /\ root' = [root EXCEPT ![r] = v]
  /\ ref' = [ref EXCEPT ![v][1] = o, ![o][1] = m]
  /\ count' = [count EXCEPT ![v] = 1, ![o] = 1, ![m] = @ + 1]
  /\ UNCHANGED <<dropped, drops, phase, sweep, shared>>

(* A future, a generator, a native resource that holds a clone of m.       *)
NewHandle(h, r, m) ==
  /\ Idle /\ count[h] = 0 /\ root[r] = Nil
  /\ root' = [root EXCEPT ![r] = h]
  /\ ref' = [ref EXCEPT ![h][1] = m]
  /\ count' = [count EXCEPT ![h] = 1, ![m] = @ + 1]
  /\ UNCHANGED <<dropped, drops, phase, sweep, shared>>

(* A clone of m is stored in an object; what was there is dropped.         *)
Store(o, i, m) ==
  /\ Idle /\ o \in Known \cap Objs /\ ref[o][i] # m
  /\ ref' = [ref EXCEPT ![o][i] = m]
  /\ count' = IF m = Nil THEN count ELSE Plus(m)
  /\ drops' = IF ref[o][i] = Nil THEN <<>> ELSE <<ref[o][i]>>
  /\ UNCHANGED <<root, dropped, phase, sweep, shared>>

(* A value is read into a place of the program: from a box it knows (of a  *)
(* variant that is the payload itself) or out of the payload of one.       *)
Readable == Known \cup {ref[v][1] : v \in Known \cap Variants}

Load(r, n, i) ==
  /\ Idle /\ n \in Readable /\ root[r] = Nil /\ ref[n][i] # Nil
  /\ root' = [root EXCEPT ![r] = ref[n][i]]
  /\ count' = Plus(ref[n][i])
  /\ UNCHANGED <<ref, dropped, drops, phase, sweep, shared>>

(* A place of the program goes away.                                       *)
Forget(r) ==
  /\ Idle /\ root[r] # Nil
  /\ root' = [root EXCEPT ![r] = Nil]
  /\ drops' = <<root[r]>>
  /\ UNCHANGED <<ref, count, dropped, phase, sweep, shared>>

(* One reference is dropped: its box loses a count, and at zero the        *)
(* contents are dropped in turn and the box is freed.                      *)
DropRef ==
  /\ drops # <<>>
  /\ LET n == Head(drops) IN
       /\ count' = [count EXCEPT ![n] = @ - 1]
       /\ IF count[n] = 1
          THEN /\ drops' = Contents(n) \o Tail(drops)
               /\ ref' = [ref EXCEPT ![n] = Empty]
               /\ dropped' = dropped \ {n}
          ELSE /\ drops' = Tail(drops)
               /\ UNCHANGED <<ref, dropped>>
  /\ UNCHANGED <<root, phase, sweep, shared>>

-----------------------------------------------------------------------------
(* The sweep.                                                              *)

(* An object that refers to p twice reports it once.                       *)
ReportedOnce(p, B) ==
  Cardinality({o \in (Live \cap Objs) \ B :
                 \E i \in Slots : Through(ref[o][i]) = p})

(* The references to p that tracing the objects of the list reports, when  *)
(* those of B are mutably borrowed.                                        *)
Reported(p, B) ==
  Cardinality({e \in ((Live \cap Objs) \ B) \X Slots :
                 Through(ref[e[1]][e[2]]) = p})

(* update_refs and subtract_refs: each object's count, less the references *)
(* the collector accounts for. A difference below zero wraps to a large    *)
(* count, so it only matters whether it is zero.                           *)
Subtracted(B) == [p \in Objs |-> count[p] - Reported(p, B)]

(* gc::collect begins; objects of B are mutably borrowed at that moment.   *)
Collect(B) ==
  /\ Idle
  /\ phase' = "mark"
  /\ borrowed' = B
  /\ gcRef' = Subtracted(B)
  /\ collecting' = Live \cap Objs
  /\ shared' = (shared \/ \E v \in Variants : count[v] > 1)
  /\ UNCHANGED <<heap, grey, toDrop>>

(* mark_reachable: an object with a reference the trace did not account    *)
(* for is kept, and what it reports is revived.                            *)
Mark(o) ==
  /\ phase = "mark" /\ grey = <<>>
  /\ o \in collecting /\ gcRef[o] # 0
  /\ collecting' = collecting \ {o}
  /\ grey' = Traced(o)
  /\ UNCHANGED <<heap, phase, borrowed, gcRef, toDrop, shared>>

(* revive without the test of the collecting flag.                         *)
ReviveAgain ==
  /\ phase = "mark" /\ grey # <<>>
  /\ collecting' = collecting \ {Head(grey)}
  /\ gcRef' = [gcRef EXCEPT ![Head(grey)] = IF @ = 0 THEN 1 ELSE @]
  /\ grey' = Traced(Head(grey))
  /\ UNCHANGED <<heap, phase, borrowed, toDrop, shared>>

Revive ==
  /\ phase = "mark" /\ grey # <<>>
  /\ LET o == Head(grey) IN
       IF o \in collecting
       THEN /\ collecting' = collecting \ {o}
            /\ gcRef' = [gcRef EXCEPT ![o] = IF @ = 0 THEN 1 ELSE @]
            /\ grey' = Traced(o) \o Tail(grey)
       ELSE /\ grey' = Tail(grey)
            /\ UNCHANGED <<gcRef, collecting>>
  /\ UNCHANGED <<heap, phase, borrowed, toDrop, shared>>

(* The boxes are not kept alive while their contents are dropped.          *)
UnreachableNoClone ==
  /\ phase = "mark" /\ grey = <<>>
  /\ \A o \in collecting : gcRef[o] = 0
  /\ phase' = "drop" /\ toDrop' = collecting /\ borrowed' = {}
  /\ UNCHANGED <<heap, gcRef, collecting, grey, shared>>

(* release_unreachable: a clone of every object that is still collecting   *)
(* keeps its box alive while contents are dropped.                         *)
Unreachable ==
  /\ phase = "mark" /\ grey = <<>>
  /\ \A o \in collecting : gcRef[o] = 0
  /\ phase' = "drop"
  /\ toDrop' = collecting
  /\ count' = [n \in Nodes |-> IF n \in collecting THEN count[n] + 1 ELSE count[n]]
  /\ borrowed' = {}
  /\ UNCHANGED <<root, ref, dropped, drops, gcRef, collecting, grey, shared>>

(* gc_drop_t: the contents of one of them are dropped.                     *)
DropContents(o) ==
  /\ phase = "drop" /\ drops = <<>>
  /\ o \in toDrop \ dropped
  /\ dropped' = dropped \cup {o}
  /\ drops' = Contents(o)
  /\ ref' = [ref EXCEPT ![o] = Empty]
  /\ UNCHANGED <<root, count, phase, sweep, shared>>

(* The clones go. The collector asserts that they were the last references *)
(* and panics if one was not.                                              *)
Release ==
  /\ phase = "drop" /\ drops = <<>> /\ toDrop \subseteq dropped
  /\ phase' = IF \A o \in toDrop : count[o] = 1 THEN "run" ELSE "panicked"
  /\ count' = [n \in Nodes |-> IF n \in toDrop THEN count[n] - 1 ELSE count[n]]
  /\ dropped' = {n \in dropped : n \in toDrop => count[n] > 1}
  /\ toDrop' = {}
  /\ collecting' = {}
  /\ gcRef' = [o \in Objs |-> 0]
  /\ UNCHANGED <<root, ref, drops, borrowed, grey, shared>>

-----------------------------------------------------------------------------
Init ==
  /\ root = [r \in Roots |-> Nil]
  /\ ref = [n \in Nodes |-> Empty]
  /\ count = [n \in Nodes |-> 0]
  /\ dropped = {} /\ drops = <<>> /\ phase = "run"
  /\ borrowed = {} /\ gcRef = [o \in Objs |-> 0]
  /\ collecting = {} /\ grey = <<>> /\ toDrop = {}
  /\ shared = FALSE

Program ==
  \/ \E r \in Roots :
       \/ Forget(r)
       \/ \E o \in Objs : New(o, r)
       \/ \E v \in Variants, o \in Objs, m \in Known : NewVariant(v, o, r, m)
       \/ \E h \in Handles, m \in Known : NewHandle(h, r, m)
       \/ \E n \in Readable, i \in Slots : Load(r, n, i)
  \/ \E o \in Objs, i \in Slots, m \in Known \cup {Nil} : Store(o, i, m)

Sweep ==
  \/ \E o \in Objs : Mark(o) \/ DropContents(o)
  \/ Revive
  \/ Unreachable
  \/ Release

Next ==
  \/ Program
  \/ DropRef
  \/ \E B \in {{}} \cup {{o} : o \in Reachable \cap Objs} : Collect(B)
  \/ Sweep

Spec == Init /\ [][Next]_vars

(* The collector is a function call: once begun it runs.                   *)
FairSpec == Spec /\ WF_vars(DropRef) /\ WF_vars(Sweep)

-----------------------------------------------------------------------------
TypeOK ==
  /\ root \in [Roots -> Nodes \cup {Nil}]
  /\ ref \in [Nodes -> [Slots -> Nodes \cup {Nil}]]
  /\ count \in [Nodes -> Nat]
  /\ dropped \subseteq Nodes /\ drops \in Seq(Nodes)
  /\ phase \in {"run", "mark", "drop", "panicked"}
  /\ borrowed \subseteq Objs /\ gcRef \in [Objs -> Int]
  /\ collecting \subseteq Objs /\ grey \in Seq(Objs) /\ toDrop \subseteq Objs
  /\ shared \in BOOLEAN

Occurrences(n, s) == Cardinality({i \in DOMAIN s : s[i] = n})

(* The strong references to n: in the program's places, in the boxes, in   *)
(* the drops that are on their way and in the sweep's own list.            *)
Owners(n) ==
  Cardinality({r \in Roots : root[r] = n})
  + Cardinality({e \in Nodes \X Slots : ref[e[1]][e[2]] = n})
  + Occurrences(n, drops) + (IF n \in toDrop THEN 1 ELSE 0)

(* Every box has exactly as many counts as it has owners, and nothing the  *)
(* program can reach is gone or has lost its contents, before, during and  *)
(* after a sweep (a sweep reclaims unreachable cycles only: gc.rs), and    *)
(* the assertion at the end of release_unreachable does not fail.          *)
(* It holds as long as no sweep met a variant with two owners: each owner  *)
(* reports the variant's payload, which has the one count for all.         *)
HeapSound ==
  /\ TypeOK
  /\ ~shared => /\ \A n \in Nodes : count[n] = Owners(n)
                /\ Reachable \cap dropped = {}
                /\ \A n \in Reachable : count[n] > 0
                /\ phase # "panicked"

(* A sweep takes exactly the objects that neither the program nor a handle *)
(* (which is never traced, whatever holds it) leads to. A cycle that such  *)
(* a handle kept is left for the sweep after the one that frees the handle. *)
SweepExact ==
  [][phase = "mark" /\ phase' = "drop" /\ ~shared
     => toDrop' = (Live \cap Objs)
                    \ Closure(Known \cup (Live \cap Handles), Held)]_vars

(* A sweep comes to its end, whatever cycles it meets.                     *)
SweepReturns == phase \in {"mark", "drop"} ~> phase \in {"run", "panicked"}

(* What gc.rs promises of a sweep, variants with several owners included:  *)
(* what the program reaches keeps its contents.                            *)
ReachableIsKept == Reachable \cap dropped = {}

=============================================================================
