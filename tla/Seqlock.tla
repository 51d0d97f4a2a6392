------------------------------- MODULE Seqlock --------------------------------
(* Seqlock<T> of feedback_tap.h: one writer, lock-free readers, a sequence     *)
(* number that is odd while the writer copies. The value is a set of Parts,    *)
(* copied in any order and one at a time on either side, so that a read may be *)
(* torn; the k-th store writes k into every part. seq_ is not wrapped: 2^31    *)
(* stores at 1 kHz take 24 days, inside one load.                              *)
EXTENDS Naturals

CONSTANTS Readers,      \* the threads that load
          Parts,        \* the words a value is copied by
          MaxTries      \* 16 in load()
ASSUME TriesAssumption == MaxTries \in Nat \ {0}

VARIABLES seq,          \* seq_
          data,         \* data_
          left,         \* the parts the store under way has not copied yet
          load,         \* what each load() holds in its locals
          got           \* what the last load() that returned true returned

sharedVars == <<seq, data, left>>
seqlockVars == <<seq, data, left, load, got>>

Whole(k) == [p \in Parts |-> k]
Odd == seq % 2 = 1
Locals(at, tries) == [at |-> at, s |-> 0, left |-> {}, out |-> Whole(0), tries |-> tries]
Idle == Locals("idle", 0)

LoadStates == [at : {"idle", "seq", "copy"}, s : Nat, left : SUBSET Parts,
               out : [Parts -> Nat], tries : 0..MaxTries - 1]

SeqlockTypeOK ==
    /\ seq \in Nat
    /\ data \in [Parts -> Nat]
    /\ left \in SUBSET Parts
    /\ load \in [Readers -> LoadStates]
    /\ got \in [Readers -> [Parts -> Nat]]

SeqlockInit ==
    /\ seq = 0 /\ data = Whole(0) /\ left = {}
    /\ load = [r \in Readers |-> Idle]
    /\ got = [r \in Readers |-> Whole(0)]
-----------------------------------------------------------------------------
(* store(), in the writer's thread.                                          *)
StoreBegin ==
    /\ ~Odd
    /\ seq' = seq + 1 /\ left' = Parts
    /\ UNCHANGED <<data, load, got>>
StorePart(p) ==
    /\ Odd /\ p \in left
    /\ data' = [data EXCEPT ![p] = (seq + 1) \div 2]
    /\ left' = left \ {p}
    /\ UNCHANGED <<seq, load, got>>
StoreEnd ==
    /\ Odd /\ left = {}
    /\ seq' = seq + 1
    /\ UNCHANGED <<data, left, load, got>>
-----------------------------------------------------------------------------
(* load(), in a reader's thread. A try ends at an odd seq_ or at one that     *)
(* moved during the copy; after MaxTries tries load() returns false.          *)
LoadBegin(r) ==
    /\ load[r].at = "idle"
    /\ load' = [load EXCEPT ![r] = Locals("seq", 0)]
    /\ UNCHANGED <<sharedVars, got>>

Retry(r) ==
    load' = [load EXCEPT ![r] = IF @.tries + 1 = MaxTries THEN Idle
                                ELSE Locals("seq", @.tries + 1)]

LoadSeq(r) ==
    /\ load[r].at = "seq"
    /\ \/ Odd /\ Retry(r)
       \/ ~Odd /\ load' = [load EXCEPT ![r].at = "copy", ![r].s = seq, ![r].left = Parts]
    /\ UNCHANGED <<sharedVars, got>>
LoadPart(r, p) ==
    /\ load[r].at = "copy" /\ p \in load[r].left
    /\ load' = [load EXCEPT ![r].out[p] = data[p], ![r].left = @ \ {p}]
    /\ UNCHANGED <<sharedVars, got>>

CopyDone(r) == load[r].at = "copy" /\ load[r].left = {}
MutUnmoved(r) == TRUE             \* mutant: seq_ is not read again after the copy
Unmoved(r)  == seq = load[r].s
LoadTrue(r) ==
    /\ CopyDone(r) /\ Unmoved(r)
    /\ got' = [got EXCEPT ![r] = load[r].out]
    /\ load' = [load EXCEPT ![r] = Idle]
    /\ UNCHANGED sharedVars
LoadAgain(r) ==
    /\ CopyDone(r) /\ ~Unmoved(r) /\ Retry(r)
    /\ UNCHANGED <<sharedVars, got>>

LoadStep(r) == LoadSeq(r) \/ (\E p \in Parts : LoadPart(r, p)) \/ LoadTrue(r) \/ LoadAgain(r)
Store == StoreBegin \/ (\E p \in Parts : StorePart(p)) \/ StoreEnd
SeqlockNext == Store \/ \E r \in Readers : LoadBegin(r) \/ LoadStep(r)
SeqlockSpec == SeqlockInit /\ [][SeqlockNext]_seqlockVars
-----------------------------------------------------------------------------
Stored == seq \div 2                     \* the stores that ended
Latest == INSTANCE Register WITH Values <- [Parts -> Nat], First <- Whole(0),
                                 reg <- Whole(Stored)

(* A load that returns true returns one whole value, the one stored last when *)
(* it returns: the seqlock implements an atomic register.                     *)
SnapshotIsAtomic == Latest!Spec
=============================================================================
