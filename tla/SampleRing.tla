------------------------------ MODULE SampleRing ------------------------------
(* The ring of cycle samples between the RT thread and a drain thread, one     *)
(* atomic access per step, and the TelemetrySink the drain thread feeds        *)
(* (telemetry.cpp, telemetry_consumers.cpp). Four histograms of one kind are   *)
(* modelled by one; the CSV and the console line are left out.                 *)
EXTENDS Integers, Sequences, FiniteSets

CONSTANT RingRequest            \* the capacity asked for
ASSUME RingAssumption == RingRequest \in 0 .. 2 ^ 30

VARIABLES ring, head, tail, dropped,  \* buf_, head_, tail_, dropped_
          push, pop,            \* what push() and pop() hold in their locals
          offered, lost,        \* ghosts: every sample pushed; the indices of those dropped
          sink, taken           \* the sink's counters; ghost: what it was given

ringVars == <<ring, head, tail, dropped, push, offered, lost>>
drainVars == <<pop, sink, taken>>
channelVars == <<ringVars, drainVars>>

RoundUpPow2(n) == 2 ^ (CHOOSE k \in 1..30 : n <= 2 ^ k /\ (k = 1 \/ 2 ^ (k - 1) < n))
Cap == RoundUpPow2(RingRequest)
Buckets == 0..30                \* 64 in the code, of which a uint32_t reaches 32

NoSample == [i |-> -1, missed |-> FALSE, ns |-> 0]
RingInit ==
    /\ ring = [s \in 0..Cap - 1 |-> NoSample]
    /\ head = 0 /\ tail = 0 /\ dropped = 0
    /\ push = [at |-> "idle"] /\ pop = [at |-> "idle", out |-> NoSample]
    /\ offered = <<>> /\ lost = {} /\ taken = <<>>
    /\ sink = [n |-> 0, timeouts |-> 0, hist |-> [k \in Buckets |-> 0]]
-----------------------------------------------------------------------------
(* push(), in the RT thread.                                                 *)
MutPushFull == head - tail > Cap  \* mutant: a full ring takes one more
PushFull == head - tail >= Cap
PushBegin(s) ==
    /\ push.at = "idle"
    /\ offered' = Append(offered, s)
    /\ IF PushFull
       THEN /\ dropped' = dropped + 1 /\ lost' = lost \cup {s.i}
            /\ UNCHANGED push
       ELSE push' = [at |-> "write", s |-> s] /\ UNCHANGED <<dropped, lost>>
    /\ UNCHANGED <<ring, head, tail>>
PushWrite ==
    /\ push.at = "write"
    /\ ring' = [ring EXCEPT ![head % Cap] = push.s]
    /\ push' = [at |-> "publish"]
    /\ UNCHANGED <<head, tail, dropped, offered, lost>>
PushPublish ==
    /\ push.at = "publish"
    /\ head' = head + 1
    /\ push' = [at |-> "idle"]
    /\ UNCHANGED <<ring, tail, dropped, offered, lost>>
-----------------------------------------------------------------------------
(* The drain thread: pop(), then consume().                                  *)
PopBegin ==
    /\ pop.at = "idle" /\ tail # head
    /\ pop' = [pop EXCEPT !.at = "copy"]
    /\ UNCHANGED <<ringVars, sink, taken>>
PopCopy ==
    /\ pop.at = "copy"
    /\ pop' = [at |-> "release", out |-> ring[tail % Cap]]
    /\ UNCHANGED <<ringVars, sink, taken>>

Log2(ns) == IF ns = 0 THEN 0 ELSE CHOOSE k \in Buckets : 2 ^ k <= ns /\ ns < 2 ^ (k + 1)
Consume(s) ==
    /\ sink' = [n |-> sink.n + 1,
                timeouts |-> sink.timeouts + IF s.missed THEN 1 ELSE 0,
                hist |-> [sink.hist EXCEPT ![Log2(s.ns)] = @ + 1]]
    /\ taken' = Append(taken, s)
PopRelease ==
    /\ pop.at = "release"
    /\ tail' = tail + 1
    /\ pop' = [pop EXCEPT !.at = "idle"]
    /\ Consume(pop.out)
    /\ UNCHANGED <<ring, head, dropped, push, offered, lost>>
Drain == PopBegin \/ PopCopy \/ PopRelease
-----------------------------------------------------------------------------
(* percentile(num/den) of the histogram: the lower bound of the bucket in     *)
(* which the sample of that rank lies.                                        *)
UpTo(h, k) == LET sum[j \in Buckets] == h[j] + IF j = 0 THEN 0 ELSE sum[j - 1] IN sum[k]
Rank(n, num, den) == LET t == (num * n + den - 1) \div den IN IF t = 0 THEN 1 ELSE t
Percentile(num, den) ==
    LET r == Rank(sink.n, num, den)
    IN  IF sink.n = 0 THEN 0
        ELSE 2 ^ (CHOOSE k \in Buckets : /\ UpTo(sink.hist, k) >= r
                                         /\ k = 0 \/ UpTo(sink.hist, k - 1) < r)
-----------------------------------------------------------------------------
RingTypeOK ==
    /\ head \in Nat /\ tail \in Nat /\ dropped \in Nat
    /\ DOMAIN ring = 0..Cap - 1
    /\ push.at \in {"idle", "write", "publish"}
    /\ pop.at \in {"idle", "copy", "release"}

\* What is being pushed is counted neither in head nor as dropped.
InFlight == IF push.at = "idle" THEN 0 ELSE 1
\* f lists the first n samples that were not dropped, and there are no others.
Lists(f, n) ==
    /\ \A k \in 1..n : offered[f[k]].i \notin lost
    /\ \A k, l \in 1..n : k < l => f[k] < f[l]
    /\ \A m \in DOMAIN offered : offered[m].i \notin lost => \E k \in 1..n : f[k] = m
RingIsExact ==
    /\ dropped = Cardinality(lost)
    /\ dropped + head + InFlight = Len(offered)
    /\ Len(taken) = tail
    /\ \E f \in [1..head + InFlight -> DOMAIN offered] :
         /\ Lists(f, head + InFlight)
         /\ \A k \in 1..tail : taken[k] = offered[f[k]]
         /\ \A i \in tail..head - 1 : ring[i % Cap] = offered[f[i + 1]]
\* The counters of the sink are those of what it was given.
SinkIsExact ==
    /\ sink.n = Len(taken)
    /\ sink.timeouts = Cardinality({k \in DOMAIN taken : taken[k].missed})
    /\ \A b \in Buckets : sink.hist[b] = Cardinality({k \in DOMAIN taken : Log2(taken[k].ns) = b})

Below(ns) == Cardinality({k \in DOMAIN taken : taken[k].ns <= ns})
Exact(num, den) ==
    LET r == Rank(Len(taken), num, den)
    IN  CHOOSE ns \in {taken[k].ns : k \in DOMAIN taken} :
            /\ Below(ns) >= r
            /\ \A k \in DOMAIN taken : taken[k].ns < ns => Below(taken[k].ns) < r
(* The sink is given, in order and whole, exactly the samples that were not   *)
(* counted as dropped, up to those the ring still holds: a slot is never      *)
(* refilled before it was copied nor read before it was written, and the drop *)
(* counter is exact. Its timeouts are the missed cycles among them, and every *)
(* percentile is below the exact one by less than a factor of two (a duration *)
(* of 0 reads as 1).                                                          *)
PercentilesAreClose ==
    taken # <<>> => \A num \in 0..4 :
        LET ns == IF Exact(num, 4) = 0 THEN 1 ELSE Exact(num, 4)
        IN  Percentile(num, 4) <= ns /\ ns < 2 * Percentile(num, 4)
ReportsWhatWasKept == RingIsExact /\ SinkIsExact /\ PercentilesAreClose
=============================================================================
