---------------------------- MODULE ArbiterProofs ----------------------------
(***************************************************************************)
(* Proofs about Arbiter.tla for every set of threads, tokens and every      *)
(* number of grants.  Everything rests on who holds m_ in which section     *)
(* (LockInv); StopInv and RestInv add what that buys.                       *)
(***************************************************************************)
EXTENDS Arbiter, TLAPS

USE ArbiterAssumption DEF ArbiterAssumption, Return

\* m_ is held exactly by the one call that is being delegated or by the
\* estop() that is between its re-latch and its second halt.
LockInv ==
  \A c \in Caller : pc[c] \in {"delegate", "estop_rehalt"} <=> lock = c

\* What a completed stop leaves behind, and what the stop that still holds m_
\* has already established.
StopInv ==
  /\ stopped => /\ estopped /\ ~owned /\ moving = {}
                /\ \A c \in Caller : pc[c] # "delegate"
  /\ \A c \in Caller : AtPlace(c, "estop_rehalt") => estopped /\ ~owned

\* With one thread that grants and revokes, commands of an old grant are left
\* downstream only while somebody is on the way to halt them.
OneAdmin == \A a, b \in Admin \cup Revoker : a = b

HaltPending ==
  \E c \in Caller : pc[c] \in {"grant_halt", "revoke_halt", "estop_rehalt"}

RestInv ==
  mode = "kEnforced" =>
    /\ owned => moving \subseteq {generation}
    /\ ~owned => moving = {} \/ HaltPending
    /\ \A c \in Caller :
         pc[c] \in {"grant_halt", "grant_install", "revoke_halt"} =>
           ~owned /\ c \in Admin \cup Revoker

-----------------------------------------------------------------------------
\* Type correctness of the arbiter (arbiter.h, the private fields).
THEOREM TypeCorrect == ArbiterSpec => []ArbiterTypeOK
<1>1. ArbiterInit => ArbiterTypeOK
  <2> SUFFICES ASSUME ArbiterInit PROVE ArbiterTypeOK
    OBVIOUS
  <2>1. pc \in [Caller -> Places] /\ held \in [Caller -> Token \cup {ZeroToken}]
    BY DEF ArbiterInit, Places
  <2>2. \A c \in Caller : pc[c] \notin {"grant_halt", "grant_install"}
    BY DEF ArbiterInit
  <2>3. generation \in 0..MaxGrant /\ moving \subseteq 0..MaxGrant
    BY DEF ArbiterInit
  <2>4. (owned = TRUE) <=> (token # ZeroToken)
    BY DEF ArbiterInit
  <2> QED
    BY <2>1, <2>2, <2>3, <2>4 DEF ArbiterInit, ArbiterTypeOK
<1>2. ASSUME ArbiterTypeOK, UNCHANGED arbiterVars PROVE ArbiterTypeOK'
  BY <1>2 DEF ArbiterTypeOK, arbiterVars, ownership
<1>3. ASSUME ArbiterTypeOK, ArbiterNext PROVE ArbiterTypeOK'
  <2> USE <1>3 DEF ArbiterTypeOK, Places, AtPlace, Goto, ownership, DropOwner, Caller
  <2>1. ASSUME NEW c \in Thread, NEW t \in Token \cup {ZeroToken}, Gated(c, t)
        PROVE  ArbiterTypeOK'
    BY <2>1 DEF Gated
  <2>2. ASSUME NEW c \in Thread, OnHalt(c) \/ Delegate(c)
        PROVE  ArbiterTypeOK'
    <3>1. CASE OnHalt(c)
      BY <3>1 DEF OnHalt
    <3>2. CASE Delegate(c)
      <4>1. moving' \subseteq 0..MaxGrant /\ held' \in [Caller -> Token \cup {ZeroToken}]
        BY <3>2 DEF Delegate
      <4>2. since' \in [Caller -> 0..MaxGrant] /\ pc' \in [Caller -> Places]
        BY <3>2 DEF Delegate
      <4>3. \A d \in Caller : pc'[d] \in {"grant_halt", "grant_install"} => held'[d] \in Token
        BY <3>2 DEF Delegate
      <4> QED
        BY <3>2, <4>1, <4>2, <4>3 DEF Delegate
    <3> QED
      BY <2>2, <3>1, <3>2
  <2>3. ASSUME NEW c \in Admin, NEW t \in Token, Grant(c, t)
        PROVE  ArbiterTypeOK'
    BY <2>3 DEF Grant
  <2>4. ASSUME NEW c \in Admin, GrantHalt(c) \/ GrantRefused(c)
        PROVE  ArbiterTypeOK'
    <3>1. CASE GrantHalt(c)
      BY <3>1 DEF GrantHalt
    <3>2. CASE GrantRefused(c)
      BY <3>2 DEF GrantRefused
    <3> QED
      BY <2>4, <3>1, <3>2
  <2>5. ASSUME NEW c \in Admin, GrantInstall(c)
        PROVE  ArbiterTypeOK'
    BY <2>5 DEF GrantInstall
  <2>6. ASSUME NEW c \in Revoker, RevokeStep(c)
        PROVE  ArbiterTypeOK'
    BY <2>6 DEF RevokeStep, Revoke, RevokeHalt
  <2>7. ASSUME NEW c \in Stopper, EstopStep(c)
        PROVE  ArbiterTypeOK'
    BY <2>7 DEF EstopStep, EstopLatch, EstopHalt, EstopRelatch, EstopRehalt
  <2>8. ASSUME NEW c \in Stopper, EstopClear(c)
        PROVE  ArbiterTypeOK'
    BY <2>8 DEF EstopClear
  <2>. QED
    BY <1>3, <2>1, <2>2, <2>3, <2>4, <2>5, <2>6, <2>7, <2>8 DEF CommandStep, GrantStep, ArbiterNext
<1>. QED
  BY <1>1, <1>2, <1>3, PTL DEF ArbiterSpec

-----------------------------------------------------------------------------
\* A step takes m_ when nobody has it, returns it, or lets it be.
InSection(c) == pc[c] \in {"delegate", "estop_rehalt"}
Takes(c) == lock = NoCaller /\ lock' = c /\ InSection(c)'
Returns(c) == InSection(c) /\ ~InSection(c)' /\ (lock = c => lock' = NoCaller)

LEMMA MutexStep ==
  ASSUME ArbiterTypeOK, [ArbiterNext]_arbiterVars
  PROVE  \/ lock' = lock /\ \A d \in Caller : InSection(d)' <=> InSection(d)
         \/ \E c \in Caller : /\ Takes(c) \/ Returns(c)
                              /\ \A d \in Caller \ {c} : InSection(d)' <=> InSection(d)
<1> USE DEF ArbiterTypeOK, AtPlace, Goto, InSection
<1>1. CASE UNCHANGED arbiterVars
  BY <1>1 DEF arbiterVars
<1>2. ASSUME NEW c \in Thread, NEW t \in Token \cup {ZeroToken}, Gated(c, t)
      PROVE  Takes(c) /\ \A d \in Caller \ {c} : InSection(d)' <=> InSection(d)
  BY <1>2 DEF Gated, Takes, Caller
<1>3. ASSUME NEW c \in Stopper, EstopRelatch(c)
      PROVE  Takes(c) /\ \A d \in Caller \ {c} : InSection(d)' <=> InSection(d)
  BY <1>3 DEF EstopRelatch, Takes, Caller
<1>4. ASSUME NEW c \in Thread, Delegate(c)
      PROVE  Returns(c) /\ \A d \in Caller \ {c} : InSection(d)' <=> InSection(d)
  BY <1>4 DEF Delegate, Returns, Caller
<1>5. ASSUME NEW c \in Stopper, EstopRehalt(c)
      PROVE  Returns(c) /\ \A d \in Caller \ {c} : InSection(d)' <=> InSection(d)
  BY <1>5 DEF EstopRehalt, Returns, Caller
<1>6. ASSUME NEW c \in Caller, OnHalt(c) \/ GrantStep(c) \/ RevokeStep(c)
      PROVE  lock' = lock /\ \A d \in Caller : InSection(d)' <=> InSection(d)
  BY <1>6 DEF OnHalt, GrantStep, Grant, GrantHalt, GrantInstall, GrantRefused,
              RevokeStep, Revoke, RevokeHalt
<1>7. ASSUME NEW c \in Caller, EstopLatch(c) \/ EstopHalt(c) \/ EstopClear(c)
      PROVE  lock' = lock /\ \A d \in Caller : InSection(d)' <=> InSection(d)
  BY <1>7 DEF EstopLatch, EstopHalt, EstopClear
<1>8. Thread \cup Admin \cup Revoker \cup Stopper \subseteq Caller
  BY DEF Caller
<1>. QED
  BY <1>1, <1>2, <1>3, <1>4, <1>5, <1>6, <1>7, <1>8 DEF ArbiterNext, CommandStep, EstopStep

\* The mutex is exclusive: the sections that call out of the arbiter under m_
\* never overlap (arbiter.h, "Lock discipline").
THEOREM LockHeld == ArbiterSpec => []LockInv
<1>1. ArbiterInit => LockInv
  BY DEF ArbiterInit, LockInv
<1>2. ASSUME ArbiterTypeOK, LockInv, [ArbiterNext]_arbiterVars PROVE LockInv'
  <2>1. \A c \in Caller : InSection(c) <=> lock = c
    BY <1>2 DEF LockInv, InSection
  <2>2. CASE lock' = lock /\ \A d \in Caller : InSection(d)' <=> InSection(d)
    BY <2>1, <2>2 DEF LockInv, InSection
  <2>3. ASSUME NEW c \in Caller, \A d \in Caller \ {c} : InSection(d)' <=> InSection(d), Takes(c)
        PROVE  LockInv'
    BY <2>1, <2>3 DEF LockInv, InSection, Takes
  <2>4. ASSUME NEW c \in Caller, \A d \in Caller \ {c} : InSection(d)' <=> InSection(d), Returns(c)
        PROVE  LockInv'
    BY <2>1, <2>4 DEF LockInv, InSection, Returns
  <2>. QED
    BY <1>2, <2>2, <2>3, <2>4, MutexStep
<1>. QED
  BY <1>1, <1>2, TypeCorrect, PTL DEF ArbiterSpec

-----------------------------------------------------------------------------
\* The invariant holds in every reachable state.
LEMMA StopInvInvariant == ArbiterSpec => []StopInv
<1>1. ArbiterInit => StopInv
  BY DEF ArbiterInit, StopInv, AtPlace
<1>2. ASSUME StopInv, UNCHANGED arbiterVars PROVE StopInv'
  BY <1>2 DEF StopInv, arbiterVars, ownership, AtPlace
<1>3. ASSUME ArbiterTypeOK, LockInv, StopInv, ArbiterNext PROVE StopInv'
  <2> USE <1>3 DEF ArbiterTypeOK, LockInv, StopInv, AtPlace, Goto, Caller
  <2>1. ASSUME NEW c \in Thread, NEW t \in Token \cup {ZeroToken}, Gated(c, t)
        PROVE  StopInv'
    BY <2>1 DEF Gated, Admit, ownership
  <2>2. ASSUME NEW c \in Thread, OnHalt(c)
        PROVE  StopInv'
    BY <2>2 DEF OnHalt, ownership
  <2>3. ASSUME NEW c \in Thread, Delegate(c)
        PROVE  StopInv'
    <3>1. ~stopped /\ pc[c] = "delegate"
      BY <2>3 DEF Delegate
    <3> QED
      BY <2>3, <3>1 DEF Delegate, ownership
  <2>4. ASSUME NEW c \in Admin, GrantStep(c)
        PROVE  StopInv'
    <3>1. ASSUME NEW t \in Token, Grant(c, t)
          PROVE  StopInv'
      BY <3>1 DEF Grant, DropOwner
    <3>2. CASE GrantHalt(c)
      BY <3>2 DEF GrantHalt, ownership
    <3>3. CASE GrantInstall(c)
      BY <3>3 DEF GrantInstall
    <3>4. CASE GrantRefused(c)
      BY <3>4 DEF GrantRefused, ownership
    <3> QED
      BY <2>4, <3>1, <3>2, <3>3, <3>4 DEF GrantStep
  <2>5. ASSUME NEW c \in Revoker, RevokeStep(c)
        PROVE  StopInv'
    <3>1. CASE Revoke(c)
      BY <3>1 DEF Revoke, DropOwner
    <3>2. CASE RevokeHalt(c)
      BY <3>2 DEF RevokeHalt, ownership
    <3> QED
      BY <2>5, <3>1, <3>2 DEF RevokeStep
  <2>6. ASSUME NEW c \in Stopper, EstopStep(c) \/ EstopClear(c)
        PROVE  StopInv'
    <3>1. CASE EstopLatch(c)
      BY <3>1 DEF EstopLatch, ownership
    <3>2. CASE EstopHalt(c)
      BY <3>2 DEF EstopHalt, ownership
    <3>3. CASE EstopRelatch(c)
      BY <3>3 DEF EstopRelatch, DropOwner
    <3>4. CASE EstopRehalt(c)
      BY <3>4 DEF EstopRehalt, ownership
    <3>5. CASE EstopClear(c)
      BY <3>5 DEF EstopClear, ownership
    <3> QED
      BY <2>6, <3>1, <3>2, <3>3, <3>4, <3>5 DEF EstopStep
  <2>. QED
    BY <1>3, <2>1, <2>2, <2>3, <2>4, <2>5, <2>6 DEF CommandStep, ArbiterNext
<1>. QED
  BY <1>1, <1>2, <1>3, TypeCorrect, LockHeld, PTL DEF ArbiterSpec

\* A completed estop() is final until it is cleared, whatever raced it.
THEOREM StopFinal == ArbiterSpec => []StopIsFinal
<1>1. StopInv => StopIsFinal
  BY DEF StopInv, StopIsFinal
<1>2. QED
  BY <1>1, StopInvInvariant, PTL

\* The arbiter implements the abstract emergency stop: each of its steps is a
\* stop, a clear, a halt, an admitted command or nothing at all.
THEOREM Refinement == ArbiterSpec => ImplementsEmergencyStop
<1>1. ArbiterInit => ES!Init
  BY DEF ArbiterInit, ES!Init
<1>2. ArbiterTypeOK /\ StopInv /\ [ArbiterNext]_arbiterVars => [ES!Next]_(ES!vars)
  <2> SUFFICES ASSUME ArbiterTypeOK, StopInv, [ArbiterNext]_arbiterVars
               PROVE  ES!Next \/ UNCHANGED ES!vars
    BY DEF ES!vars
  <2> USE DEF ArbiterTypeOK, AtPlace, Caller, ES!vars
  <2>1. ASSUME NEW c \in Thread, Delegate(c)
        PROVE  ES!Command \/ UNCHANGED ES!vars
    <3>1. ~stopped
      BY <2>1 DEF StopInv, Delegate
    <3>2. generation \in 0..MaxGrant
      OBVIOUS
    <3> QED
      BY <2>1, <3>1, <3>2 DEF Delegate, ES!Command
  <2>2. ASSUME NEW c \in Thread, CommandStep(c)
        PROVE  ES!Halt \/ UNCHANGED ES!vars
    BY <2>2 DEF CommandStep, Gated, OnHalt, ES!Halt
  <2>3. ASSUME NEW c \in Admin, GrantStep(c)
        PROVE  ES!Halt \/ UNCHANGED ES!vars
    BY <2>3 DEF GrantStep, Grant, GrantHalt, GrantInstall, GrantRefused, ES!Halt
  <2>4. ASSUME NEW c \in Revoker, RevokeStep(c)
        PROVE  ES!Halt \/ UNCHANGED ES!vars
    BY <2>4 DEF RevokeStep, Revoke, RevokeHalt, ES!Halt
  <2>5. ASSUME NEW c \in Stopper, EstopStep(c) \/ EstopClear(c)
        PROVE  ES!Stop \/ ES!Halt \/ ES!Clear \/ UNCHANGED ES!vars
    BY <2>5 DEF EstopStep, EstopLatch, EstopHalt, EstopRelatch, EstopRehalt, EstopClear,
                ES!Stop, ES!Halt, ES!Clear
  <2>. QED
    BY <2>1, <2>2, <2>3, <2>4, <2>5 DEF ES!Next, ArbiterNext, arbiterVars, ownership
<1>. QED
  BY <1>1, <1>2, TypeCorrect, StopInvInvariant, PTL DEF ArbiterSpec, ImplementsEmergencyStop, ES!Spec

-----------------------------------------------------------------------------
\* While a call is delegated its token stays live: whoever else runs needs m_
\* to change the owner.
THEOREM DelegationOwned == ArbiterSpec => []DelegationIsOwned
<1>1. ArbiterInit => DelegationIsOwned
  BY DEF ArbiterInit, DelegationIsOwned, AtPlace
<1>2. ASSUME DelegationIsOwned, UNCHANGED arbiterVars PROVE DelegationIsOwned'
  BY <1>2 DEF DelegationIsOwned, arbiterVars, ownership, AtPlace
<1>3. ASSUME ArbiterTypeOK, LockInv, DelegationIsOwned, ArbiterNext PROVE DelegationIsOwned'
  <2> USE <1>3 DEF ArbiterTypeOK, LockInv, DelegationIsOwned, AtPlace, Goto, Caller
  <2>1. ASSUME NEW c \in Thread, NEW t \in Token \cup {ZeroToken}, Gated(c, t)
        PROVE  DelegationIsOwned'
    <3>1. \A d \in Caller : d # c => pc'[d] # "delegate"
      BY <2>1 DEF Gated
    <3>2. mode = "kEnforced" => owned /\ t = token
      BY <2>1 DEF Gated, Admit
    <3> QED
      BY <2>1, <3>1, <3>2 DEF Gated, ownership
  <2>2. ASSUME NEW c \in Thread, OnHalt(c) \/ Delegate(c)
        PROVE  DelegationIsOwned'
    BY <2>2 DEF OnHalt, Delegate, ownership
  <2>3. ASSUME NEW c \in Admin, NEW t \in Token, Grant(c, t)
        PROVE  DelegationIsOwned'
    <3>1. \A d \in Caller : pc'[d] # "delegate"
      BY <2>3 DEF Grant
    <3> QED
      BY <3>1
  <2>4. ASSUME NEW c \in Admin, GrantInstall(c)
        PROVE  DelegationIsOwned'
    <3>1. \A d \in Caller : pc'[d] # "delegate"
      BY <2>4 DEF GrantInstall
    <3> QED
      BY <3>1
  <2>5. ASSUME NEW c \in Admin, GrantHalt(c) \/ GrantRefused(c)
        PROVE  DelegationIsOwned'
    BY <2>5 DEF GrantHalt, GrantRefused, ownership
  <2>6. ASSUME NEW c \in Revoker, Revoke(c)
        PROVE  DelegationIsOwned'
    <3>1. \A d \in Caller : pc'[d] # "delegate"
      BY <2>6 DEF Revoke
    <3> QED
      BY <3>1
  <2>7. ASSUME NEW c \in Revoker, RevokeHalt(c)
        PROVE  DelegationIsOwned'
    BY <2>7 DEF RevokeHalt, ownership
  <2>8. ASSUME NEW c \in Stopper, EstopRelatch(c)
        PROVE  DelegationIsOwned'
    <3>1. \A d \in Caller : pc'[d] # "delegate"
      BY <2>8 DEF EstopRelatch
    <3> QED
      BY <3>1
  <2>9. ASSUME NEW c \in Stopper, EstopLatch(c) \/ EstopHalt(c) \/ EstopRehalt(c) \/ EstopClear(c)
        PROVE  DelegationIsOwned'
    BY <2>9 DEF EstopLatch, EstopHalt, EstopRehalt, EstopClear, ownership
  <2>. QED
    BY <1>3, <2>1, <2>2, <2>3, <2>4, <2>5, <2>6, <2>7, <2>8, <2>9
       DEF CommandStep, GrantStep, RevokeStep, EstopStep, ArbiterNext
<1>. QED
  BY <1>1, <1>2, <1>3, TypeCorrect, LockHeld, PTL DEF ArbiterSpec

-----------------------------------------------------------------------------
\* With a single granting and revoking thread a new owner finds the arm at
\* rest.  Without that assumption TLC refutes HandoverFromRest.
THEOREM Handover == ASSUME OneAdmin PROVE ArbiterSpec => []HandoverFromRest
<1> USE DEF OneAdmin
<1>1. ArbiterInit => RestInv
  BY DEF ArbiterInit, RestInv, AtPlace
<1>2. ASSUME RestInv, UNCHANGED arbiterVars PROVE RestInv'
  BY <1>2 DEF RestInv, HaltPending, arbiterVars, ownership
<1>3. ASSUME ArbiterTypeOK, LockInv, DelegationIsOwned, RestInv, ArbiterNext PROVE RestInv'
  <2> SUFFICES ASSUME mode = "kEnforced" PROVE RestInv'
    BY <1>3 DEF RestInv, ArbiterNext, CommandStep, Gated, OnHalt, Delegate, GrantStep, Grant, GrantHalt,
           GrantInstall, GrantRefused, RevokeStep, Revoke, RevokeHalt, EstopStep, EstopLatch,
           EstopHalt, EstopRelatch, EstopRehalt, EstopClear
  <2> USE <1>3 DEF ArbiterTypeOK, LockInv, DelegationIsOwned, RestInv, HaltPending, AtPlace, Goto, Caller
  <2>1. ASSUME NEW c \in Thread, NEW t \in Token \cup {ZeroToken}, Gated(c, t)
        PROVE  RestInv'
    BY <2>1 DEF Gated, Admit, ownership
  <2>2. ASSUME NEW c \in Thread, OnHalt(c)
        PROVE  RestInv'
    BY <2>2 DEF OnHalt, ownership
  <2>3. ASSUME NEW c \in Thread, Delegate(c)
        PROVE  RestInv'
    BY <2>3 DEF Delegate, ownership
  <2>4. ASSUME NEW c \in Admin, NEW t \in Token, Grant(c, t)
        PROVE  RestInv'
    BY <2>4 DEF Grant, DropOwner
  <2>5. ASSUME NEW c \in Admin, GrantHalt(c)
        PROVE  RestInv'
    BY <2>5 DEF GrantHalt, ownership
  <2>6. ASSUME NEW c \in Admin, GrantInstall(c)
        PROVE  RestInv'
    BY <2>6 DEF GrantInstall
  <2>7. ASSUME NEW c \in Admin, GrantRefused(c)
        PROVE  RestInv'
    BY <2>7 DEF GrantRefused, ownership
  <2>8. ASSUME NEW c \in Revoker, Revoke(c)
        PROVE  RestInv'
    BY <2>8 DEF Revoke, DropOwner
  <2>9. ASSUME NEW c \in Revoker, RevokeHalt(c)
        PROVE  RestInv'
    BY <2>9 DEF RevokeHalt, ownership
  <2>10. ASSUME NEW c \in Stopper, EstopLatch(c) \/ EstopHalt(c) \/ EstopClear(c)
        PROVE  RestInv'
    BY <2>10 DEF EstopLatch, EstopHalt, EstopClear, ownership
  <2>11. ASSUME NEW c \in Stopper, EstopRelatch(c)
        PROVE  RestInv'
    BY <2>11 DEF EstopRelatch, DropOwner
  <2>12. ASSUME NEW c \in Stopper, EstopRehalt(c)
        PROVE  RestInv'
    BY <2>12 DEF EstopRehalt, ownership
  <2>. QED
    BY <1>3, <2>1, <2>2, <2>3, <2>4, <2>5, <2>6, <2>7, <2>8, <2>9, <2>10, <2>11, <2>12
       DEF CommandStep, GrantStep, RevokeStep, EstopStep, ArbiterNext
<1>4. RestInv => HandoverFromRest
  BY DEF RestInv, HandoverFromRest
<1>. QED
  BY <1>1, <1>2, <1>3, <1>4, TypeCorrect, LockHeld, DelegationOwned, PTL DEF ArbiterSpec
-----------------------------------------------------------------------------
\* Whoever is between the sections of grant() found no owner or dropped the one it
\* found: an owner there is now came by a later generation.
SwapInv ==
  \A c \in Caller : pc[c] \in {"grant_halt", "grant_install"} =>
    c \in Admin /\ since[c] <= generation /\ (owned => since[c] < generation)

\* A step that is not one of grant()'s neither gives the arm an owner nor puts
\* anybody inside grant().
LEMMA OnlyGrantInstalls ==
  ASSUME ArbiterTypeOK, [ArbiterNext]_arbiterVars, ~(\E c \in Admin : GrantStep(c))
  PROVE  /\ generation' = generation /\ (owned' => owned)
         /\ \A c \in Caller : pc'[c] \in {"grant_halt", "grant_install"} => since'[c] = since[c]
         /\ \A c \in Caller : pc'[c] \in {"grant_halt", "grant_install"} => pc'[c] = pc[c]
<1> USE DEF ArbiterTypeOK, AtPlace, Goto, Caller, ownership
<1>1. ASSUME NEW c \in Thread, NEW t \in Token \cup {ZeroToken}, Gated(c, t)
      PROVE  /\ generation' = generation /\ since' = since /\ owned' = owned
             /\ \A d \in Caller : pc'[d] = IF d = c THEN "delegate" ELSE pc[d]
  BY <1>1 DEF Gated
<1>2. ASSUME NEW c \in Thread, OnHalt(c)
      PROVE  generation' = generation /\ since' = since /\ owned' = owned /\ pc' = pc
  BY <1>2 DEF OnHalt
<1>3. ASSUME NEW c \in Thread, Delegate(c)
      PROVE  /\ generation' = generation /\ owned' = owned
             /\ \A d \in Caller : d # c => since'[d] = since[d] /\ pc'[d] = pc[d]
             /\ pc'[c] = "idle"
  BY <1>3 DEF Delegate
<1>4. ASSUME NEW c \in Revoker, RevokeStep(c)
      PROVE  /\ generation' = generation /\ since' = since /\ (owned' => owned)
             /\ \A d \in Caller : pc'[d] \in {"idle", "revoke_halt", pc[d]}
  BY <1>4 DEF RevokeStep, Revoke, RevokeHalt, DropOwner
<1>5. ASSUME NEW c \in Stopper, EstopStep(c) \/ EstopClear(c)
      PROVE  /\ generation' = generation /\ since' = since /\ (owned' => owned)
             /\ \A d \in Caller : pc'[d] \in {"idle", "estop_halt", "estop_relatch", "estop_rehalt", pc[d]}
  BY <1>5 DEF EstopStep, EstopLatch, EstopHalt, EstopRelatch, EstopRehalt, EstopClear, DropOwner
<1>6. CASE UNCHANGED arbiterVars
  BY <1>6 DEF arbiterVars
<1>7. QED
  BY <1>1, <1>2, <1>3, <1>4, <1>5, <1>6 DEF ArbiterNext, CommandStep

\* For any number of granting, revoking and stopping threads, a grant() installs its token
\* over a live one only if that one came from another grant() between its own two sections
\* (arbiter.cpp:47-48): the owner it found itself is gone for good.
THEOREM SwapNeedsARace == ArbiterSpec => SwapIsARace
<1>1. ArbiterInit => SwapInv
  BY DEF ArbiterInit, SwapInv
<1>2. ArbiterTypeOK /\ SwapInv /\ [ArbiterNext]_arbiterVars => SwapInv'
  <2> SUFFICES ASSUME ArbiterTypeOK, SwapInv, [ArbiterNext]_arbiterVars PROVE SwapInv'
    OBVIOUS
  <2>1. ASSUME NEW c \in Admin, GrantStep(c) PROVE SwapInv'
    <3> USE <2>1 DEF SwapInv, ArbiterTypeOK, AtPlace, Goto, Caller, ownership
    <3>1. ASSUME NEW t \in Token, Grant(c, t) PROVE SwapInv'
      BY <3>1 DEF Grant, DropOwner
    <3>2. CASE GrantHalt(c) \/ GrantRefused(c)
      BY <3>2 DEF GrantHalt, GrantRefused
    <3>3. CASE GrantInstall(c)
      BY <3>3 DEF GrantInstall
    <3>4. QED
      BY <2>1, <3>1, <3>2, <3>3 DEF GrantStep
  <2>2. CASE ~(\E c \in Admin : GrantStep(c))
    BY <2>2, OnlyGrantInstalls DEF SwapInv, ArbiterTypeOK
  <2>3. QED
    BY <2>1, <2>2
<1>3. ASSUME ArbiterTypeOK, SwapInv, [ArbiterNext]_arbiterVars, generation' # generation, owned
      PROVE  \E c \in Admin : /\ AtPlace(c, "grant_install") /\ pc'[c] = "idle"
                             /\ since[c] < generation
  <2>1. PICK c \in Admin : GrantStep(c)
    BY <1>3, OnlyGrantInstalls
  <2>2. GrantInstall(c)
    BY <1>3, <2>1 DEF GrantStep, Grant, GrantHalt, GrantRefused, ownership
  <2>3. pc[c] = "grant_install" /\ pc'[c] = "idle"
    BY <1>3, <2>2 DEF GrantInstall, AtPlace, Goto, ArbiterTypeOK, Caller
  <2>4. QED
    BY <1>3, <2>3 DEF SwapInv, AtPlace, Caller
<1>4. ArbiterTypeOK /\ SwapInv /\ [ArbiterNext]_arbiterVars =>
        [generation' # generation /\ owned =>
           \E c \in Admin : AtPlace(c, "grant_install") /\ pc'[c] = "idle" /\ since[c] < generation]_arbiterVars
  BY <1>3
<1>5. QED
  BY <1>1, <1>2, <1>4, TypeCorrect, PTL DEF ArbiterSpec, SwapIsARace
=============================================================================
