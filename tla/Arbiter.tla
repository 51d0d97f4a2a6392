------------------------------- MODULE Arbiter -------------------------------
(***************************************************************************)
(* kinova::interface::Arbiter: who may command the arm.                     *)
(*                                                                          *)
(* Any number of threads call into one arbiter.  The mutex m_ is held from  *)
(* admission to the end of the delegated call, never while grant() or       *)
(* revoke() halt the arm; estop() latches its flag and halts once without   *)
(* m_, then takes m_ and does both again.  Each critical section that calls *)
(* nothing is one action; a call out of the arbiter (a delegated command,   *)
(* on_halt) is an action of its own, so that everything which can run       *)
(* during it does.                                                          *)
(*                                                                          *)
(* `moving` stands for the downstream CommandSink/StreamSink/GripperSink:   *)
(* the grants whose commands reached it since it was last halted.           *)
(***************************************************************************)
EXTENDS Naturals

CONSTANTS
  Thread,       \* threads that send commands (backends, clients)
  Admin,        \* threads that call grant() (task orchestrators)
  Revoker,      \* threads that call revoke() (orchestrators, whatever supervises them)
  Stopper,      \* threads that call estop() and estop_clear()
  Token,        \* the tokens a caller can hold, the sentinel excluded
  NoCaller,     \* nobody: the value of m_'s holder when it is free
  ZeroToken,    \* the all-zero token: no owner, an untokened command
  MaxGrant      \* bound on generation_, the number of grants

Caller == Thread \cup Admin \cup Revoker \cup Stopper

ASSUME ArbiterAssumption ==
  /\ NoCaller \notin Caller
  /\ ZeroToken \notin Token
  /\ MaxGrant \in Nat

VARIABLES
  mode,         \* mode_: "kEnforced" or "kDisabled", fixed at construction
  lock,         \* the holder of m_
  estopped,     \* estopped_, the atomic latch
  owned,        \* owned_
  token,        \* token_
  generation,   \* generation_
  pc,           \* where each caller is inside the arbiter
  held,         \* the token of the call a caller is in
  since,        \* history: the generation a grant() found in its first section
  moving,       \* downstream: grants whose commands arrived since the last halt
  stopped       \* history: an estop() has returned and no estop_clear() since

arbiterVars == <<mode, lock, estopped, owned, token, generation, pc, held, since, moving, stopped>>

ownership == <<owned, token, generation>>

ArbiterInit ==
  /\ mode \in {"kEnforced", "kDisabled"}
  /\ lock = NoCaller
  /\ estopped = FALSE
  /\ owned = FALSE
  /\ token = ZeroToken
  /\ generation = 0
  /\ pc = [c \in Caller |-> "idle"]
  /\ held = [c \in Caller |-> ZeroToken]
  /\ since = [c \in Caller |-> 0]
  /\ moving = {}
  /\ stopped = FALSE

AtPlace(c, where) == pc[c] = where
Goto(c, where) == pc' = [pc EXCEPT ![c] = where]

\* The call returns, and its locals are gone.
Return(c) ==
  /\ Goto(c, "idle")
  /\ held' = [held EXCEPT ![c] = ZeroToken] /\ since' = [since EXCEPT ![c] = 0]

-----------------------------------------------------------------------------
(* Admission and delegation *)

\* Admitted iff the bypass is on or the command carries the live token; the
\* latch overrides both.
Admit(t) ==
  /\ ~estopped
  /\ mode = "kDisabled" \/ (owned /\ t = token)

DropOwner ==
  /\ owned' = FALSE
  /\ token' = ZeroToken

\* A gated call is admitted: m_ stays held while it is delegated.  A refused
\* call only bumps a counter, so it is no step here.
Gated(c, t) ==
  /\ AtPlace(c, "idle") /\ lock = NoCaller
  /\ Admit(t)
  /\ lock' = c
  /\ Goto(c, "delegate")
  /\ held' = [held EXCEPT ![c] = t]
  /\ UNCHANGED <<mode, estopped, ownership, since, moving, stopped>>

\* The delegated call takes effect downstream and m_ is released.  A call that
\* moves nothing (cancel, stream close, gains, thresholds) leaves `moving`.
Delegate(c) ==
  /\ AtPlace(c, "delegate")
  /\ lock' = IF lock = c THEN NoCaller ELSE lock
  /\ Return(c)
  /\ moving' \in {moving, moving \cup {generation}}
  /\ UNCHANGED <<mode, estopped, ownership, stopped>>

\* on_halt(): a bare pass-through, never gated.
OnHalt(c) ==
  /\ AtPlace(c, "idle")
  /\ moving' = {}
  /\ UNCHANGED <<mode, lock, estopped, ownership, pc, held, since, stopped>>

-----------------------------------------------------------------------------
(* grant() *)

MutGrantKeepsOwner(c, t) ==    \* mutant: the old owner is kept until the new token exists
  /\ AtPlace(c, "idle") /\ lock = NoCaller
  /\ ~estopped
  /\ held' = [held EXCEPT ![c] = t] /\ since' = [since EXCEPT ![c] = generation]
  /\ Goto(c, IF owned THEN "grant_halt" ELSE "grant_install")
  /\ UNCHANGED <<mode, lock, estopped, ownership, moving, stopped>>

\* First critical section: refused when e-stopped; an owner is dropped and its
\* motion must be halted before the new token exists.
Grant(c, t) ==
  /\ AtPlace(c, "idle") /\ lock = NoCaller
  /\ ~estopped
  /\ held' = [held EXCEPT ![c] = t] /\ since' = [since EXCEPT ![c] = generation]
  /\ \/ owned /\ DropOwner /\ Goto(c, "grant_halt")
     \/ ~owned /\ Goto(c, "grant_install") /\ UNCHANGED <<owned, token>>
  /\ UNCHANGED <<mode, lock, estopped, generation, moving, stopped>>

GrantHalt(c) ==
  /\ AtPlace(c, "grant_halt")
  /\ moving' = {}
  /\ Goto(c, "grant_install")
  /\ UNCHANGED <<mode, lock, estopped, ownership, held, since, stopped>>

MutInstallUnchecked(c) ==      \* mutant: the latch is not read a second time
  /\ AtPlace(c, "grant_install") /\ lock = NoCaller
  /\ generation < MaxGrant
  /\ owned' = TRUE
  /\ token' = held[c]
  /\ generation' = generation + 1
  /\ Return(c)
  /\ UNCHANGED <<mode, lock, estopped, moving, stopped>>

\* Second critical section: an e-stop may have latched during the halt.
GrantInstall(c) ==
  /\ AtPlace(c, "grant_install") /\ lock = NoCaller
  /\ ~estopped
  /\ generation < MaxGrant
  /\ owned' = TRUE
  /\ token' = held[c]
  /\ generation' = generation + 1
  /\ Return(c)
  /\ UNCHANGED <<mode, lock, estopped, moving, stopped>>

GrantRefused(c) ==
  /\ AtPlace(c, "grant_install") /\ lock = NoCaller
  /\ estopped \/ generation = MaxGrant
  /\ Return(c)
  /\ UNCHANGED <<mode, lock, estopped, ownership, moving, stopped>>

-----------------------------------------------------------------------------
(* revoke() *)

Revoke(c) ==
  /\ AtPlace(c, "idle") /\ lock = NoCaller
  /\ owned
  /\ DropOwner
  /\ Goto(c, "revoke_halt")
  /\ UNCHANGED <<mode, lock, estopped, generation, held, since, moving, stopped>>

RevokeHalt(c) ==
  /\ AtPlace(c, "revoke_halt")
  /\ moving' = {}
  /\ Goto(c, "idle")
  /\ UNCHANGED <<mode, lock, estopped, ownership, held, since, stopped>>

-----------------------------------------------------------------------------
(* estop() and estop_clear() *)

\* Latched without m_: the store never waits for a delegated call.
EstopLatch(c) ==
  /\ AtPlace(c, "idle")
  /\ estopped' = TRUE
  /\ Goto(c, "estop_halt")
  /\ UNCHANGED <<mode, lock, ownership, held, since, moving, stopped>>

MutEstopHaltLocked(c) ==       \* mutant: the first halt waits for m_
  /\ AtPlace(c, "estop_halt") /\ lock = NoCaller
  /\ moving' = {}
  /\ Goto(c, "estop_relatch")
  /\ UNCHANGED <<mode, lock, estopped, ownership, held, since, stopped>>

EstopHalt(c) ==
  /\ AtPlace(c, "estop_halt")
  /\ moving' = {}
  /\ Goto(c, "estop_relatch")
  /\ UNCHANGED <<mode, lock, estopped, ownership, held, since, stopped>>

EstopRelatch(c) ==
  /\ AtPlace(c, "estop_relatch") /\ lock = NoCaller
  /\ lock' = c
  /\ estopped' = TRUE
  /\ DropOwner
  /\ Goto(c, "estop_rehalt")
  /\ UNCHANGED <<mode, generation, held, since, moving, stopped>>

MutRehaltDropped(c) ==         \* mutant: estop() returns without the second halt
  /\ AtPlace(c, "estop_rehalt")
  /\ lock' = NoCaller
  /\ stopped' = TRUE
  /\ Goto(c, "idle")
  /\ UNCHANGED <<mode, estopped, ownership, held, since, moving>>

\* Halt again, still under m_: a command that was past Admit at the first halt
\* has been delegated by now.
EstopRehalt(c) ==
  /\ AtPlace(c, "estop_rehalt")
  /\ moving' = {}
  /\ lock' = NoCaller
  /\ stopped' = TRUE
  /\ Goto(c, "idle")
  /\ UNCHANGED <<mode, estopped, ownership, held, since>>

EstopClear(c) ==
  /\ AtPlace(c, "idle") /\ lock = NoCaller
  /\ estopped' = FALSE
  /\ stopped' = FALSE
  /\ UNCHANGED <<mode, lock, ownership, pc, held, since, moving>>

-----------------------------------------------------------------------------
CommandStep(c) == (\E t \in Token \cup {ZeroToken} : Gated(c, t)) \/ OnHalt(c)

GrantStep(c) ==
  \/ \E t \in Token : Grant(c, t)
  \/ GrantHalt(c) \/ GrantInstall(c) \/ GrantRefused(c)

RevokeStep(c) == Revoke(c) \/ RevokeHalt(c)

EstopStep(c) == EstopLatch(c) \/ EstopHalt(c) \/ EstopRelatch(c) \/ EstopRehalt(c)

ArbiterNext ==
  \/ \E c \in Thread : CommandStep(c) \/ Delegate(c)
  \/ \E c \in Admin : GrantStep(c)
  \/ \E c \in Revoker : RevokeStep(c)
  \/ \E c \in Stopper : EstopStep(c) \/ EstopClear(c)

ArbiterSpec == ArbiterInit /\ [][ArbiterNext]_arbiterVars

\* Only a thread inside estop() is assumed to keep running: the holder of m_
\* may sit in its delegated call (a mode settle) for as long as it likes.
StopFairness == \A c \in Stopper : WF_arbiterVars(EstopHalt(c))
FairSpec == ArbiterSpec /\ StopFairness

-----------------------------------------------------------------------------
(* Properties *)

Places == {"idle", "delegate", "grant_halt", "grant_install", "revoke_halt",
           "estop_halt", "estop_relatch", "estop_rehalt"}

\* The fields keep their types; no owner means the sentinel token, which no
\* grant() in progress can install.
ArbiterTypeOK ==
  /\ mode \in {"kEnforced", "kDisabled"}
  /\ lock \in Caller \cup {NoCaller}
  /\ estopped \in BOOLEAN
  /\ owned \in BOOLEAN
  /\ token \in Token \cup {ZeroToken}
  /\ (owned = TRUE) <=> (token # ZeroToken)
  /\ generation \in 0..MaxGrant
  /\ pc \in [Caller -> Places]
  /\ held \in [Caller -> Token \cup {ZeroToken}] /\ since \in [Caller -> 0..MaxGrant]
  /\ \A c \in Caller : pc[c] \in {"grant_halt", "grant_install"} => held[c] \in Token
  /\ moving \subseteq 0..MaxGrant
  /\ stopped \in BOOLEAN

\* From the return of an estop() to the next estop_clear(), whatever raced it,
\* the latch is set, nobody owns the arm and no command has reached it since
\* the halt (the purpose of the re-latch and the second halt in estop()).
StopIsFinal == stopped => estopped /\ ~owned /\ moving = {}

\* Admit-and-deliver is atomic against grant(), revoke() and estop(): while a
\* call is being delegated in enforced mode its token is still the live one.
DelegationIsOwned ==
  mode = "kEnforced" =>
    \A c \in Caller : AtPlace(c, "delegate") => owned /\ held[c] = token

\* A new owner finds an arm at rest: every command that arrived since the last
\* halt came under the grant that is live now.
HandoverFromRest ==
  mode = "kEnforced" /\ owned => moving \subseteq {generation}

\* A grant() never puts its token in the place of one it has seen: an owner it found was
\* dropped and halted first, so what it installs over can only be the token of another
\* grant() that landed between its two sections.
SwapIsARace ==
  [][generation' # generation /\ owned =>
       \E c \in Admin : AtPlace(c, "grant_install") /\ pc'[c] = "idle" /\ since[c] < generation]_arbiterVars

\* Refuted.  A re-grant is revoke-then-grant, never a silent swap under a moving arm: with
\* the check of tokens on, no token is installed over a live one whose commands arrived
\* since the last halt.
NoSilentSwap ==
  [][mode = "kEnforced" /\ generation' # generation => ~owned \/ moving = {}]_arbiterVars

\* The halt of an estop() is delivered even if the holder of m_ never moves.
StopNeverWaits ==
  \A c \in Stopper : AtPlace(c, "estop_halt") ~> AtPlace(c, "estop_relatch")

\* The arbiter implements the abstract emergency stop.
ES == INSTANCE EmergencyStop WITH Owner <- 0..MaxGrant
ImplementsEmergencyStop == ES!Spec
=============================================================================
