----------------------------- MODULE GraphCache -----------------------------
(***************************************************************************)
(* The graph cache: the state manager (internal/graphcache), the rebuild   *)
(* loop and the consumer gate (internal/events/graph_cache.go), and the    *)
(* NOTIFY listener that feeds them.                                        *)
(*                                                                         *)
(* A write is one committed transaction on the tables the cache is built   *)
(* from; a build reads the three tables one after the other, each in a     *)
(* transaction of its own, so a snapshot holds a write when every read the *)
(* write depends on came after its commit.  Clocks are ages that saturate  *)
(* at MaxAge.                                                              *)
(*                                                                         *)
(* signalled and due are history variables: the age of the signal that     *)
(* told the process of a write, and the writes a reader may not miss.      *)
(***************************************************************************)
EXTENDS Integers, FiniteSets

CONSTANTS
    Writes,              \* transactions on the link tables and block flags
    Needs,               \* the tables a write changes
    MaxAge,              \* where ages saturate, above every configured interval
    MaxStaleness, FailedThreshold,
    DebounceWindow, MaxPendingAge, MinRebuildInterval, RebuildInterval,
    HotDisable,          \* graph_cache.enabled may be switched off
    MaxRestarts          \* bound of the process restarts

Tables == {"universe", "dream", "struct"}

ASSUME WritesAssumption ==
    IsFiniteSet(Writes) /\ Needs \in [Writes -> (SUBSET Tables) \ {{}}]
ASSUME ConfigAssumption ==
    /\ MaxAge \in Nat /\ MaxStaleness \in Nat /\ MaxStaleness < MaxAge
    /\ {DebounceWindow, MaxPendingAge, MinRebuildInterval, RebuildInterval} \subseteq Nat
    /\ FailedThreshold \in Nat /\ HotDisable \in BOOLEAN /\ MaxRestarts \in Nat

VARIABLES
    written,             \* committed writes
    wire,                \* committed writes whose NOTIFY is still to be handled
    link,                \* the listener connection: down, listening, up
    pending, carry,      \* Manager.pending, carryPending
    building,            \* Manager.building
    pendAge, carryAge,   \* age of firstPendingAt, of carryFirstAt
    quiet, sinceStart,   \* age of lastDirtyAt, of lastBuildStart
    fails,               \* consecutiveFails, saturated at the threshold
    current,             \* the published snapshot: [ready, has]
    enabled, booted,     \* the setting; the loop's local variable
    step,                \* where the rebuild loop is
    got,                 \* what the running build has read of each table
    reader,              \* a consumer inside GraphCacheServe
    restarts,
    signalled,           \* history: age of the first signal of each write, -1 without
    due                  \* history: writes the reader must find

manager == <<pending, carry, building, pendAge, carryAge, quiet, sinceStart, fails>>
loop == <<enabled, booted, step, got, restarts>>
vars == <<written, wire, link, manager, current, loop, reader, signalled, due>>

(* An unset threshold reads as three. *)
Threshold == IF FailedThreshold = 0 THEN 3 ELSE FailedThreshold

Idle == [at |-> "out", failed |-> FALSE, aged |-> FALSE, has |-> {}]
Empty == [ready |-> FALSE, has |-> {}]
NothingRead == [t \in Tables |-> {}]

Init ==
    /\ written = {} /\ wire = {} /\ link = "down"
    /\ pending = FALSE /\ carry = FALSE /\ building = FALSE
    /\ pendAge = 0 /\ carryAge = 0 /\ quiet = 0 /\ sinceStart = MaxAge /\ fails = 0
    /\ current = Empty
    /\ enabled \in {TRUE, ~HotDisable} /\ booted = FALSE /\ step = "top"
    /\ got = NothingRead /\ reader = Idle /\ restarts = 0
    /\ signalled = [w \in Writes |-> -1] /\ due = {}
-----------------------------------------------------------------------------
(* The database and the listener connection. *)

(* A transaction commits; its trigger notifies a listening connection. *)
Write(w) ==
    /\ w \notin written
    /\ written' = written \cup {w}
    /\ wire' = IF link = "down" THEN wire ELSE wire \cup {w}
    /\ UNCHANGED <<link, manager, current, loop, reader, signalled, due>>

(* A connection that is lost takes its notifications with it. *)
Disconnect ==
    /\ link # "down"
    /\ link' = "down" /\ wire' = {}
    /\ UNCHANGED <<written, manager, current, loop, reader, signalled, due>>

Listen ==
    /\ link = "down"
    /\ link' = "listening"
    /\ UNCHANGED <<written, wire, manager, current, loop, reader, signalled, due>>

(* Mutant: a signal during a build is not remembered apart. *)
MarkDirty_NoCarry ==
    /\ quiet' = 0
    /\ pending' = TRUE
    /\ pendAge' = IF pending THEN pendAge ELSE 0
    /\ UNCHANGED <<carry, carryAge, building, sinceStart, fails>>

(* A signal opens a pending episode or joins the open one; the first one
   during a build is remembered apart. *)
MarkDirty ==
    /\ quiet' = 0
    /\ pending' = TRUE
    /\ pendAge' = IF pending THEN pendAge ELSE 0
    /\ carry' = (carry \/ building)
    /\ carryAge' = IF building /\ ~carry THEN 0 ELSE carryAge
    /\ UNCHANGED <<building, sinceStart, fails>>

(* History: the writes the process has now been told of. *)
Signal(W) ==
    signalled' = [w \in Writes |-> IF w \in W /\ signalled[w] < 0 THEN 0 ELSE signalled[w]]

(* The handler of one ctx_link_write notification. *)
HandleNotification(w) ==
    /\ link = "up" /\ w \in wire
    /\ wire' = wire \ {w}
    /\ MarkDirty /\ Signal({w})
    /\ UNCHANGED <<written, link, current, loop, reader, due>>

(* After every (re)connect the cache is marked dirty once, whatever was missed. *)
HandleBacklog ==
    /\ link = "listening"
    /\ link' = "up"
    /\ MarkDirty /\ Signal(written)
    /\ UNCHANGED <<written, wire, current, loop, reader, due>>
-----------------------------------------------------------------------------
(* The rebuild loop. *)

Older(a) == IF a < MaxAge THEN a + 1 ELSE a

Tick ==
    /\ pendAge' = IF pending THEN Older(pendAge) ELSE pendAge
    /\ carryAge' = IF carry THEN Older(carryAge) ELSE carryAge
    /\ quiet' = IF pending THEN Older(quiet) ELSE 0
    /\ sinceStart' = Older(sinceStart)
    /\ signalled' = [w \in Writes |-> IF signalled[w] < 0 \/ w \in current.has
                                      THEN signalled[w] ELSE Older(signalled[w])]
    /\ UNCHANGED <<written, wire, link, pending, carry, building, fails, current, loop, reader, due>>

(* A settings reload switches the cache on or off. *)
Toggle ==
    /\ HotDisable
    /\ enabled' = ~enabled
    /\ UNCHANGED <<written, wire, link, manager, current, booted, step, got, restarts,
                   reader, signalled, due>>

(* A disabled loop forgets that it booted. *)
SleepDisabled ==
    /\ step = "top" /\ ~enabled /\ booted
    /\ booted' = FALSE
    /\ UNCHANGED <<written, wire, link, manager, current, enabled, step, got, restarts,
                   reader, signalled, due>>

(* Mutant: only the debounce starts a signalled rebuild. *)
graphCacheDue_DebounceOnly ==
    \/ /\ pending /\ quiet >= DebounceWindow
       /\ sinceStart >= MinRebuildInterval
    \/ sinceStart >= RebuildInterval

graphCacheDue ==
    \/ /\ pending /\ (quiet >= DebounceWindow \/ pendAge >= MaxPendingAge)
       /\ sinceStart >= MinRebuildInterval
    \/ sinceStart >= RebuildInterval

(* BeginBuild stamps the start and arms the carry; the signals so far stay
   pending until the commit. *)
BeginBuild ==
    /\ step = "top" /\ enabled /\ (booted => graphCacheDue)
    /\ step' = "universe" /\ booted' = TRUE /\ got' = NothingRead
    /\ building' = TRUE /\ carry' = FALSE /\ carryAge' = 0 /\ sinceStart' = 0
    /\ UNCHANGED <<written, wire, link, pending, pendAge, quiet, fails, current, enabled,
                   restarts, reader, signalled, due>>

AfterRead == [universe |-> "dream", dream |-> "struct", struct |-> "swap"]

(* One of the three reads of Build, in its own transaction. *)
BuildRead ==
    /\ step \in Tables
    /\ got' = [got EXCEPT ![step] = {w \in written : step \in Needs[w]}]
    /\ step' = AfterRead[step]
    /\ UNCHANGED <<written, wire, link, manager, current, enabled, booted, restarts,
                   reader, signalled, due>>

(* A read or the assembly fails: the old snapshot and the signals stay. *)
FailBuild ==
    /\ step \in Tables \cup {"swap"}
    /\ step' = "top" /\ got' = NothingRead
    /\ building' = FALSE /\ carry' = FALSE /\ carryAge' = 0
    /\ fails' = IF fails < Threshold THEN fails + 1 ELSE fails
    /\ UNCHANGED <<written, wire, link, pending, pendAge, quiet, sinceStart, current,
                   enabled, booted, restarts, reader, signalled, due>>

(* CommitBuild, first half: the atomic swap publishes what was read. *)
Swap ==
    /\ step = "swap"
    /\ current' = [ready |-> TRUE,
                   has |-> {w \in Writes : \A t \in Needs[w] : w \in got[t]}]
    /\ signalled' = [w \in Writes |-> IF w \in current'.has /\ signalled[w] > 0 THEN 0
                                      ELSE signalled[w]]
    /\ step' = "consume" /\ got' = NothingRead
    /\ UNCHANGED <<written, wire, link, manager, enabled, booted, restarts, reader, due>>

(* Mutant: a committed build leaves the carry armed. *)
Consume_StillBuilding ==
    /\ step = "consume"
    /\ step' = "top"
    /\ building' = building /\ fails' = 0 /\ carry' = FALSE /\ carryAge' = 0
    /\ pending' = carry
    /\ pendAge' = IF carry THEN carryAge ELSE 0
    /\ quiet' = IF carry THEN quiet ELSE 0
    /\ UNCHANGED <<written, wire, link, sinceStart, current, enabled, booted, got,
                   restarts, reader, signalled, due>>

(* CommitBuild, second half, under the mutex: the signals from before the
   build are consumed, the oldest one from during it is carried over. *)
Consume ==
    /\ step = "consume"
    /\ step' = "top"
    /\ building' = FALSE /\ fails' = 0 /\ carry' = FALSE /\ carryAge' = 0
    /\ pending' = carry
    /\ pendAge' = IF carry THEN carryAge ELSE 0
    /\ quiet' = IF carry THEN quiet ELSE 0
    /\ UNCHANGED <<written, wire, link, sinceStart, current, enabled, booted, got,
                   restarts, reader, signalled, due>>

(* The process dies and comes back with an empty manager. *)
Restart ==
    /\ restarts < MaxRestarts /\ restarts' = restarts + 1
    /\ link' = "down" /\ wire' = {}
    /\ pending' = FALSE /\ carry' = FALSE /\ building' = FALSE
    /\ pendAge' = 0 /\ carryAge' = 0 /\ quiet' = 0 /\ sinceStart' = MaxAge /\ fails' = 0
    /\ current' = Empty /\ booted' = FALSE /\ step' = "top" /\ got' = NothingRead
    /\ reader' = Idle /\ due' = {} /\ signalled' = [w \in Writes |-> -1]
    /\ UNCHANGED <<written, enabled>>
-----------------------------------------------------------------------------
(* A consumer in GraphCacheServe: the clock and the counters under the mutex,
   then the pointer twice. *)

JudgeState ==
    /\ reader.at = "out"
    /\ reader' = [Idle EXCEPT !.at = "judged", !.failed = fails >= Threshold,
                            !.aged = pending /\ pendAge > MaxStaleness]
    /\ due' = {w \in Writes : signalled[w] > MaxStaleness}
    /\ UNCHANGED <<written, wire, link, manager, current, loop, signalled>>

(* Mutant: an aged signal does not take the cache out of service. *)
Fresh_AnyAge(r) == ~r.failed /\ current.ready

Fresh(r) == ~r.failed /\ current.ready /\ ~r.aged

(* State: Failed outranks Empty outranks Degraded; anything but Fresh sends the
   consumer to SQL. *)
DeriveState ==
    /\ reader.at = "judged"
    /\ \/ Fresh(reader) /\ reader' = [Idle EXCEPT !.at = "fresh"] /\ due' = due
       \/ ~Fresh(reader) /\ reader' = Idle /\ due' = {}
    /\ UNCHANGED <<written, wire, link, manager, current, loop, signalled>>

Serve ==
    /\ reader.at = "fresh"
    /\ reader' = [Idle EXCEPT !.at = "served", !.has = current.has]
    /\ UNCHANGED <<written, wire, link, manager, current, loop, signalled, due>>

Leave ==
    /\ reader.at = "served"
    /\ reader' = Idle /\ due' = {}
    /\ UNCHANGED <<written, wire, link, manager, current, loop, signalled>>

Next ==
    \/ \E w \in Writes : Write(w)
    \/ Disconnect \/ Listen
    \/ \E w \in wire : HandleNotification(w)
    \/ HandleBacklog
    \/ Tick \/ Toggle \/ SleepDisabled
    \/ BeginBuild \/ BuildRead \/ FailBuild \/ Swap \/ Consume
    \/ Restart
    \/ JudgeState \/ DeriveState \/ Serve \/ Leave

Spec == Init /\ [][Next]_vars

(* The goroutines keep running, the connection is re-established and at some
   point lives long enough for its backlog, and no read or assembly of a build
   fails for ever. *)
Fairness ==
    /\ WF_vars(Tick) /\ WF_vars(Listen) /\ SF_vars(HandleBacklog)
    /\ WF_vars(\E w \in wire : HandleNotification(w))
    /\ WF_vars(BeginBuild) /\ SF_vars(Swap) /\ WF_vars(Consume)
    /\ \A t \in Tables : SF_vars(BuildRead /\ step = t)

FairSpec == Spec /\ Fairness
-----------------------------------------------------------------------------
Ages == 0..MaxAge

TypeOK ==
    /\ written \subseteq Writes /\ wire \subseteq written /\ link \in {"down", "listening", "up"}
    /\ {pending, carry, building, enabled, booted} \subseteq BOOLEAN
    /\ {pendAge, carryAge, quiet, sinceStart} \subseteq Ages
    /\ fails \in 0..Threshold /\ restarts \in 0..MaxRestarts
    /\ current \in [ready : BOOLEAN, has : SUBSET Writes]
    /\ step \in Tables \cup {"top", "swap", "consume"}
    /\ building = (step # "top")
    /\ got \in [Tables -> SUBSET Writes]
    /\ reader \in [at : {"out", "judged", "fresh", "served"}, failed : BOOLEAN,
                   aged : BOOLEAN, has : SUBSET Writes]
    /\ signalled \in [Writes -> Ages \cup {-1}] /\ due \subseteq Writes

(* No write is forgotten, whatever builds ran, failed or overlapped and
   whatever connections were lost: a committed write is in the published
   snapshot; or its signal was handled and keeps the cache pending with a dirty
   age of at least its own; or its NOTIFY is on the wire; or the listener still
   owes a backlog. *)
NoForgottenWrite ==
    \A w \in written :
      \/ w \in current.has
      \/ signalled[w] >= 0 /\ pending /\ pendAge >= signalled[w]
      \/ signalled[w] < 0 /\ (w \in wire \/ link # "up")

(* The consumer gate: a snapshot that is served holds every write that had been
   signalled for longer than MaxStaleness when the gate was asked. *)
ServedFresh == reader.at = "served" => due \subseteq reader.has

(* Every committed write reaches the published snapshot, by its signal alone. *)
WritesArrive == \A w \in Writes : w \in written ~> w \in current.has
=============================================================================
