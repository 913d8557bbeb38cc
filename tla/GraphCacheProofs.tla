-------------------------- MODULE GraphCacheProofs --------------------------
(***************************************************************************)
(* Proofs about GraphCache for every set of writes, every choice of the    *)
(* tables they change and every configuration of ages and intervals.       *)
(***************************************************************************)
EXTENDS GraphCache, TLAPS

(* The reads a running build has behind it. *)
Done(t) == \/ step = "dream" /\ t = "universe"
           \/ step = "struct" /\ t \in {"universe", "dream"}
           \/ step \in {"swap", "consume"}

(* Everything the running build has read so far of w, it has seen w in. *)
Seen(w) == \A t \in Needs[w] : Done(t) => w \in got[t]

(* Only committed writes are published, read or signalled. *)
Committed ==
    /\ current.has \subseteq written
    /\ \A t \in Tables : got[t] \subseteq written
    /\ \A w \in Writes : w \notin written => signalled[w] = -1

(* A build that is going to replace the snapshot keeps what that one holds. *)
Grows == step \in Tables \cup {"swap"} => \A w \in current.has : Seen(w)

(* What a signal from during the build leaves behind for the consume: the carry
   mark, unless the build reads the write itself. *)
Carried(w) == carry /\ carryAge >= signalled[w]
CarryCovers ==
    \A w \in written :
      signalled[w] >= 0 =>
        /\ step \in Tables \cup {"swap"} => Carried(w) \/ Seen(w)
        /\ step = "consume" => Carried(w) \/ w \in current.has

(* What the reader's verdict means for the snapshot that is current now. *)
JudgedFresh ==
    /\ reader.at = "judged" /\ ~reader.aged => due \subseteq current.has
    /\ reader.at = "fresh" => due \subseteq current.has

IInv == /\ TypeOK /\ NoForgottenWrite /\ ServedFresh
        /\ Committed /\ Grows /\ CarryCovers /\ JudgedFresh
-----------------------------------------------------------------------------
(* An unset threshold reads as three, so the fail counter has room to count. *)
LEMMA ThresholdType == Threshold \in Nat /\ Threshold > 0
  BY ConfigAssumption DEF Threshold

(* Init: nothing is written, read, published or served. *)
LEMMA InitIInv == Init => IInv
<1> SUFFICES ASSUME Init PROVE IInv
  OBVIOUS
<1>1. TypeOK
  <2>1. {pending, carry, building, enabled, booted} \subseteq BOOLEAN
    BY ConfigAssumption, Zenon DEF Init
  <2>2. /\ {pendAge, carryAge, quiet, sinceStart} \subseteq Ages
        /\ fails \in 0..Threshold /\ restarts \in 0..MaxRestarts
    BY ConfigAssumption, ThresholdType DEF Init, Ages
  <2>3. building = (step # "top")
    BY DEF Init
  <2> QED
    BY <2>1, <2>2, <2>3, ConfigAssumption DEF Init, TypeOK, Ages, Empty, Idle, NothingRead, Tables
<1> QED
  BY <1>1 DEF Init, IInv, NoForgottenWrite, ServedFresh, Committed, Grows, CarryCovers,
              JudgedFresh, Empty, Idle, NothingRead, Tables

(* A commit adds a write nobody has been told of. *)
LEMMA WriteStep == ASSUME IInv, NEW w \in Writes, Write(w) PROVE IInv'
<1> USE WritesAssumption, ConfigAssumption DEF IInv
<1>1. TypeOK'
  BY DEF TypeOK, Ages, Threshold, Tables, NothingRead, Write, manager, loop
<1>2. NoForgottenWrite'
  BY DEF TypeOK, Ages, NoForgottenWrite, Committed, Write, manager, loop
<1>3. ServedFresh' /\ JudgedFresh'
  BY DEF TypeOK, ServedFresh, JudgedFresh, NoForgottenWrite, Committed, Write, manager, loop
<1>4. Committed'
  BY DEF TypeOK, Committed, Tables, NothingRead, Write, manager, loop
<1>5. Grows'
  BY DEF TypeOK, Grows, Seen, Done, Committed, Tables, Write, manager, loop
<1>6. CarryCovers'
  BY DEF TypeOK, Ages, CarryCovers, Carried, Grows, Seen, Done, Committed, Tables, Write, manager, loop
<1> QED
  BY <1>1, <1>2, <1>3, <1>4, <1>5, <1>6

(* A lost connection leaves the listener owing a backlog. *)
LEMMA DisconnectStep == ASSUME IInv, Disconnect PROVE IInv'
<1> USE WritesAssumption, ConfigAssumption DEF IInv
<1>1. TypeOK'
  BY DEF TypeOK, Ages, Threshold, Tables, NothingRead, Disconnect, manager, loop
<1>2. NoForgottenWrite'
  BY DEF TypeOK, Ages, NoForgottenWrite, Committed, Disconnect, manager, loop
<1>3. ServedFresh' /\ JudgedFresh'
  BY DEF TypeOK, ServedFresh, JudgedFresh, NoForgottenWrite, Committed, Disconnect, manager, loop
<1>4. Committed'
  BY DEF TypeOK, Committed, Tables, NothingRead, Disconnect, manager, loop
<1>5. Grows'
  BY DEF TypeOK, Grows, Seen, Done, Committed, Tables, Disconnect, manager, loop
<1>6. CarryCovers'
  BY DEF TypeOK, Ages, CarryCovers, Carried, Grows, Seen, Done, Committed, Tables, Disconnect, manager, loop
<1> QED
  BY <1>1, <1>2, <1>3, <1>4, <1>5, <1>6

(* A new connection still owes the backlog. *)
LEMMA ListenStep == ASSUME IInv, Listen PROVE IInv'
<1> USE WritesAssumption, ConfigAssumption DEF IInv
<1>1. TypeOK'
  BY DEF TypeOK, Ages, Threshold, Tables, NothingRead, Listen, manager, loop
<1>2. NoForgottenWrite'
  BY DEF TypeOK, Ages, NoForgottenWrite, Committed, Listen, manager, loop
<1>3. ServedFresh' /\ JudgedFresh'
  BY DEF TypeOK, ServedFresh, JudgedFresh, NoForgottenWrite, Committed, Listen, manager, loop
<1>4. Committed'
  BY DEF TypeOK, Committed, Tables, NothingRead, Listen, manager, loop
<1>5. Grows'
  BY DEF TypeOK, Grows, Seen, Done, Committed, Tables, Listen, manager, loop
<1>6. CarryCovers'
  BY DEF TypeOK, Ages, CarryCovers, Carried, Grows, Seen, Done, Committed, Tables, Listen, manager, loop
<1> QED
  BY <1>1, <1>2, <1>3, <1>4, <1>5, <1>6

(* A handled notification is remembered as pending and, during a build, as a carry. *)
LEMMA NotificationStep == ASSUME IInv, NEW w \in wire, HandleNotification(w) PROVE IInv'
<1> USE WritesAssumption, ConfigAssumption DEF IInv
<1>1. TypeOK'
  BY DEF TypeOK, Ages, Threshold, Tables, NothingRead, HandleNotification, MarkDirty, Signal, loop
<1>2. NoForgottenWrite'
  BY DEF TypeOK, Ages, NoForgottenWrite, Committed, HandleNotification, MarkDirty, Signal, loop
<1>3. ServedFresh' /\ JudgedFresh'
  BY DEF TypeOK, ServedFresh, JudgedFresh, NoForgottenWrite, Committed, HandleNotification, MarkDirty, Signal, loop
<1>4. Committed'
  BY DEF TypeOK, Committed, Tables, NothingRead, HandleNotification, MarkDirty, Signal, loop
<1>5. Grows'
  BY DEF TypeOK, Grows, Seen, Done, Committed, Tables, HandleNotification, MarkDirty, Signal, loop
<1>6. CarryCovers'
  <2> SUFFICES ASSUME NEW v \in written, signalled'[v] >= 0, building
               PROVE  \/ Carried(v)'
                      \/ step # "consume" /\ Seen(v)'
                      \/ step = "consume" /\ v \in current.has
    BY DEF TypeOK, CarryCovers, Tables, HandleNotification, MarkDirty, Signal, loop
  <2>1. carry' /\ v \in Writes /\ carryAge \in Nat
    BY DEF TypeOK, Ages, HandleNotification, MarkDirty, Signal, loop
  <2>2. CASE signalled[v] < 0
    BY <2>1, <2>2, SMTT(30) DEF TypeOK, Ages, CarryCovers, Carried, HandleNotification, MarkDirty, Signal, loop
  <2>3. CASE signalled[v] >= 0 /\ step # "consume"
    <3>1. Carried(v) \/ Seen(v)
      BY <2>3 DEF TypeOK, CarryCovers
    <3>2. Seen(v) => Seen(v)'
      BY DEF Seen, Done, HandleNotification, MarkDirty, Signal, loop
    <3>3. Carried(v) => Carried(v)'
      BY <2>1, <2>3 DEF TypeOK, Ages, Carried, HandleNotification, MarkDirty, Signal, loop
    <3> QED
      BY <2>3, <3>1, <3>2, <3>3
  <2>4. CASE signalled[v] >= 0 /\ step = "consume"
    BY <2>1, <2>4 DEF TypeOK, Ages, CarryCovers, Carried, HandleNotification, MarkDirty, Signal, loop
  <2> QED
    BY <2>1, <2>2, <2>3, <2>4 DEF TypeOK, Ages
<1> QED
  BY <1>1, <1>2, <1>3, <1>4, <1>5, <1>6

(* The backlog signals every committed write at once. *)
LEMMA BacklogStep == ASSUME IInv, HandleBacklog PROVE IInv'
<1> USE WritesAssumption, ConfigAssumption DEF IInv
<1>1. TypeOK'
  BY DEF TypeOK, Ages, Threshold, Tables, NothingRead, HandleBacklog, MarkDirty, Signal, loop
<1>2. NoForgottenWrite'
  BY DEF TypeOK, Ages, NoForgottenWrite, Committed, HandleBacklog, MarkDirty, Signal, loop
<1>3. ServedFresh' /\ JudgedFresh'
  BY DEF TypeOK, ServedFresh, JudgedFresh, NoForgottenWrite, Committed, HandleBacklog, MarkDirty, Signal, loop
<1>4. Committed'
  BY DEF TypeOK, Committed, Tables, NothingRead, HandleBacklog, MarkDirty, Signal, loop
<1>5. Grows'
  BY DEF TypeOK, Grows, Seen, Done, Committed, Tables, HandleBacklog, MarkDirty, Signal, loop
<1>6. CarryCovers'
  <2> SUFFICES ASSUME NEW v \in written, signalled'[v] >= 0, building
               PROVE  \/ Carried(v)'
                      \/ step # "consume" /\ Seen(v)'
                      \/ step = "consume" /\ v \in current.has
    BY DEF TypeOK, CarryCovers, Tables, HandleBacklog, MarkDirty, Signal, loop
  <2>1. carry' /\ v \in Writes /\ carryAge \in Nat
    BY DEF TypeOK, Ages, HandleBacklog, MarkDirty, Signal, loop
  <2>2. CASE signalled[v] < 0
    BY <2>1, <2>2, SMTT(30) DEF TypeOK, Ages, CarryCovers, Carried, HandleBacklog, MarkDirty, Signal, loop
  <2>3. CASE signalled[v] >= 0 /\ step # "consume"
    <3>1. Carried(v) \/ Seen(v)
      BY <2>3 DEF TypeOK, CarryCovers
    <3>2. Seen(v) => Seen(v)'
      BY DEF Seen, Done, HandleBacklog, MarkDirty, Signal, loop
    <3>3. Carried(v) => Carried(v)'
      BY <2>1, <2>3 DEF TypeOK, Ages, Carried, HandleBacklog, MarkDirty, Signal, loop
    <3> QED
      BY <2>3, <3>1, <3>2, <3>3
  <2>4. CASE signalled[v] >= 0 /\ step = "consume"
    BY <2>1, <2>4 DEF TypeOK, Ages, CarryCovers, Carried, HandleBacklog, MarkDirty, Signal, loop
  <2> QED
    BY <2>1, <2>2, <2>3, <2>4 DEF TypeOK, Ages
<1> QED
  BY <1>1, <1>2, <1>3, <1>4, <1>5, <1>6

(* Time ages the pending mark, the carry and the signals alike. *)
LEMMA TickStep == ASSUME IInv, Tick PROVE IInv'
<1> USE WritesAssumption, ConfigAssumption DEF IInv
<1>1. TypeOK'
  BY DEF TypeOK, Ages, Threshold, Tables, NothingRead, Tick, Older, loop
<1>2. NoForgottenWrite'
  BY DEF TypeOK, Ages, NoForgottenWrite, Committed, Tick, Older, loop
<1>3. ServedFresh' /\ JudgedFresh'
  BY DEF TypeOK, ServedFresh, JudgedFresh, NoForgottenWrite, Committed, Tick, Older, loop
<1>4. Committed'
  BY DEF TypeOK, Committed, Tables, NothingRead, Tick, Older, loop
<1>5. Grows'
  BY DEF TypeOK, Grows, Seen, Done, Committed, Tables, Tick, Older, loop
<1>6. CarryCovers'
  BY DEF TypeOK, Ages, CarryCovers, Carried, Grows, Seen, Done, Committed, Tables, Tick, Older, loop
<1> QED
  BY <1>1, <1>2, <1>3, <1>4, <1>5, <1>6

(* The setting changes nothing the manager holds. *)
LEMMA ToggleStep == ASSUME IInv, Toggle \/ SleepDisabled PROVE IInv'
<1> USE WritesAssumption, ConfigAssumption DEF IInv
<1>1. TypeOK'
  BY DEF TypeOK, Ages, Threshold, Tables, NothingRead, Toggle, SleepDisabled, manager
<1>2. NoForgottenWrite'
  BY DEF TypeOK, Ages, NoForgottenWrite, Committed, Toggle, SleepDisabled, manager
<1>3. ServedFresh' /\ JudgedFresh'
  BY DEF TypeOK, ServedFresh, JudgedFresh, NoForgottenWrite, Committed, Toggle, SleepDisabled, manager
<1>4. Committed'
  BY DEF TypeOK, Committed, Tables, NothingRead, Toggle, SleepDisabled, manager
<1>5. Grows'
  BY DEF TypeOK, Grows, Seen, Done, Committed, Tables, Toggle, SleepDisabled, manager
<1>6. CarryCovers'
  BY DEF TypeOK, Ages, CarryCovers, Carried, Grows, Seen, Done, Committed, Tables, Toggle, SleepDisabled, manager
<1> QED
  BY <1>1, <1>2, <1>3, <1>4, <1>5, <1>6

(* A build begins with no read behind it and no carry. *)
LEMMA BeginStep == ASSUME IInv, BeginBuild PROVE IInv'
<1> USE WritesAssumption, ConfigAssumption DEF IInv
<1>1. TypeOK'
  <2>1. {pending, carry, building, enabled, booted}' \subseteq BOOLEAN
    BY Zenon DEF TypeOK, BeginBuild
  <2>2. building' = (step' # "top")
    BY DEF TypeOK, BeginBuild
  <2> QED
    BY <2>1, <2>2, ThresholdType DEF TypeOK, Ages, Tables, NothingRead, BeginBuild
<1>2. NoForgottenWrite'
  BY DEF TypeOK, Ages, NoForgottenWrite, Committed, BeginBuild
<1>3. ServedFresh' /\ JudgedFresh'
  BY DEF TypeOK, ServedFresh, JudgedFresh, NoForgottenWrite, Committed, BeginBuild
<1>4. Committed'
  BY DEF TypeOK, Committed, Tables, NothingRead, BeginBuild
<1>5. Grows'
  BY DEF TypeOK, Grows, Seen, Done, Committed, Tables, BeginBuild
<1>6. CarryCovers'
  BY DEF TypeOK, Ages, CarryCovers, Carried, Grows, Seen, Done, Committed, Tables, BeginBuild
<1> QED
  BY <1>1, <1>2, <1>3, <1>4, <1>5, <1>6

(* A read sees every write committed before it. *)
LEMMA ReadStep == ASSUME IInv, BuildRead PROVE IInv'
<1> USE WritesAssumption, ConfigAssumption DEF IInv
<1>1. TypeOK'
  BY DEF TypeOK, Ages, Threshold, Tables, NothingRead, BuildRead, AfterRead, manager
<1>2. NoForgottenWrite'
  BY DEF TypeOK, Ages, NoForgottenWrite, Committed, BuildRead, AfterRead, manager
<1>3. ServedFresh' /\ JudgedFresh'
  BY DEF TypeOK, ServedFresh, JudgedFresh, NoForgottenWrite, Committed, BuildRead, AfterRead, manager
<1>4. Committed'
  BY DEF TypeOK, Committed, Tables, NothingRead, BuildRead, AfterRead, manager
<1>5. Grows'
  BY DEF TypeOK, Grows, Seen, Done, Committed, Tables, BuildRead, AfterRead, manager
<1>6. CarryCovers'
  BY DEF TypeOK, Ages, CarryCovers, Carried, Grows, Seen, Done, Committed, Tables, BuildRead, AfterRead, manager
<1> QED
  BY <1>1, <1>2, <1>3, <1>4, <1>5, <1>6

(* A failed build leaves the pending mark and the old snapshot. *)
LEMMA FailStep == ASSUME IInv, FailBuild PROVE IInv'
<1> USE WritesAssumption, ConfigAssumption DEF IInv
<1>1. TypeOK'
  <2>1. {pending, carry, building, enabled, booted}' \subseteq BOOLEAN
    BY Zenon DEF TypeOK, FailBuild
  <2>2. building' = (step' # "top")
    BY DEF TypeOK, FailBuild
  <2> QED
    BY <2>1, <2>2, ThresholdType DEF TypeOK, Ages, Tables, NothingRead, FailBuild
<1>2. NoForgottenWrite'
  BY DEF TypeOK, Ages, NoForgottenWrite, Committed, FailBuild
<1>3. ServedFresh' /\ JudgedFresh'
  BY DEF TypeOK, ServedFresh, JudgedFresh, NoForgottenWrite, Committed, FailBuild
<1>4. Committed'
  BY DEF TypeOK, Committed, Tables, NothingRead, FailBuild
<1>5. Grows'
  BY DEF TypeOK, Grows, Seen, Done, Committed, Tables, FailBuild
<1>6. CarryCovers'
  BY DEF TypeOK, Ages, CarryCovers, Carried, Grows, Seen, Done, Committed, Tables, FailBuild
<1> QED
  BY <1>1, <1>2, <1>3, <1>4, <1>5, <1>6

(* The swap publishes every write all the reads it needs have seen. *)
LEMMA SwapStep == ASSUME IInv, Swap PROVE IInv'
<1> USE WritesAssumption, ConfigAssumption DEF IInv
<1> DEFINE fetched == {w \in Writes : \A t \in Needs[w] : w \in got[t]}
<1>1. TypeOK'
  BY DEF TypeOK, Ages, Threshold, Tables, NothingRead, Swap, manager
<1>2. current'.has = fetched /\ current.has \subseteq fetched
  BY DEF TypeOK, Grows, Seen, Done, Swap
<1>3. fetched \subseteq written
  BY DEF Committed
<1>4. \A w \in written : signalled[w] >= 0 => Carried(w) \/ w \in fetched
  BY DEF TypeOK, CarryCovers, Seen, Done, Swap
<1>5. signalled' = [w \in Writes |-> IF w \in fetched /\ signalled[w] > 0 THEN 0
                                     ELSE signalled[w]]
  BY <1>2 DEF Swap
<1> HIDE DEF fetched
<1>6. NoForgottenWrite'
  BY <1>2, <1>5 DEF TypeOK, Ages, NoForgottenWrite, Swap, manager
<1>7. ServedFresh' /\ JudgedFresh'
  BY <1>2 DEF TypeOK, ServedFresh, JudgedFresh, Swap
<1>8. Committed'
  BY <1>2, <1>3, <1>5 DEF TypeOK, Committed, NothingRead, Swap
<1>9. Grows'
  BY DEF Grows, Tables, Swap
<1>10. CarryCovers'
  BY <1>2, <1>4, <1>5 DEF TypeOK, Ages, CarryCovers, Carried, Tables, Swap, manager
<1> QED
  BY <1>1, <1>6, <1>7, <1>8, <1>9, <1>10

(* The consume drops only signals the new snapshot answers. *)
LEMMA ConsumeStep == ASSUME IInv, Consume PROVE IInv'
<1> USE WritesAssumption, ConfigAssumption DEF IInv
<1>1. TypeOK'
  <2>1. {pending, carry, building, enabled, booted}' \subseteq BOOLEAN
    BY Zenon DEF TypeOK, Consume
  <2>2. building' = (step' # "top")
    BY DEF TypeOK, Consume
  <2> QED
    BY <2>1, <2>2, ThresholdType DEF TypeOK, Ages, Tables, NothingRead, Consume
<1>2. NoForgottenWrite'
  BY DEF TypeOK, Ages, NoForgottenWrite, CarryCovers, Carried, Consume
<1>3. ServedFresh' /\ JudgedFresh'
  BY DEF TypeOK, ServedFresh, JudgedFresh, NoForgottenWrite, Committed, Consume
<1>4. Committed'
  BY DEF TypeOK, Committed, Tables, NothingRead, Consume
<1>5. Grows'
  BY DEF TypeOK, Grows, Seen, Done, Committed, Tables, Consume
<1>6. CarryCovers'
  BY DEF TypeOK, Ages, CarryCovers, Carried, Grows, Seen, Done, Committed, Tables, Consume
<1> QED
  BY <1>1, <1>2, <1>3, <1>4, <1>5, <1>6

(* A restarted process owes a backlog for everything. *)
LEMMA RestartStep == ASSUME IInv, Restart PROVE IInv'
<1> USE WritesAssumption, ConfigAssumption DEF IInv
<1>1. TypeOK'
  <2>1. {pending, carry, building, enabled, booted}' \subseteq BOOLEAN
    BY Zenon DEF TypeOK, Restart, Empty, Idle, NothingRead
  <2>2. building' = (step' # "top")
    BY DEF TypeOK, Restart, Empty, Idle
  <2> QED
    BY <2>1, <2>2, ThresholdType DEF TypeOK, Ages, Tables, NothingRead, Restart, Empty, Idle
<1>2. NoForgottenWrite'
  BY DEF TypeOK, Ages, NoForgottenWrite, Committed, Restart, Empty, Idle, NothingRead
<1>3. ServedFresh' /\ JudgedFresh'
  BY DEF TypeOK, ServedFresh, JudgedFresh, NoForgottenWrite, Committed, Restart, Empty, Idle, NothingRead
<1>4. Committed'
  BY DEF TypeOK, Committed, Tables, NothingRead, Restart, Empty, Idle, NothingRead
<1>5. Grows'
  BY DEF TypeOK, Grows, Seen, Done, Committed, Tables, Restart, Empty, Idle, NothingRead
<1>6. CarryCovers'
  BY DEF TypeOK, Ages, CarryCovers, Carried, Grows, Seen, Done, Committed, Tables, Restart, Empty, Idle, NothingRead
<1> QED
  BY <1>1, <1>2, <1>3, <1>4, <1>5, <1>6

(* The verdict is aged when some signal it must honour is not yet published. *)
LEMMA JudgeStep == ASSUME IInv, JudgeState PROVE IInv'
<1> USE WritesAssumption, ConfigAssumption DEF IInv
<1>1. TypeOK'
  <2>1. {pending, carry, building, enabled, booted}' \subseteq BOOLEAN
    BY Zenon DEF TypeOK, JudgeState, Idle, manager, loop
  <2>2. building' = (step' # "top")
    BY DEF TypeOK, JudgeState, Idle, manager, loop
  <2>3. reader' \in [at : {"out", "judged", "fresh", "served"}, failed : BOOLEAN,
                    aged : BOOLEAN, has : SUBSET Writes]
    <3>1. (fails >= Threshold) \in BOOLEAN /\ (pending /\ pendAge > MaxStaleness) \in BOOLEAN
      OBVIOUS
    <3> QED
      BY <3>1, Zenon DEF JudgeState, Idle
  <2>4. due' \subseteq Writes
    BY DEF JudgeState
  <2> QED
    BY <2>1, <2>2, <2>3, <2>4 DEF TypeOK, JudgeState, manager, loop
<1>2. NoForgottenWrite'
  BY DEF TypeOK, Ages, NoForgottenWrite, Committed, JudgeState, Idle, manager, loop
<1>3. ServedFresh' /\ JudgedFresh'
  <2>1. reader'.at = "judged" /\ reader'.aged = (pending /\ pendAge > MaxStaleness)
    BY DEF JudgeState, Idle
  <2>2. ~(pending /\ pendAge > MaxStaleness) => due' \subseteq current.has
    BY DEF TypeOK, Ages, NoForgottenWrite, Committed, JudgeState
  <2> QED
    BY <2>1, <2>2 DEF ServedFresh, JudgedFresh, JudgeState
<1>4. Committed'
  BY DEF TypeOK, Committed, Tables, NothingRead, JudgeState, Idle, manager, loop
<1>5. Grows'
  BY DEF TypeOK, Grows, Seen, Done, Committed, Tables, JudgeState, Idle, manager, loop
<1>6. CarryCovers'
  BY DEF TypeOK, Ages, CarryCovers, Carried, Grows, Seen, Done, Committed, Tables, JudgeState, Idle, manager, loop
<1> QED
  BY <1>1, <1>2, <1>3, <1>4, <1>5, <1>6

(* Only a verdict that is not aged leads to a served snapshot. *)
LEMMA DeriveStep == ASSUME IInv, DeriveState \/ Serve \/ Leave PROVE IInv'
<1> USE WritesAssumption, ConfigAssumption DEF IInv
<1>1. TypeOK'
  <2>1. {pending, carry, building, enabled, booted}' \subseteq BOOLEAN
    BY Zenon DEF TypeOK, DeriveState, Fresh, Serve, Leave, Idle, manager, loop
  <2>2. building' = (step' # "top")
    BY DEF TypeOK, DeriveState, Fresh, Serve, Leave, Idle, manager, loop
  <2>3. reader' \in [at : {"out", "judged", "fresh", "served"}, failed : BOOLEAN,
                    aged : BOOLEAN, has : SUBSET Writes]
    <3>1. CASE reader' = Idle
      BY <3>1 DEF Idle
    <3>2. CASE reader' = [Idle EXCEPT !.at = "fresh"]
      BY <3>2 DEF Idle
    <3>3. CASE Serve
      BY <3>3 DEF TypeOK, Serve, Idle
    <3> QED
      BY <3>1, <3>2, <3>3 DEF DeriveState, Leave
  <2>4. due' \subseteq Writes
    BY DEF TypeOK, DeriveState, Serve, Leave
  <2> QED
    BY <2>1, <2>2, <2>3, <2>4 DEF TypeOK, DeriveState, Serve, Leave, manager, loop
<1>2. NoForgottenWrite'
  BY DEF TypeOK, Ages, NoForgottenWrite, Committed, DeriveState, Fresh, Serve, Leave, Idle, manager, loop
<1>3. ServedFresh' /\ JudgedFresh'
  BY DEF TypeOK, ServedFresh, JudgedFresh, NoForgottenWrite, Committed, DeriveState, Fresh, Serve, Leave, Idle, manager, loop
<1>4. Committed'
  BY DEF TypeOK, Committed, Tables, NothingRead, DeriveState, Fresh, Serve, Leave, Idle, manager, loop
<1>5. Grows'
  BY DEF TypeOK, Grows, Seen, Done, Committed, Tables, DeriveState, Fresh, Serve, Leave, Idle, manager, loop
<1>6. CarryCovers'
  BY DEF TypeOK, Ages, CarryCovers, Carried, Grows, Seen, Done, Committed, Tables, DeriveState, Fresh, Serve, Leave, Idle, manager, loop
<1> QED
  BY <1>1, <1>2, <1>3, <1>4, <1>5, <1>6

(* A step that changes nothing changes none of it. *)
LEMMA StutterStep == ASSUME IInv, UNCHANGED vars PROVE IInv'
  BY DEF IInv, TypeOK, NoForgottenWrite, ServedFresh, Committed, Grows, CarryCovers,
         Carried, JudgedFresh, Seen, Done, vars, manager, loop

(* Every step of the listener, the loop, the clock and the consumer keeps it. *)
LEMMA NextIInv == IInv /\ [Next]_vars => IInv'
<1> SUFFICES ASSUME IInv, [Next]_vars PROVE IInv'
  OBVIOUS
<1>1. CASE \E w \in Writes : Write(w)
  BY <1>1, WriteStep
<1>2. CASE Disconnect \/ Listen
  BY <1>2, DisconnectStep, ListenStep
<1>3. CASE \E w \in wire : HandleNotification(w)
  BY <1>3, NotificationStep
<1>4. CASE HandleBacklog
  BY <1>4, BacklogStep
<1>5. CASE Tick
  BY <1>5, TickStep
<1>6. CASE Toggle \/ SleepDisabled
  BY <1>6, ToggleStep
<1>7. CASE BeginBuild \/ BuildRead \/ FailBuild
  BY <1>7, BeginStep, ReadStep, FailStep
<1>8. CASE Swap \/ Consume
  BY <1>8, SwapStep, ConsumeStep
<1>9. CASE Restart
  BY <1>9, RestartStep
<1>10. CASE JudgeState
  BY <1>10, JudgeStep
<1>11. CASE DeriveState \/ Serve \/ Leave
  BY <1>11, DeriveStep
<1>12. CASE UNCHANGED vars
  BY <1>12, StutterStep
<1> QED
  BY <1>1, <1>2, <1>3, <1>4, <1>5, <1>6, <1>7, <1>8, <1>9, <1>10, <1>11, <1>12 DEF Next

(* IInv is an invariant of the manager, its loop and its consumer. *)
LEMMA Invariance == Spec => []IInv
<1> QED
  BY InitIInv, NextIInv, PTL DEF Spec

(* The manager's fields keep their types, and building is exactly the time
   between BeginBuild and the end of its build. *)
THEOREM GraphTypeCorrect == Spec => []TypeOK
<1>1. IInv => TypeOK
  BY DEF IInv
<1> QED
  BY <1>1, Invariance, PTL

(* markDirty, the carry of CommitBuild and the backlog of a reconnect together
   forget no write, however builds, failures, lost connections and restarts
   fall between them. *)
THEOREM NothingForgotten == Spec => []NoForgottenWrite
<1>1. IInv => NoForgottenWrite
  BY DEF IInv
<1> QED
  BY <1>1, Invariance, PTL

(* GraphCacheServe hands out no snapshot that misses a write signalled longer
   than MaxStaleness before the gate was asked. *)
THEOREM ServesFresh == Spec => []ServedFresh
<1>1. IInv => ServedFresh
  BY DEF IInv
<1> QED
  BY <1>1, Invariance, PTL

(* A published snapshot is never replaced by one that lost a write: only a
   restart, which publishes nothing, takes a write away. *)
SnapshotGrows == [][current'.ready => current.has \subseteq current'.has]_vars

(* Build reads from nothing, yet CommitBuild never takes a published write back. *)
THEOREM SnapshotsGrow == Spec => SnapshotGrows
<1>1. IInv /\ [Next]_vars => [current'.ready => current.has \subseteq current'.has]_vars
  <2> SUFFICES ASSUME IInv, [Next]_vars, current' # current, current'.ready
               PROVE  current.has \subseteq current'.has
    BY DEF IInv, TypeOK
  <2>1. Swap
    <3>1. ~Restart
      BY DEF Restart, Empty
    <3> QED
      BY <3>1 DEF Next, vars, Write, Disconnect, Listen, HandleNotification, HandleBacklog,
         Tick, Toggle, SleepDisabled, BeginBuild, BuildRead, FailBuild, Consume,
         JudgeState, DeriveState, Serve, Leave
  <2> QED
    BY <2>1, WritesAssumption DEF IInv, TypeOK, Grows, Seen, Done, Swap
<1> QED
  BY <1>1, Invariance, PTL DEF Spec, SnapshotGrows
=============================================================================
