-------------------------- MODULE EmbedCacheProofs --------------------------
(***************************************************************************)
(* Proofs about EmbedCache for every set of callers, texts and backends,   *)
(* every topology and edit, every size cap and any number of faults and    *)
(* crashes.                                                                *)
(***************************************************************************)
EXTENDS EmbedCache, SequenceTheorems, TLAPS

Row == [text : Texts, model : Models, by : Backends, known : BOOLEAN, agreed : BOOLEAN]

(* (text_hash, model) is a key. *)
KeyUnique(s) == \A i, j \in 1..Len(s) : s[i].text = s[j].text /\ s[i].model = s[j].model => i = j

(* What may be kept of the rows when some go and the others change places. *)
Good(r) == Global[r.by] /\ ModelFor[r.by] = r.model
CacheOK == /\ cache \in Seq(Row) /\ KeyUnique(cache)
           /\ \A k \in 1..Len(cache) : Good(cache[k])

(* A call walks a chain the pool once held, and asks it to insert only what a
   backend with a model answered. *)
CallRec == [at : {"out", "probe", "wire", "insert"}, text : Texts \cup {""},
            chain : Seq(Backends), i : Nat]
CallsOK ==
    /\ call \in [Callers -> CallRec]
    /\ \A c \in Callers :
          call[c].at # "out" =>
            /\ call[c].text \in Texts
            /\ call[c].i \in 1..Len(call[c].chain)
            /\ call[c].at = "insert" => ModelFor[call[c].chain[call[c].i]] # ""

ReloadsOK ==
    /\ topo \in Topologies /\ pool \in Topologies \cup {<<>>}
    /\ read \in [api : SUBSET Topologies, listener : SUBSET Topologies]
    /\ (read.listener # {}) = (handler = "store")

ProcessOK ==
    /\ proc \in {"down", "reconcile", "stamp", "up"}
    /\ handler \in {"idle", "store", "diff", "stamp"} /\ janitor \in {"idle", "size"}
    /\ linked \in BOOLEAN /\ notice \in BOOLEAN
    /\ faults \in 0..MaxFaults /\ crashes \in 0..MaxCrashes
    /\ proc # "up" => handler = "idle" /\ \A c \in Callers : call[c].at = "out"

(* Where the stamp is about to be replaced, the rows are already what it will
   say: none at boot, and those of the new baseline in the listener. *)
StampOK ==
    /\ StampTruthful
    /\ stamp = Unstamped => \A k \in 1..Len(cache) : ~cache[k].known
    /\ proc = "stamp" => cache = <<>>
    /\ handler = "stamp" => \A k \in 1..Len(cache) : cache[k].known => Host[cache[k].by] \in coupledPrev

IInv == CacheOK /\ CallsOK /\ ReloadsOK /\ ProcessOK /\ StampOK
-----------------------------------------------------------------------------
(* Sequences of rows. *)

(* t keeps some of the rows of s, in some order and each at most once. *)
KeepsSome(s, t) ==
    \E f \in [1..Len(t) -> 1..Len(s)] :
       /\ \A k \in 1..Len(t) : t[k] = s[f[k]]
       /\ \A k, l \in 1..Len(t) : f[k] = f[l] => k = l

(* The last access of a row moves it to the end. *)
LEMMA TouchKeeps ==
  ASSUME NEW R, cache \in Seq(R), NEW i \in 1..Len(cache)
  PROVE  Touch(i) \in Seq(R) /\ KeepsSome(cache, Touch(i))
<1> DEFINE n == Len(cache)
           a == SubSeq(cache, 1, i - 1)
           z == SubSeq(cache, i + 1, n)
           t == Append(a \o z, cache[i])
           f == [k \in 1..n |-> IF k < i THEN k ELSE IF k < n THEN k + 1 ELSE i]
<1>1. n \in Nat /\ i \in Nat /\ cache[i] \in R
  OBVIOUS
<1>2. /\ a \in Seq(R) /\ Len(a) = i - 1 /\ \A k \in 1..(i - 1) : a[k] = cache[k]
  BY <1>1, SubSeqProperties
<1>3. /\ z \in Seq(R) /\ Len(z) = n - i /\ \A k \in 1..(n - i) : z[k] = cache[i + k]
  BY <1>1, SubSeqProperties
<1> HIDE DEF a, z
<1>4. /\ a \o z \in Seq(R) /\ Len(a \o z) = n - 1
      /\ \A k \in 1..(n - 1) : (a \o z)[k] = IF k < i THEN cache[k] ELSE cache[k + 1]
  <2>1. /\ a \o z \in Seq(R) /\ Len(a \o z) = n - 1
        /\ \A k \in 1..(n - 1) : (a \o z)[k] = IF k <= i - 1 THEN a[k] ELSE z[k - (i - 1)]
    <3>1. /\ a \o z \in Seq(R) /\ Len(a \o z) = Len(a) + Len(z)
          /\ \A k \in 1..(Len(a) + Len(z)) :
                (a \o z)[k] = IF k <= Len(a) THEN a[k] ELSE z[k - Len(a)]
      BY <1>2, <1>3, ConcatProperties
    <3>2. Len(a) + Len(z) = n - 1
      BY <1>1, <1>2, <1>3
    <3> QED
      BY <1>2, <3>1, <3>2
  <2>2. ASSUME NEW k \in 1..(n - 1)
        PROVE  (a \o z)[k] = IF k < i THEN cache[k] ELSE cache[k + 1]
    <3>1. CASE k < i
      BY <1>1, <1>2, <2>1, <3>1
    <3>2. CASE k >= i
      <4>1. k - (i - 1) \in 1..(n - i) /\ i + (k - (i - 1)) = k + 1
        BY <1>1, <3>2
      <4>2. z[k - (i - 1)] = cache[k + 1]
        BY <1>3, <4>1
      <4> QED
        BY <1>1, <2>1, <3>2, <4>2
    <3>3. k < i \/ k >= i
      BY <1>1
    <3> QED
      BY <3>1, <3>2, <3>3
  <2> QED
    BY <2>1, <2>2
<1>5. /\ t \in Seq(R) /\ Len(t) = n /\ t[n] = cache[i]
      /\ \A k \in 1..(n - 1) : t[k] = IF k < i THEN cache[k] ELSE cache[k + 1]
  BY <1>1, <1>4, AppendProperties
<1> HIDE DEF t
<1>6. f \in [1..n -> 1..n]
  BY <1>1
<1>7. \A k \in 1..n : t[k] = cache[f[k]]
  BY <1>1, <1>5
<1>8. \A k, l \in 1..n : f[k] = f[l] => k = l
  BY <1>1
<1> HIDE DEF f
<1>9. KeepsSome(cache, t)
  BY <1>5, <1>6, <1>7, <1>8, SMTT(30) DEF KeepsSome
<1> QED
  BY <1>5, <1>9 DEF Touch, RemoveAt, t, a, z

(* An eviction keeps a stretch of the rows. *)
LEMMA SubSeqKeeps ==
  ASSUME NEW R, NEW s \in Seq(R), NEW m \in 1..(Len(s) + 1), NEW n \in (m - 1)..Len(s)
  PROVE  SubSeq(s, m, n) \in Seq(R) /\ KeepsSome(s, SubSeq(s, m, n))
<1> DEFINE t == SubSeq(s, m, n)
           f == [k \in 1..(n - m + 1) |-> m + k - 1]
<1>1. /\ t \in Seq(R) /\ Len(t) = n - m + 1
      /\ \A k \in 1..(n - m + 1) : t[k] = s[m + k - 1]
  BY SubSeqProperties
<1> HIDE DEF t
<1>2. f \in [1..Len(t) -> 1..Len(s)] /\ (\A k \in 1..Len(t) : t[k] = s[f[k]])
  BY <1>1
<1>3. \A k, l \in 1..Len(t) : f[k] = f[l] => k = l
  BY <1>1
<1> HIDE DEF f
<1> QED
  BY <1>1, <1>2, <1>3 DEF KeepsSome, t

(* A cache that is left alone, and one that is flushed, keep some rows. *)
LEMMA TrivialKeeps ==
  ASSUME NEW R, NEW s \in Seq(R)
  PROVE  KeepsSome(s, s) /\ KeepsSome(s, <<>>)
<1>1. KeepsSome(s, s)
  <2> DEFINE f == [k \in 1..Len(s) |-> k]
  <2>1. f \in [1..Len(s) -> 1..Len(s)] /\ \A k \in 1..Len(s) : f[k] = k
    OBVIOUS
  <2> HIDE DEF f
  <2> QED
    BY <2>1 DEF KeepsSome
<1>2. KeepsSome(s, <<>>)
  <2> DEFINE f == [k \in 1..0 |-> 1]
  <2>1. Len(<<>>) = 0 /\ f \in [1..0 -> 1..Len(s)] /\ 1..0 = {}
    OBVIOUS
  <2> HIDE DEF f
  <2> QED
    BY <2>1 DEF KeepsSome
<1> QED
  BY <1>1, <1>2

(* Whatever holds of every row, and the key, survive that. *)
LEMMA KeepsSomeCache ==
  ASSUME CacheOK, cache' \in Seq(Row), KeepsSome(cache, cache')
  PROVE  /\ CacheOK'
         /\ \A k \in 1..Len(cache') : \E l \in 1..Len(cache) : cache'[k] = cache[l]
<1>1. PICK f \in [1..Len(cache') -> 1..Len(cache)] :
        /\ \A k \in 1..Len(cache') : cache'[k] = cache[f[k]]
        /\ \A k, l \in 1..Len(cache') : f[k] = f[l] => k = l
  BY DEF KeepsSome
<1>2. KeyUnique(cache')
  BY <1>1, SMTT(30) DEF CacheOK, KeyUnique
<1>3. \A k \in 1..Len(cache') : Good(cache'[k])
  BY <1>1 DEF CacheOK
<1> QED
  BY <1>1, <1>2, <1>3 DEF CacheOK, KeyUnique

-----------------------------------------------------------------------------
(* The steps of the parts the proofs go through one by one. *)

rows == 1..Len(cache)
FromRows == \A k \in 1..Len(cache') : \E l \in rows : cache'[k] = cache[l]

(* A step that leaves the stamp alone and adds no row keeps the stamp truthful,
   unless it opens one of the two windows before a stamp is replaced. *)
LEMMA StampKept ==
  ASSUME CacheOK, CacheOK', StampOK, FromRows, stamp' = stamp,
         proc' = "stamp" => cache' = <<>>,
         handler' = "stamp" => handler = "stamp" /\ coupledPrev' = coupledPrev
  PROVE  StampOK'
<1>1. DOMAIN cache = 1..Len(cache) /\ DOMAIN cache' = 1..Len(cache')
  BY LenProperties DEF CacheOK
<1>2. StampTruthful'
  BY <1>1 DEF StampOK, StampTruthful, FromRows, rows
<1>3. stamp' = Unstamped => \A k \in 1..Len(cache') : ~cache'[k].known
  BY DEF StampOK, FromRows, rows, Unstamped
<1>4. handler' = "stamp"
        => \A k \in 1..Len(cache') : cache'[k].known => Host[cache'[k].by] \in coupledPrev'
  BY DEF StampOK, FromRows, rows
<1> QED
  BY <1>2, <1>3, <1>4 DEF StampOK, Unstamped

(* A cache that is left alone or flushed. *)
LEMMA CacheSame ==
  ASSUME CacheOK, cache' \in {cache, <<>>}
  PROVE  CacheOK' /\ FromRows
<1>1. cache' \in Seq(Row) /\ KeepsSome(cache, cache')
  <2>1. cache \in Seq(Row) /\ <<>> \in Seq(Row)
    BY EmptySeq DEF CacheOK
  <2>2. KeepsSome(cache, cache) /\ KeepsSome(cache, <<>>)
    BY <2>1, TrivialKeeps
  <2> QED
    BY <2>1, <2>2
<1> QED
  BY <1>1, KeepsSomeCache DEF FromRows, rows

(* Calls are left alone, or all of them are gone. *)
LEMMA CallsSame ==
  ASSUME CallsOK, call' \in {call, [c \in Callers |-> NoCall]}
  PROVE  CallsOK'
<1>1. CASE call' = call
  BY <1>1 DEF CallsOK
<1>2. CASE call' = [c \in Callers |-> NoCall]
  <2>1. NoCall \in CallRec /\ NoCall.at = "out"
    BY EmptySeq DEF NoCall, CallRec
  <2> QED
    BY <1>2, <2>1 DEF CallsOK
<1> QED
  BY <1>1, <1>2

(* A failing statement stays within its bound. *)
LEMMA FaultBound ==
  ASSUME faults \in 0..MaxFaults, crashes \in 0..MaxCrashes, Fault \/ UNCHANGED bounds
  PROVE  faults' \in 0..MaxFaults /\ crashes' \in 0..MaxCrashes
BY BackendAssumption DEF Fault, bounds

(* An empty cache has nothing to be wrong about. *)
LEMMA EmptyStampOK ==
  ASSUME cache = <<>>
  PROVE  StampOK
<1>1. Len(cache) = 0 /\ DOMAIN cache = {} /\ 1..0 = {}
  OBVIOUS
<1> QED
  BY <1>1 DEF StampOK, StampTruthful
-----------------------------------------------------------------------------
(* The start: an empty cache, no call, nothing read. *)
LEMMA InitIInv == Init => IInv
<1> SUFFICES ASSUME Init PROVE IInv
  OBVIOUS
<1>1. CacheOK
  <2>1. cache = <<>> /\ Len(cache) = 0 /\ 1..0 = {}
    BY DEF Init
  <2> QED
    BY <2>1, EmptySeq DEF CacheOK, KeyUnique
<1>2. CallsOK
  <2>1. NoCall \in CallRec /\ NoCall.at = "out"
    BY EmptySeq DEF NoCall, CallRec
  <2> QED
    BY <2>1 DEF Init, CallsOK
<1>3. ReloadsOK
  BY BackendAssumption DEF Init, ReloadsOK, NothingRead
<1>4. ProcessOK
  <2>1. \A c \in Callers : call[c].at = "out"
    BY DEF Init, NoCall
  <2>2. faults \in 0..MaxFaults /\ crashes \in 0..MaxCrashes
    BY BackendAssumption DEF Init
  <2> QED
    BY <2>1, <2>2 DEF Init, ProcessOK
<1>5. StampOK
  BY EmptyStampOK DEF Init
<1> QED
  BY <1>1, <1>2, <1>3, <1>4, <1>5 DEF IInv

(* Boot: the pool is loaded or the process comes up without it. *)
LEMMA BootLoadKeeps ==
  ASSUME IInv, bootLoadBackendPool
  PROVE  IInv'
<1> USE DEF IInv
<1>1. CacheOK' /\ FromRows
  BY CacheSame DEF bootLoadBackendPool
<1>2. CallsOK'
  BY CallsSame DEF bootLoadBackendPool
<1>3. ReloadsOK'
  BY DEF bootLoadBackendPool, ReloadsOK, ProcessOK
<1>4. ProcessOK'
  BY FaultBound DEF bootLoadBackendPool, ProcessOK
<1>5. StampOK'
  BY <1>1, StampKept DEF bootLoadBackendPool
<1> QED
  BY <1>1, <1>2, <1>3, <1>4, <1>5

(* Boot: the fingerprint on record is seeded over rows nobody vouches for, left
   alone when it agrees, or the cache is flushed before it is replaced. *)
LEMMA ReconcileKeeps ==
  ASSUME IInv, reconcileCoupledFingerprint
  PROVE  IInv'
<1> USE DEF IInv
<1>1. CacheOK' /\ FromRows
  BY CacheSame DEF reconcileCoupledFingerprint
<1>2. CallsOK'
  BY CallsSame DEF reconcileCoupledFingerprint
<1>3. ReloadsOK'
  BY DEF reconcileCoupledFingerprint, ReloadsOK
<1>4. ProcessOK'
  BY FaultBound DEF reconcileCoupledFingerprint, BootDone, ProcessOK
<1>5. StampOK'
  <2>1. handler' # "stamp"
    BY DEF reconcileCoupledFingerprint, ProcessOK
  <2>2. CASE stamp' = stamp
    BY <1>1, <2>1, <2>2, StampKept DEF reconcileCoupledFingerprint, BootDone
  <2>3. CASE /\ stamp = Unstamped /\ BootDone
             /\ stamp' = {coupledSetOf(pool)} /\ cache' = cache
    <3>1. DOMAIN cache = 1..Len(cache)
      BY LenProperties DEF CacheOK
    <3>2. \A k \in 1..Len(cache') : ~cache'[k].known
      BY <2>3 DEF StampOK
    <3>3. StampTruthful'
      BY <2>3, <3>1, <3>2 DEF StampTruthful
    <3> QED
      BY <2>1, <2>3, <3>2, <3>3 DEF StampOK, BootDone
  <2> QED
    BY <2>2, <2>3 DEF reconcileCoupledFingerprint
<1> QED
  BY <1>1, <1>2, <1>3, <1>4, <1>5

(* Boot: the stamp follows the flush and nothing was written in between. *)
LEMMA BootStampKeeps ==
  ASSUME IInv, BootStamp
  PROVE  IInv'
<1> USE DEF IInv
<1>1. CacheOK' /\ FromRows
  BY CacheSame DEF BootStamp
<1>2. CallsOK'
  BY CallsSame DEF BootStamp
<1>3. ReloadsOK'
  BY DEF BootStamp, ReloadsOK
<1>4. ProcessOK'
  BY FaultBound DEF BootStamp, BootDone, ProcessOK
<1>5. StampOK'
  <2>1. cache' = <<>>
    BY DEF BootStamp, StampOK
  <2>2. Len(cache') = 0 /\ DOMAIN cache' = {} /\ 1..0 = {}
    BY <2>1
  <2> QED
    BY <2>1, <2>2 DEF StampOK, StampTruthful
<1> QED
  BY <1>1, <1>2, <1>3, <1>4, <1>5

(* The process dies; the tables stay as they were between any two statements. *)
LEMMA CrashKeeps ==
  ASSUME IInv, Crash
  PROVE  IInv'
<1> USE DEF IInv
<1>1. CacheOK' /\ FromRows
  BY CacheSame DEF Crash
<1>2. CallsOK'
  BY CallsSame DEF Crash
<1>3. ReloadsOK'
  BY DEF Crash, ReloadsOK, NothingRead
<1>4. ProcessOK'
  <2>1. \A c \in Callers : call'[c].at = "out"
    BY DEF Crash, NoCall
  <2>2. faults' \in 0..MaxFaults /\ crashes' \in 0..MaxCrashes
    BY BackendAssumption DEF Crash, ProcessOK
  <2> QED
    BY <2>1, <2>2 DEF Crash, ProcessOK
<1>5. StampOK'
  BY <1>1, StampKept DEF Crash
<1> QED
  BY <1>1, <1>2, <1>3, <1>4, <1>5
-----------------------------------------------------------------------------
(* A backend row is edited; the cache and its stamp do not hear of it yet. *)
LEMMA EditKeeps ==
  ASSUME IInv, NEW t \in Topologies, EditBackends(t)
  PROVE  IInv'
<1> USE DEF IInv
<1>1. CacheOK' /\ FromRows
  BY CacheSame DEF EditBackends
<1>2. CallsOK'
  BY CallsSame DEF EditBackends
<1>3. ReloadsOK'
  BY DEF EditBackends, ReloadsOK, listener, bounds
<1>4. ProcessOK'
  BY FaultBound DEF EditBackends, ProcessOK, listener
<1>5. StampOK'
  BY <1>1, StampKept DEF EditBackends, StampOK, listener
<1> QED
  BY <1>1, <1>2, <1>3, <1>4, <1>5

(* The API's own reload, which may overtake the listener's. *)
LEMMA ApiReloadKeeps ==
  ASSUME IInv, reloadAfterMutation
  PROVE  IInv'
<1> USE DEF IInv
<1>1. CacheOK' /\ FromRows
  BY CacheSame DEF reloadAfterMutation
<1>2. CallsOK'
  BY CallsSame DEF reloadAfterMutation
<1>3. ReloadsOK'
  BY DEF reloadAfterMutation, ReloadsOK, listener, bounds
<1>4. ProcessOK'
  BY FaultBound DEF reloadAfterMutation, ProcessOK, listener
<1>5. StampOK'
  BY <1>1, StampKept DEF reloadAfterMutation, StampOK, listener
<1> QED
  BY <1>1, <1>2, <1>3, <1>4, <1>5

(* The listener connects. *)
LEMMA ConnectKeeps ==
  ASSUME IInv, Connect
  PROVE  IInv'
<1> USE DEF IInv
<1>1. CacheOK' /\ FromRows
  BY CacheSame DEF Connect
<1>2. CallsOK'
  BY CallsSame DEF Connect
<1>3. ReloadsOK'
  BY DEF Connect, ReloadsOK, listener, bounds
<1>4. ProcessOK'
  BY FaultBound DEF Connect, ProcessOK, listener
<1>5. StampOK'
  BY <1>1, StampKept DEF Connect, StampOK, listener
<1> QED
  BY <1>1, <1>2, <1>3, <1>4, <1>5

(* The listener loses its connection between two notifications. *)
LEMMA DisconnectKeeps ==
  ASSUME IInv, Disconnect
  PROVE  IInv'
<1> USE DEF IInv
<1>1. CacheOK' /\ FromRows
  BY CacheSame DEF Disconnect
<1>2. CallsOK'
  BY CallsSame DEF Disconnect
<1>3. ReloadsOK'
  BY DEF Disconnect, ReloadsOK, listener, bounds
<1>4. ProcessOK'
  BY FaultBound DEF Disconnect, ProcessOK, listener
<1>5. StampOK'
  BY <1>1, StampKept DEF Disconnect, StampOK, listener
<1> QED
  BY <1>1, <1>2, <1>3, <1>4, <1>5

(* A notification is taken and the pool is read again. *)
LEMMA HandleKeeps ==
  ASSUME IInv, HandleNotification
  PROVE  IInv'
<1> USE DEF IInv
<1>1. CacheOK' /\ FromRows
  BY CacheSame DEF HandleNotification
<1>2. CallsOK'
  BY CallsSame DEF HandleNotification
<1>3. ReloadsOK'
  BY DEF HandleNotification, ReloadsOK, listener, bounds
<1>4. ProcessOK'
  BY FaultBound DEF HandleNotification, ProcessOK, listener
<1>5. StampOK'
  BY <1>1, StampKept DEF HandleNotification, StampOK, listener
<1> QED
  BY <1>1, <1>2, <1>3, <1>4, <1>5

(* The reload publishes what it read. *)
LEMMA ReloadKeeps ==
  ASSUME IInv, Reload
  PROVE  IInv'
<1> USE DEF IInv
<1>1. CacheOK' /\ FromRows
  BY CacheSame DEF Reload
<1>2. CallsOK'
  BY CallsSame DEF Reload
<1>3. ReloadsOK'
  BY DEF Reload, ReloadsOK, listener, bounds
<1>4. ProcessOK'
  BY FaultBound DEF Reload, ProcessOK, listener
<1>5. StampOK'
  BY <1>1, StampKept DEF Reload, StampOK, listener
<1> QED
  BY <1>1, <1>2, <1>3, <1>4, <1>5

(* The listener compares: the baseline moves on only behind a flush. *)
LEMMA FlushKeeps ==
  ASSUME IInv, flushIfCoupledChanged
  PROVE  IInv'
<1> USE DEF IInv
<1>1. CacheOK' /\ FromRows
  BY CacheSame DEF flushIfCoupledChanged
<1>2. CallsOK'
  BY CallsSame DEF flushIfCoupledChanged
<1>3. ReloadsOK'
  BY DEF flushIfCoupledChanged, ReloadsOK
<1>4. ProcessOK'
  BY FaultBound DEF flushIfCoupledChanged, ProcessOK
<1>5. StampOK'
  <2>1. CASE cache' = <<>>
    <3>1. Len(cache') = 0 /\ DOMAIN cache' = {} /\ 1..0 = {}
      BY <2>1
    <3> QED
      BY <2>1, <3>1 DEF StampOK, StampTruthful
  <2>2. CASE handler' = "idle" /\ UNCHANGED <<cache, coupledPrev>>
    BY <1>1, <2>2, StampKept DEF flushIfCoupledChanged, StampOK
  <2> QED
    BY <2>1, <2>2 DEF flushIfCoupledChanged
<1> QED
  BY <1>1, <1>2, <1>3, <1>4, <1>5

(* The flushed set goes on record: rows written since the flush are of it. *)
LEMMA ListenerStampKeeps ==
  ASSUME IInv, ListenerStamp
  PROVE  IInv'
<1> USE DEF IInv
<1>1. CacheOK' /\ FromRows
  BY CacheSame DEF ListenerStamp
<1>2. CallsOK'
  BY CallsSame DEF ListenerStamp
<1>3. ReloadsOK'
  BY DEF ListenerStamp, ReloadsOK
<1>4. ProcessOK'
  BY FaultBound DEF ListenerStamp, ProcessOK
<1>5. StampOK'
  <2>1. CASE stamp' = {coupledPrev}
    <3>1. DOMAIN cache' = 1..Len(cache')
      BY <1>1, LenProperties DEF CacheOK
    <3>2. \A k \in 1..Len(cache') : cache'[k].known => Host[cache'[k].by] \in coupledPrev
      BY DEF ListenerStamp, StampOK
    <3>3. StampTruthful'
      BY <2>1, <3>1, <3>2 DEF StampTruthful
    <3> QED
      BY <2>1, <3>3 DEF StampOK, ListenerStamp, ProcessOK, Unstamped
  <2>2. CASE stamp' = stamp
    BY <1>1, <2>2, StampKept DEF ListenerStamp, StampOK
  <2> QED
    BY <2>1, <2>2 DEF ListenerStamp
<1> QED
  BY <1>1, <1>2, <1>3, <1>4, <1>5
-----------------------------------------------------------------------------
(* One call moves on. *)
LEMMA CallMoves ==
  ASSUME CallsOK, NEW c \in Callers, NEW r \in CallRec, call' = [call EXCEPT ![c] = r],
         r.at # "out" => /\ r.text \in Texts /\ r.i \in 1..Len(r.chain)
                         /\ r.at = "insert" => ModelFor[r.chain[r.i]] # ""
  PROVE  CallsOK'
<1>1. call' \in [Callers -> CallRec]
  BY DEF CallsOK
<1>2. \A d \in Callers : call'[d] = IF d = c THEN r ELSE call[d]
  BY DEF CallsOK
<1> QED
  BY <1>1, <1>2 DEF CallsOK

(* One call ends. *)
LEMMA CallEnds ==
  ASSUME CallsOK, NEW c \in Callers, call' = [call EXCEPT ![c] = NoCall]
  PROVE  CallsOK'
<1>1. NoCall \in CallRec /\ NoCall.at = "out"
  BY EmptySeq DEF NoCall, CallRec
<1> QED
  BY <1>1, CallMoves

(* Only an up process serves calls. *)
LEMMA CallerUp ==
  ASSUME IInv, NEW c \in Callers, call[c].at # "out"
  PROVE  proc = "up"
BY DEF IInv, ProcessOK

(* What a step of a caller leaves alone. *)
LEMMA CallerProcess ==
  ASSUME ReloadsOK, ProcessOK, proc = "up",
         UNCHANGED <<topo, stamp, proc, pool, read, listener, janitor>>,
         Fault \/ UNCHANGED bounds
  PROVE  ReloadsOK' /\ ProcessOK'
<1>1. ReloadsOK'
  BY DEF ReloadsOK, listener
<1>2. ProcessOK'
  BY FaultBound DEF ProcessOK, listener
<1> QED
  BY <1>1, <1>2

(* The chain of a call is a topology, hence a chain of backends. *)
LEMMA BeginKeeps ==
  ASSUME IInv, NEW c \in Callers, NEW text \in Texts, Begin(c, text)
  PROVE  IInv'
<1> USE DEF IInv
<1> DEFINE r == [at |-> "probe", text |-> text, chain |-> pool, i |-> 1]
<1>1. CacheOK' /\ FromRows
  BY CacheSame DEF Begin
<1>2. CallsOK'
  <2>1. pool \in Seq(Backends) /\ pool # <<>>
    BY BackendAssumption DEF Begin, ReloadsOK
  <2>2. 1 \in 1..Len(pool)
    BY <2>1
  <2>3. r \in CallRec /\ r.at = "probe" /\ r.text = text /\ r.chain = pool /\ r.i = 1
    BY <2>1 DEF CallRec
  <2>4. call' = [call EXCEPT ![c] = r]
    BY DEF Begin
  <2> HIDE DEF r
  <2> QED
    BY <2>2, <2>3, <2>4, CallMoves
<1>3. ReloadsOK' /\ ProcessOK'
  BY CallerProcess DEF Begin
<1>4. StampOK'
  BY <1>1, StampKept DEF Begin, StampOK, listener
<1> QED
  BY <1>1, <1>2, <1>3, <1>4

(* The rows that match a key, as positions of the cache. *)
LEMMA RowsPositions ==
  ASSUME CacheOK, NEW text, NEW model
  PROVE  /\ Rows(text, model) \subseteq 1..Len(cache)
         /\ \A i \in 1..Len(cache) : i \in Rows(text, model)
                <=> cache[i].text = text /\ cache[i].model = model
<1>1. DOMAIN cache = 1..Len(cache)
  BY LenProperties DEF CacheOK
<1> QED
  BY <1>1 DEF Rows

(* A row is touched. *)
LEMMA TouchCache ==
  ASSUME CacheOK, NEW i \in 1..Len(cache), cache' = Touch(i)
  PROVE  CacheOK' /\ FromRows
<1>1. Touch(i) \in Seq(Row) /\ KeepsSome(cache, Touch(i))
  BY TouchKeeps DEF CacheOK
<1>2. cache' \in Seq(Row) /\ KeepsSome(cache, cache')
  BY <1>1
<1> QED
  BY <1>2, KeepsSomeCache DEF FromRows, rows

(* A hit ends the call, a miss goes to the wire. *)
LEMMA ProbeKeeps ==
  ASSUME IInv, NEW c \in Callers, cacheProbe(c)
  PROVE  IInv'
<1> USE DEF IInv
<1> DEFINE head == call[c].chain[1]
           hits == IF cacheable(head) /\ ModelFor[head] # ""
                   THEN Rows(call[c].text, ModelFor[head]) ELSE {}
<1>1. hits \subseteq 1..Len(cache)
  <2>1. Rows(call[c].text, ModelFor[head]) \subseteq 1..Len(cache)
    BY RowsPositions
  <2> QED
    BY <2>1
<1>2. \/ /\ \E i \in hits : cache' = Touch(i)
         /\ call' = [call EXCEPT ![c] = NoCall]
         /\ UNCHANGED bounds
      \/ /\ cache' = cache /\ call' = [call EXCEPT ![c].at = "wire"]
         /\ Fault \/ UNCHANGED bounds
  BY DEF cacheProbe
<1>3. /\ call[c].at = "probe"
      /\ UNCHANGED <<topo, stamp, proc, pool, read, listener, janitor>>
  BY DEF cacheProbe
<1> HIDE DEF hits
<1>4. CacheOK' /\ FromRows
  BY <1>1, <1>2, CacheSame, TouchCache
<1>5. CallsOK'
  <2>1. CASE call' = [call EXCEPT ![c] = NoCall]
    BY <2>1, CallEnds
  <2>2. CASE call' = [call EXCEPT ![c].at = "wire"]
    <3> DEFINE r == [call[c] EXCEPT !.at = "wire"]
    <3>1. call[c] \in CallRec /\ call' = [call EXCEPT ![c] = r]
      BY <2>2 DEF CallsOK
    <3>2. /\ r \in CallRec /\ r.at = "wire" /\ r.text = call[c].text
          /\ r.chain = call[c].chain /\ r.i = call[c].i
      BY <3>1 DEF CallRec
    <3>3. call[c].text \in Texts /\ call[c].i \in 1..Len(call[c].chain)
      BY <1>3 DEF CallsOK
    <3> HIDE DEF r
    <3> QED
      BY <3>1, <3>2, <3>3, CallMoves
  <2> QED
    BY <1>2, <2>1, <2>2
<1>6. ReloadsOK' /\ ProcessOK'
  <2>1. proc = "up"
    BY <1>3, CallerUp
  <2> QED
    BY <1>2, <1>3, <2>1, CallerProcess
<1>7. StampOK'
  <2>1. proc = "up"
    BY <1>3, CallerUp
  <2> QED
    BY <1>3, <1>4, <2>1, StampKept DEF listener
<1> QED
  BY <1>4, <1>5, <1>6, <1>7

(* An answer has a model, a failure goes on while the chain lasts. *)
LEMMA WireKeeps ==
  ASSUME IInv, NEW c \in Callers, WireAttempt(c)
  PROVE  IInv'
<1> USE DEF IInv
<1>1. /\ call[c].at = "wire" /\ cache' = cache
      /\ UNCHANGED <<topo, stamp, proc, pool, read, listener, janitor>> /\ UNCHANGED bounds
  BY DEF WireAttempt
<1>2. CacheOK' /\ FromRows
  BY <1>1, CacheSame
<1>3. /\ call[c] \in CallRec /\ call[c].text \in Texts
      /\ call[c].i \in 1..Len(call[c].chain) /\ Len(call[c].chain) \in Nat
  <2>1. call[c] \in CallRec /\ call[c].text \in Texts /\ call[c].i \in 1..Len(call[c].chain)
    BY <1>1 DEF CallsOK
  <2>2. call[c].chain \in Seq(Backends)
    BY <2>1 DEF CallRec
  <2> QED
    BY <2>1, <2>2
<1>4. CallsOK'
  <2>1. CASE call' = [call EXCEPT ![c] = NoCall]
    BY <2>1, CallEnds
  <2>2. CASE /\ ModelFor[call[c].chain[call[c].i]] # ""
             /\ call' = [call EXCEPT ![c].at = "insert"]
    <3> DEFINE r == [call[c] EXCEPT !.at = "insert"]
    <3>1. call' = [call EXCEPT ![c] = r]
      BY <2>2 DEF CallsOK
    <3>2. /\ r \in CallRec /\ r.at = "insert" /\ r.text = call[c].text
          /\ r.chain = call[c].chain /\ r.i = call[c].i
      BY <1>3 DEF CallRec
    <3> HIDE DEF r
    <3> QED
      BY <1>3, <2>2, <3>1, <3>2, CallMoves, ZenonT(30)
  <2>3. CASE /\ call[c].i # Len(call[c].chain)
             /\ call' = [call EXCEPT ![c].i = @ + 1]
    <3> DEFINE r == [call[c] EXCEPT !.i = call[c].i + 1]
    <3>1. call' = [call EXCEPT ![c] = r]
      BY <2>3 DEF CallsOK
    <3>2. /\ r \in CallRec /\ r.at = "wire" /\ r.text = call[c].text
          /\ r.chain = call[c].chain /\ r.i = call[c].i + 1
      <4>1. call[c].i + 1 \in Nat
        BY <1>3
      <4> QED
        BY <1>1, <1>3, <4>1 DEF CallRec
    <3>3. call[c].i + 1 \in 1..Len(call[c].chain)
      BY <1>3, <2>3
    <3> HIDE DEF r
    <3> QED
      BY <1>3, <3>1, <3>2, <3>3, CallMoves
  <2> QED
    BY <2>1, <2>2, <2>3 DEF WireAttempt
<1>5. proc = "up"
  BY <1>1, CallerUp
<1>6. ReloadsOK' /\ ProcessOK'
  BY <1>1, <1>5, CallerProcess
<1>7. StampOK'
  BY <1>1, <1>2, <1>5, StampKept DEF listener
<1> QED
  BY <1>2, <1>4, <1>6, <1>7
-----------------------------------------------------------------------------
(* A row under a new key enters at the end. *)
LEMMA AppendRow ==
  ASSUME CacheOK, NEW r \in Row, Good(r), cache' = Append(cache, r),
         \A i \in 1..Len(cache) : ~(cache[i].text = r.text /\ cache[i].model = r.model)
  PROVE  /\ CacheOK'
         /\ \A k \in 1..Len(cache') : cache'[k] = r \/ \E l \in 1..Len(cache) : cache'[k] = cache[l]
<1>1. cache \in Seq(Row) /\ Len(cache) \in Nat
  BY DEF CacheOK
<1>2. /\ cache' \in Seq(Row) /\ Len(cache') = Len(cache) + 1
      /\ cache'[Len(cache) + 1] = r /\ \A k \in 1..Len(cache) : cache'[k] = cache[k]
  BY <1>1, AppendProperties
<1>3. \A k \in 1..Len(cache') : k = Len(cache) + 1 \/ k \in 1..Len(cache)
  BY <1>1, <1>2
<1>4. \A k \in 1..Len(cache') : Good(cache'[k])
  BY <1>2, <1>3 DEF CacheOK
<1>5. KeyUnique(cache')
  BY <1>2, <1>3 DEF CacheOK, KeyUnique
<1> QED
  BY <1>2, <1>3, <1>4, <1>5 DEF CacheOK, KeyUnique

(* The row of a caller that may insert is an operator's, under a model. *)
LEMMA InsertKeeps ==
  ASSUME IInv, NEW c \in Callers, Insert(c)
  PROVE  IInv'
<1> USE DEF IInv
<1> DEFINE b == call[c].chain[call[c].i]
           old == Conflicting(c)
           kn == stamp # Unstamped /\ Host[b] \in coupledPrev
           ag == stamp = {coupledPrev}
           row == [text |-> call[c].text, model |-> RowKey(c), by |-> b,
                   known |-> kn, agreed |-> ag]
<1>1. /\ call[c].at = "insert" /\ call' = [call EXCEPT ![c] = NoCall]
      /\ UNCHANGED <<topo, stamp, proc, pool, read, listener, janitor>>
      /\ Fault \/ UNCHANGED bounds
      /\ \/ cache' = cache
         \/ cacheable(b) /\ old = {} /\ cache' = Append(cache, row)
         \/ \E i \in old : cache' = Touch(i)
  BY DEF Insert
<1>2. proc = "up"
  BY <1>1, CallerUp
<1>3. /\ call[c].text \in Texts /\ b \in Backends /\ RowKey(c) \in Models
      /\ ModelFor[b] = RowKey(c)
  <2>1. /\ call[c] \in CallRec /\ call[c].text \in Texts /\ ModelFor[b] # ""
        /\ call[c].i \in 1..Len(call[c].chain)
    BY <1>1 DEF CallsOK
  <2>2. call[c].chain \in Seq(Backends)
    BY <2>1 DEF CallRec
  <2>3. b \in Backends
    BY <2>1, <2>2, ElementOfSeq
  <2> QED
    BY <2>1, <2>3 DEF RowKey, Models
<1>4. kn \in BOOLEAN /\ ag \in BOOLEAN
  OBVIOUS
<1>5. CallsOK'
  BY <1>1, CallEnds
<1>6. ReloadsOK' /\ ProcessOK'
  BY <1>1, <1>2, CallerProcess
<1>7. old \subseteq 1..Len(cache)
  <2>1. Rows(call[c].text, RowKey(c)) \subseteq 1..Len(cache)
    BY RowsPositions
  <2> QED
    BY <2>1 DEF Conflicting
<1>8. CASE cache' = cache \/ \E i \in old : cache' = Touch(i)
  <2>1. CacheOK' /\ FromRows
    BY <1>7, <1>8, CacheSame, TouchCache
  <2>2. StampOK'
    BY <1>1, <1>2, <2>1, StampKept DEF listener
  <2> QED
    BY <1>5, <1>6, <2>1, <2>2
<1>9. CASE cacheable(b) /\ old = {} /\ cache' = Append(cache, row)
  <2>1. kn => stamp # Unstamped /\ Host[b] \in coupledPrev
    OBVIOUS
  <2>2. ag => stamp = {coupledPrev}
    OBVIOUS
  <2> HIDE DEF kn, ag, b
  <2>3. /\ row \in Row /\ row.text = call[c].text /\ row.model = RowKey(c)
        /\ row.by = b /\ row.known = kn /\ row.agreed = ag
    BY <1>3, <1>4 DEF Row
  <2>4. \A i \in 1..Len(cache) : ~(cache[i].text = row.text /\ cache[i].model = row.model)
    <3>1. Rows(call[c].text, RowKey(c)) = {}
      BY <1>9 DEF Conflicting
    <3>2. \A i \in 1..Len(cache) : i \in Rows(call[c].text, RowKey(c))
             <=> cache[i].text = call[c].text /\ cache[i].model = RowKey(c)
      BY RowsPositions
    <3> QED
      BY <2>3, <3>1, <3>2
  <2> HIDE DEF row
  <2>5. Good(row)
    BY <1>3, <1>9, <2>3 DEF Good, cacheable
  <2>6. /\ CacheOK'
        /\ \A k \in 1..Len(cache') : cache'[k] = row \/ \E l \in 1..Len(cache) : cache'[k] = cache[l]
    BY <1>9, <2>3, <2>4, <2>5, AppendRow
  <2>7. DOMAIN cache = 1..Len(cache) /\ DOMAIN cache' = 1..Len(cache')
    BY <2>6, LenProperties DEF CacheOK
  <2>8. StampTruthful'
    <3> SUFFICES ASSUME NEW k \in 1..Len(cache'), NEW S \in stamp,
                        cache'[k].known, cache'[k].agreed
                 PROVE  Host[cache'[k].by] \in S
      BY <1>1, <2>7 DEF StampTruthful
    <3>1. CASE cache'[k] = row
      BY <2>1, <2>2, <2>3, <3>1
    <3>2. ASSUME NEW l \in 1..Len(cache), cache'[k] = cache[l]
          PROVE  Host[cache'[k].by] \in S
      BY <2>7, <3>2 DEF StampOK, StampTruthful
    <3> QED
      BY <2>6, <3>1, <3>2
  <2>9. stamp' = Unstamped => \A k \in 1..Len(cache') : ~cache'[k].known
    BY <1>1, <2>1, <2>3, <2>6 DEF StampOK
  <2>10. handler' = "stamp"
           => \A k \in 1..Len(cache') : cache'[k].known => Host[cache'[k].by] \in coupledPrev'
    BY <1>1, <2>1, <2>3, <2>6 DEF StampOK, listener
  <2>11. StampOK'
    BY <1>1, <1>2, <2>8, <2>9, <2>10 DEF StampOK
  <2> QED
    BY <1>5, <1>6, <2>6, <2>11
<1> QED
  BY <1>1, <1>8, <1>9
-----------------------------------------------------------------------------
(* A stretch of the rows survives an eviction. *)
LEMMA EvictCache ==
  ASSUME CacheOK, NEW m \in 1..(Len(cache) + 1), NEW n \in (m - 1)..Len(cache),
         cache' = SubSeq(cache, m, n)
  PROVE  CacheOK' /\ FromRows
<1>1. SubSeq(cache, m, n) \in Seq(Row) /\ KeepsSome(cache, SubSeq(cache, m, n))
  BY SubSeqKeeps DEF CacheOK
<1>2. cache' \in Seq(Row) /\ KeepsSome(cache, cache')
  BY <1>1
<1> QED
  BY <1>2, KeepsSomeCache DEF FromRows, rows

(* The eviction by age. *)
LEMMA EvictTTLKeeps ==
  ASSUME IInv, EvictTTL
  PROVE  IInv'
<1> USE DEF IInv
<1>1. Len(cache) \in Nat
  BY DEF CacheOK
<1>2. CacheOK' /\ FromRows
  <2>1. CASE cache' = cache
    BY <2>1, CacheSame
  <2>2. ASSUME NEW k \in 0..(IF TTL THEN Len(cache) ELSE 0),
               cache' = SubSeq(cache, k + 1, Len(cache))
        PROVE  CacheOK' /\ FromRows
    <3>1. k \in 0..Len(cache)
      BY <1>1
    <3>2. PICK m \in 1..(Len(cache) + 1) : m = k + 1
      BY <1>1, <3>1
    <3>3. PICK n \in (m - 1)..Len(cache) : n = Len(cache)
      BY <1>1, <3>1, <3>2
    <3>4. cache' = SubSeq(cache, m, n)
      BY <2>2, <3>2, <3>3
    <3> QED
      BY <3>4, EvictCache
  <2> QED
    BY <2>1, <2>2 DEF EvictTTL
<1>3. CallsOK'
  BY CallsSame DEF EvictTTL
<1>4. ReloadsOK'
  BY DEF EvictTTL, ReloadsOK, listener
<1>5. ProcessOK'
  BY FaultBound DEF EvictTTL, ProcessOK, listener
<1>6. StampOK'
  BY <1>2, StampKept DEF EvictTTL, listener
<1> QED
  BY <1>2, <1>3, <1>4, <1>5, <1>6

(* The eviction by size, which may run while the boot has not ended. *)
LEMMA EvictSizeKeeps ==
  ASSUME IInv, EvictSize
  PROVE  IInv'
<1> USE DEF IInv
<1>1. Len(cache) \in Nat
  BY DEF CacheOK
<1>2. CacheOK' /\ FromRows
  <2>1. CASE cache' = cache
    BY <2>1, CacheSame
  <2>2. CASE MaxRows > 0 /\ Len(cache) > MaxRows /\ cache' = SubSeq(cache, 1, MaxRows)
    <3>1. 1 \in 1..(Len(cache) + 1) /\ MaxRows \in (1 - 1)..Len(cache)
      BY <1>1, <2>2, BackendAssumption
    <3> QED
      BY <2>2, <3>1, EvictCache
  <2> QED
    BY <2>1, <2>2 DEF EvictSize
<1>3. CallsOK'
  BY CallsSame DEF EvictSize
<1>4. ReloadsOK'
  BY DEF EvictSize, ReloadsOK, listener
<1>5. ProcessOK'
  BY FaultBound DEF EvictSize, ProcessOK, listener
<1>6. StampOK'
  <2>1. proc = "stamp" => cache' = <<>>
    <3> HAVE proc = "stamp"
    <3>1. cache = <<>> /\ Len(cache) = 0
      BY DEF StampOK
    <3> QED
      BY <3>1, BackendAssumption DEF EvictSize
  <2> QED
    BY <1>2, <2>1, StampKept DEF EvictSize, listener
<1> QED
  BY <1>2, <1>3, <1>4, <1>5, <1>6
-----------------------------------------------------------------------------
(* Every step of boot, listener, callers and janitor keeps the invariant. *)
THEOREM NextIInv == IInv /\ [Next]_vars => IInv'
<1> SUFFICES ASSUME IInv, [Next]_vars PROVE IInv'
  OBVIOUS
<1>1. CASE UNCHANGED vars
  <2>1. CacheOK' /\ FromRows
    BY <1>1, CacheSame DEF IInv, vars
  <2>2. CallsOK'
    BY <1>1, CallsSame DEF IInv, vars
  <2>3. ReloadsOK'
    BY <1>1 DEF IInv, ReloadsOK, vars, listener
  <2>4. ProcessOK'
    BY <1>1 DEF IInv, ProcessOK, vars, listener, bounds
  <2>5. StampOK'
    BY <1>1, <2>1, StampKept DEF IInv, StampOK, vars, listener
  <2> QED
    BY <2>1, <2>2, <2>3, <2>4, <2>5 DEF IInv
<1> QED
  BY <1>1, BootLoadKeeps, ReconcileKeeps, BootStampKeeps, CrashKeeps, EditKeeps,
     ApiReloadKeeps, ConnectKeeps, DisconnectKeeps, HandleKeeps, ReloadKeeps, FlushKeeps,
     ListenerStampKeeps, BeginKeeps, ProbeKeeps, WireKeeps, InsertKeeps, EvictTTLKeeps,
     EvictSizeKeeps DEF Next

(* The invariant holds in every reachable state. *)
THEOREM Invariance == Spec => []IInv
BY InitIInv, NextIInv, PTL DEF Spec

(* The state is well formed and (text_hash, model) stays a key of
   context_embed_cache: no two calls, whatever they fail over to and however
   their statements interleave with the evictions, leave two rows of one text
   and one model. *)
THEOREM EmbedCacheTypeCorrect == Spec => []TypeOK
<1>1. IInv => TypeOK
  <2> SUFFICES ASSUME IInv PROVE TypeOK
    OBVIOUS
  <2>1. DOMAIN cache = 1..Len(cache)
    BY LenProperties DEF IInv, CacheOK
  <2>2. ASSUME NEW i \in DOMAIN cache
        PROVE  cache[i] \in Row /\ Rows(cache[i].text, cache[i].model) = {i}
    <3>1. cache[i] \in Row
      BY <2>1, <2>2 DEF IInv, CacheOK
    <3>2. \A j \in DOMAIN cache : j \in Rows(cache[i].text, cache[i].model) <=> j = i
      BY <2>1 DEF IInv, CacheOK, KeyUnique, Rows
    <3> QED
      BY <3>1, <3>2 DEF Rows
  <2>3. \A t \in read.api \cup read.listener : t \in Topologies
    BY DEF IInv, ReloadsOK
  <2>4. \A c \in Callers : call[c].at \in {"out", "probe", "wire", "insert"}
    BY DEF IInv, CallsOK, CallRec
  <2> QED
    BY <2>2, <2>3, <2>4 DEF IInv, ReloadsOK, ProcessOK, TypeOK, Row
<1> QED
  BY <1>1, Invariance, PTL

(* Every vector in the shared cache was computed by an operator backend with the
   model the row is keyed on, whatever chain the pool held when the call began,
   wherever the call failed over to and however often the pool was replaced. *)
THEOREM RowsAreGenuine == Spec => []RowsGenuine
<1>1. IInv => RowsGenuine
  <2> SUFFICES ASSUME IInv PROVE RowsGenuine
    OBVIOUS
  <2>1. DOMAIN cache = 1..Len(cache)
    BY LenProperties DEF IInv, CacheOK
  <2> QED
    BY <2>1 DEF IInv, CacheOK, Good, RowsGenuine
<1> QED
  BY <1>1, Invariance, PTL

(* The fingerprint the next boot compares with can be trusted: no row is left
   that was written by a host of the set stamped at its time and whose host the
   set stamped now does not hold, whatever edits, lost connections, overtaking
   reloads, failed statements and crashes between flush and stamp. *)
THEOREM StampIsTruthful == Spec => []StampTruthful
<1>1. IInv => StampTruthful
  BY DEF IInv, StampOK
<1> QED
  BY <1>1, Invariance, PTL
=============================================================================
