--------------------------- MODULE ParallelProofs ---------------------------
(***************************************************************************)
(* Proofs about Parallel, for any number of calls, rows, manifests and     *)
(* digests that keep bases apart: cached rows stay current, calls that run *)
(* side by side hold no row that one of them wrote, and the calls that     *)
(* commit are serialisable.                                                *)
(***************************************************************************)
EXTENDS Parallel, TLAPS

(***************************************************************************)
(* What a manifest lets a call reach, and what it lets it write            *)
(***************************************************************************)
Digests(bases) == {Digest[<<b, a>>] : b \in bases, a \in Arg}

Reach(c) ==
    manifest[c].reads \cup manifest[c].writes
        \cup Digests(manifest[c].keyed_reads \cup manifest[c].keyed_writes)

Own(c) == manifest[c].writes \cup Digests(manifest[c].keyed_writes)

(* Calls run side by side only when neither may write what the other may   *)
(* reach.                                                                  *)
NoneDisturbed ==
    \A c, d \in Calls : c # d /\ Running(c) /\ Running(d) => ~Disturbs(c, d)

(* HASH authorises digests under declared bases only. *)
KeysDeclared ==
    \A c \in Calls :
        /\ keyed_authorized_reads[c] \subseteq Reach(c)
        /\ keyed_authorized_writes[c] \subseteq Own(c)

(* The rows a call holds are rows it may reach, and the ones it wrote are  *)
(* its own.                                                                *)
RowsDeclared ==
    \A c \in Calls, k \in Key :
        /\ loaded[c][k] # Absent => k \in Reach(c)
        /\ storage[c][k] # Absent => k \in Own(c)

(* A call that waits holds nothing. *)
WaitsEmpty ==
    \A c \in Calls : phase[c] = "waiting" =>
        /\ \A k \in Key : loaded[c][k] = Absent /\ storage[c][k] = Absent
        /\ log[c] = <<>>

LogsTyped == log \in [Calls -> Seq(Entry)]

SideInv ==
    /\ TypeOK
    /\ LogsTyped
    /\ NoneDisturbed
    /\ KeysDeclared
    /\ RowsDeclared
    /\ WaitsEmpty
    /\ LoadedRowsCurrent

(***************************************************************************)
(* Types                                                                   *)
(***************************************************************************)
LEMMA TypeInit == Init => TypeOK
  BY WordsAssumption DEF Init, TypeOK

LEMMA RowIsWord ==
  ASSUME TypeOK, NEW c \in Calls, NEW k \in Key
  PROVE  Row(c, k) \in Word
  BY DEF TypeOK, Row

LEMMA LookedType ==
  ASSUME TypeOK, NEW c \in Calls, NEW k \in Key
  PROVE  Looked(c, k) \in [Calls -> [Key -> Word \cup {Absent}]]
  BY DEF TypeOK, Looked

(* The type of the state is kept by every step. *)
LEMMA TypeStep == TypeOK /\ [Next]_vars => TypeOK'
<1> SUFFICES ASSUME TypeOK, [Next]_vars PROVE TypeOK'
  OBVIOUS
<1>1. CASE UNCHANGED vars
  BY <1>1 DEF TypeOK, vars, locals
<1>2. ASSUME NEW c \in Calls, Start(c) PROVE TypeOK'
  BY <1>2 DEF TypeOK, Start, locals
<1>3. ASSUME NEW c \in Calls, Halt(c) PROVE TypeOK'
  <2>1. ledger' \in [Key -> Word]
    BY <1>3 DEF TypeOK, Halt
  <2>2. QED
    BY <1>3, <2>1 DEF TypeOK, Halt, locals
<1>4. ASSUME NEW c \in Calls, Fault(c) PROVE TypeOK'
  BY <1>4 DEF TypeOK, Fault, locals
<1>5. ASSUME NEW c \in Calls, NEW k \in Key, SLoad(c, k) PROVE TypeOK'
  BY <1>5, LookedType DEF TypeOK, SLoad
<1>6. ASSUME NEW c \in Calls, NEW k \in Key, NEW v \in Word, SStore(c, k, v)
      PROVE  TypeOK'
  <2>1. storage' \in [Calls -> [Key -> Word \cup {Absent}]]
    BY <1>6 DEF TypeOK, SStore
  <2>2. loaded' \in [Calls -> [Key -> Word \cup {Absent}]]
    BY <1>6, LookedType DEF TypeOK, SStore
  <2>3. QED
    BY <1>6, <2>1, <2>2 DEF TypeOK, SStore
<1>7. ASSUME NEW c \in Calls, NEW b \in Base, NEW a \in Arg, Hash(c, b, a)
      PROVE  TypeOK'
  <2>1. Digest[<<b, a>>] \in Key
    BY DigestAssumption
  <2>2. QED
    BY <1>7, <2>1 DEF TypeOK, Hash
<1>8. QED
  BY <1>1, <1>2, <1>3, <1>4, <1>5, <1>6, <1>7 DEF Next, Step

(***************************************************************************)
(* Calls side by side                                                      *)
(***************************************************************************)
LEMMA ManifestType ==
  ASSUME TypeOK, NEW c \in Calls
  PROVE  /\ manifest[c] \in Manifests
         /\ manifest[c].reads \subseteq Key /\ manifest[c].writes \subseteq Key
         /\ manifest[c].keyed_reads \subseteq Base
         /\ manifest[c].keyed_writes \subseteq Base
  BY ManifestsAssumption DEF TypeOK, Manifest

(* What a call may write is out of reach of a call it does not disturb:    *)
(* the node compares slots and bases, and digests keep bases apart.        *)
LEMMA Apart ==
  ASSUME TypeOK, NEW c \in Calls, NEW d \in Calls, ~Disturbs(c, d),
         NEW k \in Own(c)
  PROVE  k \notin Reach(d)
<1> SUFFICES ASSUME k \in Reach(d) PROVE FALSE
  OBVIOUS
<1>1. /\ manifest[c] \in Manifests /\ manifest[d] \in Manifests
      /\ manifest[c].keyed_writes \subseteq Base
      /\ manifest[d].keyed_reads \subseteq Base
      /\ manifest[d].keyed_writes \subseteq Base
  BY ManifestType
<1>2. CASE k \in manifest[c].writes
  <2>1. k \notin manifest[d].reads \cup manifest[d].writes
    BY <1>2 DEF Disturbs
  <2>2. PICK b \in manifest[d].keyed_reads \cup manifest[d].keyed_writes, a \in Arg :
            k = Digest[<<b, a>>]
    BY <2>1 DEF Reach, Digests
  <2>3. QED
    BY <1>1, <1>2, <2>2, DigestAssumption
<1>3. CASE k \in Digests(manifest[c].keyed_writes)
  <2>1. PICK b \in manifest[c].keyed_writes, a \in Arg : k = Digest[<<b, a>>]
    BY <1>3 DEF Digests
  <2>2. k \notin manifest[d].reads \cup manifest[d].writes
    BY <1>1, <2>1, DigestAssumption
  <2>3. PICK e \in manifest[d].keyed_reads \cup manifest[d].keyed_writes, f \in Arg :
            k = Digest[<<e, f>>]
    BY <2>2 DEF Reach, Digests
  <2>4. b = e
    BY <1>1, <2>1, <2>3, DigestAssumption
  <2>5. QED
    BY <2>1, <2>3, <2>4 DEF Disturbs
<1>4. QED
  BY <1>2, <1>3 DEF Own

LEMMA OwnInReach ==
  ASSUME NEW c \in Calls PROVE Own(c) \subseteq Reach(c)
  BY DEF Own, Reach, Digests

(* No step changes a manifest. *)
LEMMA ReachKept ==
  ASSUME [Next]_vars
  PROVE  /\ manifest' = manifest
         /\ \A c \in Calls : Reach(c)' = Reach(c) /\ Own(c)' = Own(c)
<1>1. manifest' = manifest
  BY DEF Next, Step, Start, Halt, Fault, SLoad, SStore, Hash, vars
<1>2. QED
  BY <1>1 DEF Reach, Own, Digests

LEMMA SideInit == Init => SideInv
<1> SUFFICES ASSUME Init PROVE SideInv
  OBVIOUS
<1>1. TypeOK
  BY TypeInit
<1>2. NoneDisturbed
  BY DEF Init, NoneDisturbed, Running
<1>3. KeysDeclared
  BY DEF Init, KeysDeclared
<1>4. RowsDeclared
  BY DEF Init, RowsDeclared
<1>5. WaitsEmpty
  BY DEF Init, WaitsEmpty
<1>6. LoadedRowsCurrent
  BY DEF Init, LoadedRowsCurrent
<1>7. LogsTyped
  BY DEF Init, LogsTyped
<1>8. QED
  BY <1>1, <1>2, <1>3, <1>4, <1>5, <1>6, <1>7 DEF SideInv

(* The look-up adds nothing to the cache but the row of the ledger. *)
LEMMA LookedRows ==
  ASSUME TypeOK, NEW c \in Calls, NEW k \in Key,
         NEW d \in Calls, NEW j \in Key
  PROVE  \/ Looked(c, k)[d][j] = loaded[d][j]
         \/ d = c /\ j = k /\ Looked(c, k)[d][j] = ledger[k]
  BY DEF TypeOK, Looked

(* A read or a write leaves in the cache what was there, or the row of the *)
(* ledger at a key the call may reach.                                     *)
LEMMA CacheStep ==
  ASSUME SideInv, NEW c \in Calls, NEW k \in Key,
         \/ SLoad(c, k)
         \/ \E v \in Word : SStore(c, k, v)
  PROVE  \A d \in Calls, j \in Key :
            \/ loaded'[d][j] = loaded[d][j]
            \/ d = c /\ j = k /\ k \in Reach(c) /\ loaded'[d][j] = ledger[k]
<1>1. TypeOK /\ KeysDeclared
  BY DEF SideInv
<1>2. k \in Reach(c)
  BY <1>1, OwnInReach DEF SLoad, SStore, CanRead, CanWrite, KeysDeclared, Reach, Own
<1>3. loaded' = Looked(c, k) \/ loaded' = loaded
  BY DEF SLoad, SStore
<1>4. QED
  BY <1>1, <1>2, <1>3, LookedRows

(***************************************************************************)
(* The invariant of calls side by side                                     *)
(***************************************************************************)
LEMMA RunsFromStart ==
  ASSUME TypeOK, [Next]_vars, NEW d \in Calls, Running(d)', ~Running(d)
  PROVE  Start(d)
<1>1. phase' # phase
  BY DEF Running
<1>2. PICK c \in Calls : Start(c) \/ Halt(c) \/ Fault(c)
  BY <1>1 DEF Next, Step, SLoad, SStore, Hash, vars
<1>3. ~Halt(c) /\ ~Fault(c)
  BY DEF TypeOK, Halt, Fault, Running
<1>4. c = d
  BY <1>2, <1>3 DEF TypeOK, Start, Running
<1>5. QED
  BY <1>2, <1>3, <1>4

LEMMA NoneDisturbedStep ==
  ASSUME SideInv, [Next]_vars PROVE NoneDisturbed'
<1> SUFFICES ASSUME NEW c \in Calls, NEW d \in Calls, c # d,
                    Running(c)', Running(d)'
             PROVE  ~Disturbs(c, d)'
  BY DEF NoneDisturbed
<1>1. Disturbs(c, d)' = Disturbs(c, d)
  BY ReachKept DEF Disturbs
<1>2. CASE Running(c) /\ Running(d)
  BY <1>1, <1>2 DEF SideInv, NoneDisturbed
<1>3. CASE ~Running(c) \/ ~Running(d)
  <2>1. PICK e \in Calls : Start(e)
    BY <1>3, RunsFromStart DEF SideInv
  <2>2. \A f \in Calls : Running(f)' => f = e \/ Running(f)
    BY <2>1 DEF SideInv, TypeOK, Start, Running
  <2>3. \A f \in Calls : Running(f) => ~Disturbs(e, f) /\ ~Disturbs(f, e)
    BY <2>1 DEF Start
  <2>4. QED
    BY <1>1, <1>3, <2>2, <2>3
<1>4. QED
  BY <1>2, <1>3

LEMMA KeysDeclaredStep ==
  ASSUME SideInv, [Next]_vars PROVE KeysDeclared'
<1> SUFFICES ASSUME NEW d \in Calls
             PROVE  /\ keyed_authorized_reads'[d] \subseteq Reach(d)
                    /\ keyed_authorized_writes'[d] \subseteq Own(d)
  BY ReachKept DEF KeysDeclared
<1>0. TypeOK /\ KeysDeclared
  BY DEF SideInv
<1>1. CASE UNCHANGED <<keyed_authorized_reads, keyed_authorized_writes>>
  BY <1>0, <1>1 DEF KeysDeclared
<1>2. ASSUME NEW c \in Calls, NEW b \in Base, NEW a \in Arg, Hash(c, b, a)
      PROVE  /\ keyed_authorized_reads'[d] \subseteq Reach(d)
             /\ keyed_authorized_writes'[d] \subseteq Own(d)
  <2>1. b \in manifest[c].keyed_writes => Digest[<<b, a>>] \in Own(c)
    BY DEF Own, Digests
  <2>2. b \in manifest[c].keyed_writes \cup manifest[c].keyed_reads
            => Digest[<<b, a>>] \in Reach(c)
    BY DEF Reach, Digests
  <2>3. keyed_authorized_reads'[d] \subseteq Reach(d)
    BY <1>0, <1>2, <2>2 DEF TypeOK, Hash, KeysDeclared
  <2>4. keyed_authorized_writes'[d] \subseteq Own(d)
    BY <1>0, <1>2, <2>1 DEF TypeOK, Hash, KeysDeclared
  <2>5. QED
    BY <2>3, <2>4
<1>3. QED
  BY <1>1, <1>2
     DEF Next, Step, Start, Halt, Fault, SLoad, SStore, vars, locals

(* Only SSTORE changes the rows of a call, at a key that is its own. *)
LEMMA StorageStep ==
  ASSUME SideInv, [Next]_vars, NEW d \in Calls, NEW j \in Key,
         storage'[d][j] # storage[d][j]
  PROVE  /\ Running(d) /\ j \in Own(d)
         /\ \E v \in Word : SStore(d, j, v)
<1>0. TypeOK /\ KeysDeclared
  BY DEF SideInv
<1>1. PICK c \in Calls, k \in Key, v \in Word : SStore(c, k, v)
  BY DEF Next, Step, Start, Halt, Fault, SLoad, Hash, vars, locals
<1>2. d = c /\ j = k
  BY <1>0, <1>1 DEF TypeOK, SStore
<1>3. k \in Own(c)
  BY <1>0, <1>1 DEF SStore, CanWrite, KeysDeclared, Own
<1>4. QED
  BY <1>1, <1>2, <1>3 DEF SStore

(* Only SLOAD and SSTORE change the cache, by a row of the ledger. *)
LEMMA LoadedStep ==
  ASSUME SideInv, [Next]_vars, NEW d \in Calls, NEW j \in Key,
         loaded'[d][j] # loaded[d][j]
  PROVE  /\ Running(d) /\ j \in Reach(d)
         /\ loaded'[d][j] = ledger[j] /\ ledger' = ledger
<1>1. PICK c \in Calls, k \in Key : SLoad(c, k) \/ \E v \in Word : SStore(c, k, v)
  BY DEF Next, Step, Start, Halt, Fault, Hash, vars, locals
<1>2. d = c /\ j = k /\ k \in Reach(c) /\ loaded'[d][j] = ledger[k]
  BY <1>1, CacheStep
<1>3. QED
  BY <1>1, <1>2 DEF SLoad, SStore

LEMMA RowsDeclaredStep ==
  ASSUME SideInv, [Next]_vars PROVE RowsDeclared'
<1> SUFFICES ASSUME NEW c \in Calls, NEW k \in Key
             PROVE  /\ loaded'[c][k] # Absent => k \in Reach(c)
                    /\ storage'[c][k] # Absent => k \in Own(c)
  BY ReachKept DEF RowsDeclared
<1>1. RowsDeclared
  BY DEF SideInv
<1>2. loaded'[c][k] # Absent => k \in Reach(c)
  BY <1>1, LoadedStep DEF RowsDeclared
<1>3. storage'[c][k] # Absent => k \in Own(c)
  BY <1>1, StorageStep DEF RowsDeclared
<1>4. QED
  BY <1>2, <1>3

(* A row that a running call holds changes in the ledger only when that    *)
(* very call halts.                                                        *)
LEMMA LedgerStep ==
  ASSUME SideInv, [Next]_vars, NEW k \in Key, ledger'[k] # ledger[k]
  PROVE  \E c \in Calls :
            /\ Halt(c)
            /\ k \in Own(c)
            /\ \A d \in Calls : d # c /\ Running(d) => k \notin Reach(d)
<1>0. TypeOK /\ NoneDisturbed /\ RowsDeclared
  BY DEF SideInv
<1>1. PICK c \in Calls : Halt(c)
  BY DEF Next, Step, Start, Fault, SLoad, SStore, Hash, vars
<1>2. storage[c][k] # Absent
  BY <1>1 DEF Halt
<1>3. k \in Own(c)
  BY <1>0, <1>2 DEF RowsDeclared
<1>4. ASSUME NEW d \in Calls, d # c, Running(d) PROVE k \notin Reach(d)
  <2>1. ~Disturbs(c, d)
    BY <1>0, <1>1, <1>4 DEF NoneDisturbed, Halt
  <2>2. QED
    BY <1>0, <1>3, <2>1, Apart
<1>5. QED
  BY <1>1, <1>3, <1>4

LEMMA LoadedCurrentStep ==
  ASSUME SideInv, [Next]_vars PROVE LoadedRowsCurrent'
<1> SUFFICES ASSUME NEW d \in Calls, NEW k \in Key,
                    Running(d)', loaded'[d][k] # Absent
             PROVE  loaded'[d][k] = ledger'[k]
  BY DEF LoadedRowsCurrent
<1>0. TypeOK /\ RowsDeclared /\ WaitsEmpty /\ LoadedRowsCurrent
  BY DEF SideInv
<1>1. CASE loaded'[d][k] # loaded[d][k]
  BY <1>1, LoadedStep
<1>2. CASE loaded'[d][k] = loaded[d][k]
  <2>1. Running(d)
    <3>1. phase[d] # "waiting"
      BY <1>0, <1>2 DEF WaitsEmpty
    <3>2. QED
      BY <1>0, <3>1, RunsFromStart DEF Start
  <2>2. loaded[d][k] = ledger[k] /\ k \in Reach(d)
    BY <1>0, <1>2, <2>1 DEF LoadedRowsCurrent, RowsDeclared
  <2>3. ledger'[k] = ledger[k]
    <3> SUFFICES ASSUME ledger'[k] # ledger[k] PROVE FALSE
      OBVIOUS
    <3>1. PICK c \in Calls :
            /\ Halt(c)
            /\ \A e \in Calls : e # c /\ Running(e) => k \notin Reach(e)
      BY LedgerStep
    <3>2. c # d
      BY <1>0, <3>1 DEF Halt, TypeOK, Running
    <3>3. QED
      BY <2>1, <2>2, <3>1, <3>2
  <2>4. QED
    BY <1>2, <2>2, <2>3
<1>3. QED
  BY <1>1, <1>2

(* SLOAD and SSTORE append to the log of the call; nothing else changes it. *)
LEMMA LogStep ==
  ASSUME SideInv, [Next]_vars, log' # log
  PROVE  \E c \in Calls, e \in Entry :
            /\ Running(c)
            /\ log' = [log EXCEPT ![c] = Append(@, e)]
            /\ \/ SLoad(c, e.key) /\ e.op = "read" /\ e.val = Row(c, e.key)
               \/ SStore(c, e.key, e.val) /\ e.op = "write"
<1>1. ASSUME NEW c \in Calls, NEW k \in Key, SLoad(c, k)
      PROVE  \E e \in Entry :
                /\ Running(c)
                /\ log' = [log EXCEPT ![c] = Append(@, e)]
                /\ SLoad(c, e.key) /\ e.op = "read" /\ e.val = Row(c, e.key)
  <2> DEFINE e == [op |-> "read", key |-> k, val |-> Row(c, k)]
  <2>1. e \in Entry
    BY RowIsWord DEF SideInv, Entry
  <2>2. Running(c) /\ log' = [log EXCEPT ![c] = Append(@, e)]
    BY <1>1 DEF SLoad, Logged
  <2>3. QED
    BY <1>1, <2>1, <2>2
<1>2. ASSUME NEW c \in Calls, NEW k \in Key, NEW v \in Word, SStore(c, k, v)
      PROVE  \E e \in Entry :
                /\ Running(c)
                /\ log' = [log EXCEPT ![c] = Append(@, e)]
                /\ SStore(c, e.key, e.val) /\ e.op = "write"
  <2> DEFINE e == [op |-> "write", key |-> k, val |-> v]
  <2>1. e \in Entry
    BY DEF Entry
  <2>2. Running(c) /\ log' = [log EXCEPT ![c] = Append(@, e)]
    BY <1>2 DEF SStore, Logged
  <2>3. QED
    BY <1>2, <2>1, <2>2
<1>3. PICK c \in Calls : \/ \E k \in Key : SLoad(c, k)
                        \/ \E k \in Key, v \in Word : SStore(c, k, v)
  BY DEF Next, Step, Start, Halt, Fault, Hash, vars, locals
<1>4. QED
  BY <1>1, <1>2, <1>3

LEMMA LogsTypedStep ==
  ASSUME SideInv, [Next]_vars PROVE LogsTyped'
<1>1. CASE log' = log
  BY <1>1 DEF SideInv, LogsTyped
<1>2. CASE log' # log
  <2>1. PICK c \in Calls, e \in Entry : log' = [log EXCEPT ![c] = Append(@, e)]
    BY <1>2, LogStep
  <2>2. QED
    BY <2>1 DEF SideInv, LogsTyped
<1>3. QED
  BY <1>1, <1>2

LEMMA WaitsEmptyStep ==
  ASSUME SideInv, [Next]_vars PROVE WaitsEmpty'
<1> SUFFICES ASSUME NEW d \in Calls, phase'[d] = "waiting"
             PROVE  /\ \A k \in Key : loaded'[d][k] = Absent /\ storage'[d][k] = Absent
                    /\ log'[d] = <<>>
  BY DEF WaitsEmpty
<1>0. TypeOK /\ WaitsEmpty
  BY DEF SideInv
<1>1. phase[d] = "waiting"
  BY <1>0 DEF TypeOK, Next, Step, Start, Halt, Fault, SLoad, SStore, Hash, vars
<1>2. ~Running(d)
  BY <1>1 DEF Running
<1>3. \A k \in Key : loaded'[d][k] = Absent /\ storage'[d][k] = Absent
  BY <1>0, <1>1, <1>2, LoadedStep, StorageStep DEF WaitsEmpty
<1>4. log'[d] = log[d]
  BY <1>2, LogStep DEF SideInv, LogsTyped
<1>5. QED
  BY <1>0, <1>1, <1>3, <1>4 DEF WaitsEmpty

LEMMA SideStep == SideInv /\ [Next]_vars => SideInv'
<1> SUFFICES ASSUME SideInv, [Next]_vars PROVE SideInv'
  OBVIOUS
<1>1. TypeOK' /\ LogsTyped'
  BY TypeStep, LogsTypedStep DEF SideInv
<1>2. NoneDisturbed' /\ KeysDeclared' /\ RowsDeclared'
  BY NoneDisturbedStep, KeysDeclaredStep, RowsDeclaredStep
<1>3. WaitsEmpty' /\ LoadedRowsCurrent'
  BY WaitsEmptyStep, LoadedCurrentStep
<1>4. QED
  BY <1>1, <1>2, <1>3 DEF SideInv

(* The strengthening that all of the following rest on: the interpreters of *)
(* calls side by side stay out of each other's rows.                      *)
THEOREM SideInvHolds == Spec => []SideInv
  BY SideInit, SideStep, PTL DEF Spec

(* Rows, manifests and phases stay what they should be (Interpreter).      *)
THEOREM TypeCorrect == Spec => []TypeOK
  BY SideInvHolds, PTL DEF SideInv

(* What a running call has in its cache is what the ledger still holds,    *)
(* for any number of calls, whatever they do (loaded, in Instr::SLoad).    *)
THEOREM LoadedRowsStayCurrent == Spec => []LoadedRowsCurrent
  BY SideInvHolds, PTL DEF SideInv

(* No two running calls hold a row that one of them wrote (Outcome.storage *)
(* of calls that run side by side).                                        *)
THEOREM WritesStayDisjoint == Spec => []WritesAreDisjoint
<1>1. SideInv => WritesAreDisjoint
  <2> SUFFICES ASSUME SideInv, NEW c \in Calls, NEW d \in Calls, c # d,
                      Running(c), Running(d), NEW k \in Key,
                      storage[c][k] # Absent
               PROVE  storage[d][k] = Absent /\ loaded[d][k] = Absent
    BY DEF WritesAreDisjoint
  <2>1. ~Disturbs(c, d) /\ k \in Own(c) /\ TypeOK
    BY DEF SideInv, NoneDisturbed, RowsDeclared
  <2>2. k \notin Reach(d) /\ k \notin Own(d)
    BY <2>1, Apart, OwnInReach
  <2>3. QED
    BY <2>2 DEF SideInv, RowsDeclared
<1>2. QED
  BY <1>1, SideInvHolds, PTL

(***************************************************************************)
(* Logs: what a lone run makes of an entry more                            *)
(***************************************************************************)
(* The writes to a row among the first n entries have a last one. *)
LastExists(l, n) ==
    \A k \in Key : S!WritesTo(l, k, n) = {}
        \/ \E i \in S!WritesTo(l, k, n) : \A j \in S!WritesTo(l, k, n) : j <= i

LEMMA EntryAt ==
  ASSUME NEW l \in Seq(Entry), NEW i \in 1..Len(l)
  PROVE  l[i].key \in Key
<1>1. l[i] \in Entry
  OBVIOUS
<1>2. QED
  BY <1>1 DEF Entry

LEMMA AppendAt ==
  ASSUME NEW l \in Seq(Entry), NEW e \in Entry
  PROVE  /\ Len(l) \in Nat /\ Len(Append(l, e)) = Len(l) + 1
         /\ DOMAIN l = 1..Len(l) /\ DOMAIN Append(l, e) = 1..(Len(l) + 1)
         /\ Append(l, e)[Len(l) + 1] = e
         /\ \A i \in 1..Len(l) : Append(l, e)[i] = l[i]
  OBVIOUS

LEMMA WritesToEarlier ==
  ASSUME NEW l \in Seq(Entry), NEW e \in Entry, NEW k \in Key, NEW n \in 0..Len(l)
  PROVE  S!WritesTo(Append(l, e), k, n) = S!WritesTo(l, k, n)
  BY DEF S!WritesTo

LEMMA WritesToLast ==
  ASSUME NEW l \in Seq(Entry), NEW e \in Entry, NEW k \in Key
  PROVE  /\ e.op = "write" /\ e.key = k =>
                Len(l) + 1 \in S!WritesTo(Append(l, e), k, Len(l) + 1)
         /\ ~(e.op = "write" /\ e.key = k) =>
                S!WritesTo(Append(l, e), k, Len(l) + 1) = S!WritesTo(l, k, Len(l))
<1>1. Len(l) \in Nat /\ Append(l, e)[Len(l) + 1] = e
      /\ \A i \in 1..Len(l) : Append(l, e)[i] = l[i]
  OBVIOUS
<1>2. QED
  BY <1>1 DEF S!WritesTo

(* An entry more changes no row before it. *)
LEMMA RowAfterEarlier ==
  ASSUME NEW rows, NEW l \in Seq(Entry), NEW e \in Entry, NEW k \in Key,
         NEW n \in 0..Len(l), LastExists(l, n)
  PROVE  S!RowAfter(rows, Append(l, e), k, n) = S!RowAfter(rows, l, k, n)
<1> DEFINE w == S!WritesTo(l, k, n)
           last == CHOOSE i \in w : \A j \in w : j <= i
<1>1. S!WritesTo(Append(l, e), k, n) = w
  BY WritesToEarlier
<1>2. CASE w = {}
  BY <1>1, <1>2 DEF S!RowAfter
<1>3. CASE w # {}
  <2>1. last \in w
    BY <1>3 DEF LastExists
  <2>2. last \in 1..Len(l)
    BY <2>1 DEF S!WritesTo
  <2>3. Append(l, e)[last] = l[last]
    BY <2>2
  <2>4. QED
    BY <1>1, <1>3, <2>3 DEF S!RowAfter
<1>4. QED
  BY <1>2, <1>3

(* After an entry more, a row is what the entry writes, or what it was. *)
LEMMA RowAfterLast ==
  ASSUME NEW rows, NEW l \in Seq(Entry), NEW e \in Entry, NEW k \in Key,
         LastExists(l, Len(l))
  PROVE  S!RowAfter(rows, Append(l, e), k, Len(l) + 1) =
            IF e.op = "write" /\ e.key = k THEN e.val
            ELSE S!RowAfter(rows, l, k, Len(l))
<1> DEFINE n == Len(l)
           w == S!WritesTo(Append(l, e), k, n + 1)
           last == CHOOSE i \in w : \A j \in w : j <= i
<1>0. n \in Nat
  OBVIOUS
<1>1. CASE e.op = "write" /\ e.key = k
  <2>1. n + 1 \in w /\ \A j \in w : j <= n + 1 /\ j \in Nat
    BY <1>0, <1>1 DEF S!WritesTo
  <2>2. last \in w /\ n + 1 <= last
    BY <2>1
  <2>3. last = n + 1
    BY <1>0, <2>1, <2>2
  <2>4. S!RowAfter(rows, Append(l, e), k, n + 1) = Append(l, e)[last].val
    BY <2>1 DEF S!RowAfter
  <2>5. Append(l, e)[n + 1] = e
    OBVIOUS
  <2>6. QED
    BY <1>1, <2>3, <2>4, <2>5
<1>2. CASE ~(e.op = "write" /\ e.key = k)
  <2>1. w = S!WritesTo(l, k, n)
    BY <1>2, WritesToLast
  <2>2. S!WritesTo(Append(l, e), k, n) = S!WritesTo(l, k, n)
    BY <1>0, WritesToEarlier
  <2>3. S!RowAfter(rows, Append(l, e), k, n + 1) = S!RowAfter(rows, Append(l, e), k, n)
    <3> DEFINE RowOf(x) == IF x = {} THEN rows[k]
                           ELSE Append(l, e)[CHOOSE i \in x : \A j \in x : j <= i].val
    <3>1. \A m : S!RowAfter(rows, Append(l, e), k, m)
                    = RowOf(S!WritesTo(Append(l, e), k, m))
      BY DEF S!RowAfter
    <3>2. S!WritesTo(Append(l, e), k, n + 1) = S!WritesTo(Append(l, e), k, n)
      BY <2>1, <2>2
    <3> HIDE DEF RowOf
    <3>3. QED
      BY <3>1, <3>2
  <2>4. QED
    BY <1>0, <1>2, <2>3, RowAfterEarlier
<1>3. QED
  BY <1>1, <1>2

LEMMA LastExistsAppend ==
  ASSUME NEW l \in Seq(Entry), NEW e \in Entry,
         \A n \in 0..Len(l) : LastExists(l, n),
         NEW m \in 0..Len(Append(l, e))
  PROVE  LastExists(Append(l, e), m)
<1> SUFFICES ASSUME NEW k \in Key, S!WritesTo(Append(l, e), k, m) # {}
             PROVE  \E i \in S!WritesTo(Append(l, e), k, m) :
                        \A j \in S!WritesTo(Append(l, e), k, m) : j <= i
  BY DEF LastExists
<1>1. CASE m \in 0..Len(l)
  BY <1>1, WritesToEarlier DEF LastExists
<1>2. CASE m = Len(l) + 1
  <2>1. CASE e.op = "write" /\ e.key = k
    <3>1. m \in S!WritesTo(Append(l, e), k, m)
      BY <1>2, <2>1, WritesToLast
    <3>2. \A j \in S!WritesTo(Append(l, e), k, m) : j <= m
      BY <1>2 DEF S!WritesTo
    <3>3. QED
      BY <3>1, <3>2
  <2>2. CASE ~(e.op = "write" /\ e.key = k)
    <3>1. S!WritesTo(Append(l, e), k, m) = S!WritesTo(l, k, Len(l))
      BY <1>2, <2>2, WritesToLast
    <3>2. Len(l) \in 0..Len(l)
      OBVIOUS
    <3>3. QED
      BY <3>1, <3>2 DEF LastExists
  <2>3. QED
    BY <2>1, <2>2
<1>3. QED
  BY <1>1, <1>2

(***************************************************************************)
(* Refinement of Serial                                                    *)
(***************************************************************************)
(* The log of a call touches what the call may reach, and its reads are    *)
(* those of a lone run over the ledger of the moment.                      *)
LogDeclared(c) == \A i \in DOMAIN log[c] : log[c][i].key \in Reach(c)

(* The rows of a call are the last writes of its log. *)
RowsFollowLog(c) ==
    \A k \in Key :
        /\ storage[c][k] = Absent <=> S!WritesTo(log[c], k, Len(log[c])) = {}
        /\ storage[c][k] # Absent =>
                storage[c][k] = S!RowAfter(ledger, log[c], k, Len(log[c]))

LogInv ==
    \A c \in Calls :
        /\ \A n \in 0..Len(log[c]) : LastExists(log[c], n)
        /\ LogDeclared(c)
        /\ RowsFollowLog(c)
        /\ Running(c) => S!RunsFrom(ledger, log[c])

LEMMA LogInit == Init => LogInv
<1> SUFFICES ASSUME Init, NEW c \in Calls
             PROVE  /\ \A n \in 0..Len(log[c]) : LastExists(log[c], n)
                    /\ LogDeclared(c)
                    /\ RowsFollowLog(c)
                    /\ Running(c) => S!RunsFrom(ledger, log[c])
  BY DEF LogInv
<1>1. log[c] = <<>> /\ Len(log[c]) = 0
  BY DEF Init
<1>2. \A k : S!WritesTo(log[c], k, 0) = {}
  BY DEF S!WritesTo
<1>3. \A n \in 0..Len(log[c]) : LastExists(log[c], n)
  BY <1>1, <1>2 DEF LastExists
<1>4. LogDeclared(c)
  BY <1>1 DEF LogDeclared
<1>5. RowsFollowLog(c)
  BY <1>1, <1>2 DEF Init, RowsFollowLog
<1>6. ~Running(c)
  BY DEF Init, Running
<1>7. QED
  BY <1>3, <1>4, <1>5, <1>6

(* The row as a call sees it is the row after its log. *)
LEMMA RowIsRowAfter ==
  ASSUME SideInv, LogInv, NEW c \in Calls, Running(c), NEW k \in Key
  PROVE  Row(c, k) = S!RowAfter(ledger, log[c], k, Len(log[c]))
<1>1. RowsFollowLog(c) /\ LoadedRowsCurrent
  BY DEF LogInv, SideInv
<1>2. CASE storage[c][k] # Absent
  BY <1>1, <1>2 DEF Row, RowsFollowLog
<1>3. CASE storage[c][k] = Absent
  <2>1. S!RowAfter(ledger, log[c], k, Len(log[c])) = ledger[k]
    BY <1>1, <1>3 DEF RowsFollowLog, S!RowAfter
  <2>2. Row(c, k) = ledger[k]
    BY <1>1, <1>3 DEF Row, LoadedRowsCurrent
  <2>3. QED
    BY <2>1, <2>2
<1>4. QED
  BY <1>2, <1>3

(* A row that is written depends on the log alone. *)
LEMMA RowAfterWritten ==
  ASSUME NEW l, NEW k, NEW n, NEW rows, NEW others,
         S!WritesTo(l, k, n) # {} \/ rows[k] = others[k]
  PROVE  S!RowAfter(rows, l, k, n) = S!RowAfter(others, l, k, n)
  BY DEF S!RowAfter

(* A step that adds to no log leaves every log what it was: rows that a    *)
(* running call has touched stay as they are in the ledger.                *)
LEMMA LogInvKept ==
  ASSUME SideInv, LogInv, [Next]_vars, log' = log, NEW c \in Calls
  PROVE  /\ \A n \in 0..Len(log'[c]) : LastExists(log'[c], n)
         /\ LogDeclared(c)'
         /\ RowsFollowLog(c)'
         /\ Running(c)' => S!RunsFrom(ledger', log'[c])
<1>0. /\ TypeOK /\ LogsTyped
      /\ \A n \in 0..Len(log[c]) : LastExists(log[c], n)
      /\ LogDeclared(c) /\ RowsFollowLog(c)
      /\ Running(c) => S!RunsFrom(ledger, log[c])
  BY DEF SideInv, LogInv
<1>1. LogDeclared(c)'
  BY <1>0, ReachKept DEF LogDeclared
<1>2. ASSUME NEW k \in Key PROVE storage'[c][k] = storage[c][k]
  <2> SUFFICES ASSUME storage'[c][k] # storage[c][k] PROVE FALSE
    OBVIOUS
  <2>1. PICK v \in Word : SStore(c, k, v)
    BY StorageStep
  <2>2. log'[c] = Append(log[c], [op |-> "write", key |-> k, val |-> v])
    BY <1>0, <2>1 DEF SStore, Logged, LogsTyped
  <2>3. log[c] \in Seq(Entry) /\ [op |-> "write", key |-> k, val |-> v] \in Entry
    BY <1>0 DEF LogsTyped, Entry
  <2>4. Len(log'[c]) = Len(log[c]) + 1 /\ Len(log[c]) \in Nat
    BY <2>2, <2>3
  <2>5. QED
    BY <2>4
<1>3. RowsFollowLog(c)'
  <2> SUFFICES ASSUME NEW k \in Key
               PROVE  /\ storage'[c][k] = Absent
                            <=> S!WritesTo(log[c], k, Len(log[c])) = {}
                      /\ storage'[c][k] # Absent =>
                            storage'[c][k] = S!RowAfter(ledger', log[c], k, Len(log[c]))
    BY DEF RowsFollowLog
  <2>1. storage'[c][k] = Absent <=> S!WritesTo(log[c], k, Len(log[c])) = {}
    BY <1>0, <1>2 DEF RowsFollowLog
  <2>2. storage'[c][k] # Absent =>
            S!RowAfter(ledger', log[c], k, Len(log[c]))
                = S!RowAfter(ledger, log[c], k, Len(log[c]))
    BY <2>1, RowAfterWritten
  <2>3. QED
    BY <1>0, <1>2, <2>1, <2>2 DEF RowsFollowLog
<1>4. ASSUME Running(c)' PROVE S!RunsFrom(ledger', log[c])
  <2>1. CASE ~Running(c)
    <3>1. log[c] = <<>>
      BY <1>0, <1>4, <2>1, RunsFromStart DEF Start, SideInv, WaitsEmpty
    <3>2. QED
      BY <3>1 DEF S!RunsFrom
  <2>2. CASE Running(c)
    <3> SUFFICES ASSUME NEW i \in DOMAIN log[c], log[c][i].op = "read"
                 PROVE  log[c][i].val
                            = S!RowAfter(ledger', log[c], log[c][i].key, i - 1)
      BY DEF S!RunsFrom
    <3>1. log[c][i].key \in Reach(c) /\ log[c][i].key \in Key
      <4>1. log[c] \in Seq(Entry)
        BY <1>0 DEF LogsTyped
      <4>2. i \in 1..Len(log[c])
        BY <4>1
      <4>3. QED
        BY <1>0, <4>1, <4>2, EntryAt DEF LogDeclared
    <3>2. ledger'[log[c][i].key] = ledger[log[c][i].key]
      <4>1. ~Halt(c)
        BY <1>0, <1>4 DEF Halt, TypeOK, Running
      <4>2. QED
        BY <2>2, <3>1, <4>1, LedgerStep
    <3>3. S!RowAfter(ledger', log[c], log[c][i].key, i - 1)
            = S!RowAfter(ledger, log[c], log[c][i].key, i - 1)
      BY <3>2, RowAfterWritten
    <3>4. QED
      BY <1>0, <2>2, <3>3 DEF S!RunsFrom
  <2>3. QED
    BY <2>1, <2>2
<1>5. QED
  BY <1>0, <1>1, <1>3, <1>4

(* A read or a write, with the entry it adds to the log of the call: the   *)
(* rows of the call follow.                                                *)
LEMMA LogInvExtended ==
  ASSUME SideInv, LogInv, [Next]_vars, NEW c \in Calls, NEW e \in Entry,
         Running(c), log' = [log EXCEPT ![c] = Append(@, e)],
         \/ SLoad(c, e.key) /\ e.op = "read" /\ e.val = Row(c, e.key)
         \/ SStore(c, e.key, e.val) /\ e.op = "write"
  PROVE  /\ \A n \in 0..Len(log'[c]) : LastExists(log'[c], n)
         /\ LogDeclared(c)'
         /\ RowsFollowLog(c)'
         /\ S!RunsFrom(ledger', log'[c])
<1> DEFINE l == log[c]
           m == Append(l, e)
<1>0. /\ TypeOK /\ LogsTyped /\ KeysDeclared
      /\ \A n \in 0..Len(l) : LastExists(l, n)
      /\ LogDeclared(c) /\ RowsFollowLog(c)
      /\ S!RunsFrom(ledger, l)
  BY DEF SideInv, LogInv
<1>1. /\ l \in Seq(Entry) /\ log'[c] = m
      /\ Len(l) \in Nat /\ Len(m) = Len(l) + 1
      /\ DOMAIN l = 1..Len(l) /\ DOMAIN m = 1..(Len(l) + 1)
      /\ m[Len(l) + 1] = e /\ \A i \in 1..Len(l) : m[i] = l[i]
      /\ e.key \in Key /\ e.val \in Word
  <2>1. l \in Seq(Entry) /\ log'[c] = m
    BY <1>0 DEF LogsTyped
  <2>2. e.key \in Key /\ e.val \in Word
    BY DEF Entry
  <2>3. QED
    BY <2>1, <2>2, AppendAt
<1>2. ledger' = ledger
  BY DEF SLoad, SStore
<1>3. \A n \in 0..Len(m) : LastExists(m, n)
  BY <1>0, <1>1, LastExistsAppend
<1>4. LogDeclared(c)'
  <2>1. e.key \in Reach(c)
    BY <1>0, OwnInReach
       DEF SLoad, SStore, CanRead, CanWrite, KeysDeclared, Reach, Own
  <2>2. \A i \in DOMAIN m : m[i].key \in Reach(c)
    BY <1>0, <1>1, <2>1 DEF LogDeclared
  <2>3. QED
    BY <1>1, <2>2, ReachKept DEF LogDeclared
<1>5. RowsFollowLog(c)'
  <2> SUFFICES ASSUME NEW k \in Key
               PROVE  /\ storage'[c][k] = Absent <=> S!WritesTo(m, k, Len(m)) = {}
                      /\ storage'[c][k] # Absent =>
                            storage'[c][k] = S!RowAfter(ledger, m, k, Len(m))
    BY <1>1, <1>2 DEF RowsFollowLog
  <2>0. LastExists(l, Len(l))
    BY <1>0, <1>1
  <2>1. CASE e.op = "write" /\ e.key = k
    <3>1. storage'[c][k] = e.val /\ e.val # Absent
      BY <1>0, <1>1, <2>1, WordsAssumption DEF TypeOK, SStore
    <3>2. S!WritesTo(m, k, Len(m)) # {}
      BY <1>1, <2>1, WritesToLast
    <3>3. S!RowAfter(ledger, m, k, Len(m)) = e.val
      BY <1>1, <2>0, <2>1, RowAfterLast
    <3>4. QED
      BY <3>1, <3>2, <3>3
  <2>2. CASE ~(e.op = "write" /\ e.key = k)
    <3>1. storage'[c][k] = storage[c][k]
      BY <1>0, <1>1, <2>2 DEF TypeOK, SLoad, SStore
    <3>2. S!WritesTo(m, k, Len(m)) = S!WritesTo(l, k, Len(l))
      BY <1>1, <2>2, WritesToLast
    <3>3. S!RowAfter(ledger, m, k, Len(m)) = S!RowAfter(ledger, l, k, Len(l))
      BY <1>1, <2>0, <2>2, RowAfterLast
    <3>4. QED
      BY <1>0, <3>1, <3>2, <3>3 DEF RowsFollowLog
  <2>3. QED
    BY <2>1, <2>2
<1>6. S!RunsFrom(ledger, m)
  <2> SUFFICES ASSUME NEW i \in DOMAIN m, m[i].op = "read"
               PROVE  m[i].val = S!RowAfter(ledger, m, m[i].key, i - 1)
    BY DEF S!RunsFrom
  <2>1. CASE i \in 1..Len(l)
    <3>1. m[i] = l[i] /\ l[i].key \in Key /\ i - 1 \in 0..Len(l)
      BY <1>1, <2>1, EntryAt
    <3>2. S!RowAfter(ledger, m, l[i].key, i - 1) = S!RowAfter(ledger, l, l[i].key, i - 1)
      BY <1>0, <1>1, <3>1, RowAfterEarlier
    <3>3. l[i].val = S!RowAfter(ledger, l, l[i].key, i - 1)
      BY <1>0, <1>1, <2>1, <3>1 DEF S!RunsFrom
    <3>4. QED
      BY <3>1, <3>2, <3>3
  <2>2. CASE i = Len(l) + 1
    <3>1. m[i] = e /\ i - 1 = Len(l) /\ Len(l) \in 0..Len(l)
      BY <1>1, <2>2
    <3>2. e.val = Row(c, e.key)
      BY <3>1
    <3>3. Row(c, e.key) = S!RowAfter(ledger, l, e.key, Len(l))
      BY <1>1, RowIsRowAfter
    <3>4. S!RowAfter(ledger, m, e.key, Len(l)) = S!RowAfter(ledger, l, e.key, Len(l))
      BY <1>0, <1>1, <3>1, RowAfterEarlier
    <3>5. QED
      BY <3>1, <3>2, <3>3, <3>4
  <2>3. QED
    BY <1>1, <2>1, <2>2
<1>7. QED
  BY <1>1, <1>2, <1>3, <1>4, <1>5, <1>6

LEMMA LogInvStep == SideInv /\ LogInv /\ [Next]_vars => LogInv'
<1> SUFFICES ASSUME SideInv, LogInv, [Next]_vars, NEW d \in Calls
             PROVE  /\ \A n \in 0..Len(log'[d]) : LastExists(log'[d], n)
                    /\ LogDeclared(d)'
                    /\ RowsFollowLog(d)'
                    /\ Running(d)' => S!RunsFrom(ledger', log'[d])
  BY DEF LogInv, LastExists
<1>1. CASE log' = log
  BY <1>1, LogInvKept
<1>2. CASE log' # log
  <2>1. PICK c \in Calls, e \in Entry :
            /\ Running(c)
            /\ log' = [log EXCEPT ![c] = Append(@, e)]
            /\ \/ SLoad(c, e.key) /\ e.op = "read" /\ e.val = Row(c, e.key)
               \/ SStore(c, e.key, e.val) /\ e.op = "write"
    BY <1>2, LogStep
  <2>2. CASE d = c
    BY <2>1, <2>2, LogInvExtended
  <2>3. CASE d # c
    <3>1. /\ log'[d] = log[d] /\ storage'[d] = storage[d]
          /\ ledger' = ledger /\ phase' = phase
      BY <2>1, <2>3 DEF SideInv, TypeOK, LogsTyped, SLoad, SStore
    <3>2. /\ \A n \in 0..Len(log[d]) : LastExists(log[d], n)
          /\ LogDeclared(d) /\ RowsFollowLog(d)
          /\ Running(d) => S!RunsFrom(ledger, log[d])
      BY DEF LogInv
    <3>3. LogDeclared(d)'
      BY <3>1, <3>2, ReachKept DEF LogDeclared
    <3>4. RowsFollowLog(d)'
      BY <3>1, <3>2 DEF RowsFollowLog
    <3>5. QED
      BY <3>1, <3>2, <3>3, <3>4 DEF Running
  <2>4. QED
    BY <2>2, <2>3
<1>3. QED
  BY <1>1, <1>2

(* A call that halts commits its log. *)
LEMMA HaltCommits ==
  ASSUME SideInv, LogInv, NEW c \in Calls, Halt(c)
  PROVE  S!Next
<1> DEFINE logs == [d \in Calls |-> IF phase[d] = "committed" THEN log[d] ELSE NoLog]
<1>0. TypeOK /\ LogsTyped /\ RowsFollowLog(c) /\ S!RunsFrom(ledger, log[c])
  BY DEF SideInv, LogInv, Halt
<1>1. logs[c] = NoLog
  BY DEF Halt, Running
<1>2. log' = log /\ phase' = [phase EXCEPT ![c] = "committed"]
  BY DEF Halt, locals
<1>3. logs'[c] = log[c] /\ logs' = [logs EXCEPT ![c] = log[c]]
  BY <1>0, <1>2 DEF TypeOK
<1>4. ledger' = [k \in Key |-> S!RowAfter(ledger, log[c], k, Len(log[c]))]
  <2>1. ASSUME NEW k \in Key
        PROVE  S!RowAfter(ledger, log[c], k, Len(log[c]))
                    = IF storage[c][k] = Absent THEN ledger[k] ELSE storage[c][k]
    <3>1. CASE storage[c][k] = Absent
      BY <1>0, <3>1 DEF RowsFollowLog, S!RowAfter
    <3>2. CASE storage[c][k] # Absent
      BY <1>0, <3>2 DEF RowsFollowLog
    <3>3. QED
      BY <3>1, <3>2
  <2>2. QED
    BY <2>1 DEF Halt
<1>5. log[c] \in Seq(Entry)
  BY <1>0 DEF LogsTyped
<1>6. /\ S!RunsFrom(ledger, logs'[c])
      /\ ledger' = [k \in Key |-> S!RowAfter(ledger, logs'[c], k, Len(logs'[c]))]
      /\ logs' = [logs EXCEPT ![c] = logs'[c]]
      /\ logs'[c] \in Seq(Entry)
  BY <1>0, <1>3, <1>4, <1>5
<1>7. QED
  BY <1>1, <1>6 DEF S!Next, S!Commit

LEMMA SerialStep == SideInv /\ LogInv /\ [Next]_vars => [S!Next]_S!vars
<1> SUFFICES ASSUME SideInv, LogInv, [Next]_vars, ~S!Next
             PROVE  UNCHANGED S!vars
  OBVIOUS
<1>0. TypeOK /\ LogsTyped
  BY DEF SideInv
<1>1. \A c \in Calls : ~Halt(c)
  BY HaltCommits
<1>2. ledger' = ledger
  BY <1>1 DEF Next, Step, Start, Fault, SLoad, SStore, Hash, vars
<1>3. ASSUME NEW d \in Calls
      PROVE  /\ phase'[d] = "committed" <=> phase[d] = "committed"
             /\ phase[d] = "committed" => log'[d] = log[d]
  <2>1. phase'[d] = "committed" <=> phase[d] = "committed"
    BY <1>0, <1>1 DEF TypeOK, Next, Step, Start, Fault, Running,
                      SLoad, SStore, Hash, vars
  <2>2. phase[d] = "committed" => log'[d] = log[d]
    BY <1>0, LogStep DEF Running, LogsTyped
  <2>3. QED
    BY <2>1, <2>2
<1>4. QED
  BY <1>2, <1>3 DEF S!vars

LEMMA SerialInit == Init => S!Init
  BY DEF Init, S!Init

(* Calls run in parallel by their manifests are serialisable, for any      *)
(* number of calls: each that commits has read and written what it would   *)
(* have, had it run alone at that moment (SLOAD and SSTORE of interp.rs    *)
(* through loaders of the live ledger).                                    *)
THEOREM ParallelIsSerial == Spec => RefinesSerial
<1>1. SideInv /\ LogInv /\ [Next]_vars => LogInv'
  BY LogInvStep
<1>2. QED
  BY <1>1, SideInvHolds, LogInit, SerialInit, SerialStep, PTL
     DEF Spec, RefinesSerial, S!Spec
=============================================================================
