----------------------------- MODULE AuditChain -----------------------------
(***************************************************************************)
(* The Audit service (services/audit): the append-only table, the two ways *)
(* in (an event delivery and the direct record() call) and the sealing     *)
(* pass that links rows onto a hash chain.  Sealing runs from the cron and *)
(* after every delivery, so several sealers run at once; each reads the    *)
(* head, then the unsealed rows, then commits one batch guarded by a fence *)
(* on the head.                                                            *)
(*                                                                         *)
(* A row's seq is assigned at its INSERT and rows may appear in any order  *)
(* of it: one with a smaller seq may come after a larger one was sealed.   *)
(* The chain is in the order in which rows were linked.                    *)
(*                                                                         *)
(* A link hash is modelled as what it commits to: the list of the cores    *)
(* hashed so far (the digest is taken to be injective).  The genesis hash  *)
(* is the empty list.                                                      *)
(***************************************************************************)
EXTENDS Integers, Sequences, FiniteSets

CONSTANTS
  Events,        \* event ids (event_id is UNIQUE, so they bound the table)
  SeqNumbers,    \* the values of seq that INSERTs are given
  Bodies,        \* the detail bodies callers may bring
  Cron,          \* the sealer of the per-minute cron
  Background,    \* the sealers a delivery may leave running in waitUntil
  SealLimit,     \* rows linked by one pass (AUDIT_SEAL_BATCH)
  InitialKeys,   \* is AUDIT_CHAIN_KEY configured when the service is first deployed?
  MaxKills,      \* bound: runs evicted half way
  MaxKeyChanges  \* bound: deployments that add or remove AUDIT_CHAIN_KEY

ASSUME EventsFinite == IsFiniteSet(Events)
ASSUME SeqNumbersPositive == SeqNumbers \subseteq Nat \ {0}
ASSUME SealLimitPositive == SealLimit \in Nat \ {0}
ASSUME InitialKeysBoolean == InitialKeys \subseteq BOOLEAN
ASSUME SealersDistinct == Cron \notin Background
ASSUME BoundsNat == MaxKills \in Nat /\ MaxKeyChanges \in Nat

Sealers == Background \cup {Cron}

VARIABLES
  rows,       \* audit_events, by seq
  head,       \* audit_chain_heads: index 0 stands for "no head row yet"
  processed,  \* the consumer's processed_events
  sealer,     \* what each running seal has read so far
  chainKey,   \* is AUDIT_CHAIN_KEY configured?
  kills,
  keyChanges

vars == <<rows, head, processed, sealer, chainKey, kills, keyChanges>>

-----------------------------------------------------------------------------
(* Data *)

Unsealed == 0     \* chain_index IS NULL
NoDetail == "none"
Details  == Bodies \cup {NoDetail}
Types    == {"event", "record"}
NoAlg    == "null"
Algs     == {"sha256", "hmac-sha256"}

\* Fault: a deployment without the key seals without an algorithm.
algForNone(key) == IF key THEN "hmac-sha256" ELSE NoAlg

algFor(key) == IF key THEN "hmac-sha256" ELSE "sha256"

\* A body stands for its own detail_hash, NoDetail for that of the empty object.
\* A keyed hash of a row and a plain one of the same row are different.
Core == [event : Events, type : Types, detail_hash : Details, alg : Algs]
Hash == Seq(Core)
GenesisHash == << >>

\* The hash of a row linked behind `prev` under algorithm `alg`.
linkHash(prev, row, alg) ==
  Append(prev, [event |-> row.event, type |-> row.type,
                detail_hash |-> row.detail_hash, alg |-> alg])

Row == [event : Events, type : Types, detail_hash : Details, detail : Details,
        chain_index : Nat, prev_hash : Hash, hash : Hash,
        alg : Algs \cup {NoAlg}]

ChainHead == [index : Nat, hash : Hash]
NoHead == [index |-> 0, hash |-> GenesisHash]

IdleSealer == [pc |-> "idle", head |-> NoHead, rows |-> {}, key |-> FALSE]

Seqs == DOMAIN rows
RowOf(e) == {q \in Seqs : rows[q].event = e}
IsSealed(q) == rows[q].chain_index # Unsealed

NewRow(e, type, hash, detail) ==
  [event |-> e, type |-> type, detail_hash |-> hash, detail |-> detail,
   chain_index |-> Unsealed,
   prev_hash |-> GenesisHash, hash |-> GenesisHash, alg |-> NoAlg]

WithRow(rs, q, row) == [p \in DOMAIN rs \cup {q} |-> IF p = q THEN row ELSE rs[p]]

Init ==
  /\ rows = << >>
  /\ head = NoHead
  /\ processed = {}
  /\ sealer = [s \in Sealers |-> IdleSealer]
  /\ chainKey \in InitialKeys
  /\ kills = 0
  /\ keyChanges = 0

-----------------------------------------------------------------------------
(* The two ways in *)

\* Fault: the conflict clause (and the UNIQUE it names) forgotten.
insertEntryNoConflict(rs, e, type, hash, detail) ==
  {WithRow(rs, q, NewRow(e, type, hash, detail)) : q \in SeqNumbers \ DOMAIN rs}

\* The append, ON CONFLICT(event_id) DO NOTHING: what the table may become.
insertEntry(rs, e, type, hash, detail) ==
  IF \E q \in DOMAIN rs : rs[q].event = e
  THEN {rs}
  ELSE {WithRow(rs, q, NewRow(e, type, hash, detail)) : q \in SeqNumbers \ DOMAIN rs}

\* Fault: an upsert of the whole row, which resets the chain columns.
fillDetailResets(rs, e, detail) ==
  [q \in DOMAIN rs |->
     IF rs[q].event = e /\ rs[q].detail = NoDetail
     THEN NewRow(e, rs[q].type, rs[q].detail_hash, detail)
     ELSE rs[q]]

\* The body back-fill: only where detail IS NULL.
fillDetail(rs, e, detail) ==
  [q \in DOMAIN rs |->
     IF rs[q].event = e /\ rs[q].detail = NoDetail
     THEN [rs[q] EXCEPT !.detail = detail]
     ELSE rs[q]]

\* A delivery that acks leaves a seal behind in waitUntil (or the isolate is
\* evicted first); at most Background of them are in flight.
LaunchSeal(before) ==
  \/ sealer' = before
  \/ \E s \in Background :
       /\ before[s].pc = "idle"
       /\ sealer' = [before EXCEPT ![s].pc = "start"]

\* deliver(): the batch of the entry and its processed_events row.  A unique
\* violation on the latter answers `replayed` and rolls the batch back.  The
\* entry has the hash of the body, and the body too unless it stayed with the
\* producer (AuditRecorded).
Deliver(e, hash, detail) ==
  /\ detail \in {NoDetail, hash}
  /\ e \notin processed
  /\ processed' = processed \cup {e}
  /\ rows' \in insertEntry(rows, e, "event", hash, detail)
  /\ LaunchSeal(sealer)
  /\ UNCHANGED <<head, chainKey, kills, keyChanges>>

\* record(): the insert, then the fill when the caller brought a body.
Record(e, detail) ==
  /\ \E inserted \in insertEntry(rows, e, "record", detail, detail) :
       rows' = IF detail = NoDetail THEN inserted
                                    ELSE fillDetail(inserted, e, detail)
  /\ UNCHANGED <<head, processed, sealer, chainKey, kills, keyChanges>>

-----------------------------------------------------------------------------
(* The sealing pass *)

\* Fault: a watermark, the largest seq that was sealed, in place of the NULL test.
unsealedRowsWatermark ==
  LET open == {q \in Seqs : \A p \in Seqs : IsSealed(p) => p < q}
  IN  {q \in open : Cardinality({p \in open : p < q}) < SealLimit}

\* The first SealLimit rows, by seq, whose chain_index IS NULL: a row that appears
\* behind the ones already sealed is found all the same.
unsealedRows ==
  LET open == {q \in Seqs : ~IsSealed(q)}
  IN  {q \in open : Cardinality({p \in open : p < q}) < SealLimit}

\* linkRows: the rows of a run take the indices behind the head they start
\* from, in the order of seq, and each hash commits to everything before it.
LinkIndex(start, run, q) == start.index + Cardinality({p \in run : p <= q})

LinkedRow(start, run, i) == CHOOSE q \in run : LinkIndex(start, run, q) = i

LinkedHash(start, run, i, alg) ==
  [j \in 1..i |->
     IF j <= start.index
     THEN start.hash[j]
     ELSE LET row == rows[LinkedRow(start, run, j)]
          IN  [event |-> row.event, type |-> row.type,
               detail_hash |-> row.detail_hash, alg |-> alg]]

\* sealLinkStatement, for every row of the run: conditional on the row still
\* being unsealed.
sealLinks(start, run, alg) ==
  [q \in Seqs |->
     IF q \in run /\ ~IsSealed(q)
     THEN LET i == LinkIndex(start, run, q)
          IN  [rows[q] EXCEPT !.chain_index = i,
                              !.prev_hash = LinkedHash(start, run, i - 1, alg),
                              !.hash = LinkedHash(start, run, i, alg),
                              !.alg = alg]
     ELSE rows[q]]

\* The UNIQUE of chain_index.
UniqueIndexes(rs) ==
  \A p, q \in DOMAIN rs :
    rs[p].chain_index = rs[q].chain_index /\ rs[p].chain_index # Unsealed => p = q

\* Fault: no fence, the head is overwritten.
HeadUnfenced(start) == TRUE

\* Fault: the CASE left out of the UPDATE (the INSERT still has its key).
HeadUnmovedNoCase(start) == start.index = 0 => head.index = 0

\* The fence of advanceHeadStatement: the head is still the one that was read.
\* Without a head row the primary key of the INSERT says the same.
HeadUnmoved(start) == head.index = start.index

CronTick ==
  /\ sealer[Cron].pc = "idle"
  /\ sealer' = [sealer EXCEPT ![Cron].pc = "start"]
  /\ UNCHANGED <<rows, head, processed, chainKey, kills, keyChanges>>

\* sealOnce: the head first ...
ReadHead(s) ==
  /\ sealer[s].pc = "start"
  /\ sealer' = [sealer EXCEPT ![s].pc = "head", ![s].head = head,
                              ![s].key = chainKey]
  /\ UNCHANGED <<rows, head, processed, chainKey, kills, keyChanges>>

\* ... then the rows; nothing to do when there are none ...
ReadRows(s) ==
  /\ sealer[s].pc = "head"
  /\ sealer' = [sealer EXCEPT ![s] = IF unsealedRows = {} THEN IdleSealer
                                      ELSE [@ EXCEPT !.pc = "rows", !.rows = unsealedRows]]
  /\ UNCHANGED <<rows, head, processed, chainKey, kills, keyChanges>>

\* Fault: the head is read again just before the batch, so the fence compares
\* it with itself.
SealBatchRereads(s) ==
  LET start == head
      run   == sealer[s].rows
      alg   == algFor(sealer[s].key)
      next  == sealLinks(start, run, alg)
      last  == start.index + Cardinality(run)
  IN  /\ rows' = next
      /\ head' = [index |-> last, hash |-> LinkedHash(start, run, last, alg)]

\* ... then one batch: the links and the head advance, all or nothing.
SealBatch(s) ==
  LET start == sealer[s].head
      run   == sealer[s].rows
      alg   == algFor(sealer[s].key)
      next  == sealLinks(start, run, alg)
      last  == start.index + Cardinality(run)
  IN  IF HeadUnmoved(start) /\ UniqueIndexes(next)
      THEN /\ rows' = next
           /\ head' = [index |-> last, hash |-> LinkedHash(start, run, last, alg)]
      ELSE UNCHANGED <<rows, head>>       \* contended: the batch rolled back

CommitSeal(s) ==
  /\ sealer[s].pc = "rows"
  /\ SealBatch(s)
  /\ sealer' = [sealer EXCEPT ![s] = IdleSealer]
  /\ UNCHANGED <<processed, chainKey, kills, keyChanges>>

\* The isolate is evicted: what was read is forgotten, nothing is half sealed.
Kill(s) ==
  /\ sealer[s].pc # "idle"
  /\ kills < MaxKills
  /\ kills' = kills + 1
  /\ sealer' = [sealer EXCEPT ![s] = IdleSealer]
  /\ UNCHANGED <<rows, head, processed, chainKey, keyChanges>>

\* A deployment adds or removes AUDIT_CHAIN_KEY; running passes keep theirs.
ChangeKey ==
  /\ keyChanges < MaxKeyChanges
  /\ keyChanges' = keyChanges + 1
  /\ chainKey' = ~chainKey
  /\ UNCHANGED <<rows, head, processed, sealer, kills>>

SealStep(s) == ReadHead(s) \/ ReadRows(s) \/ CommitSeal(s)

Next ==
  \/ \E e \in Events, h, d \in Details : Deliver(e, h, d)
  \/ \E e \in Events, d \in Details : Record(e, d)
  \/ CronTick
  \/ \E s \in Sealers : SealStep(s) \/ Kill(s)
  \/ ChangeKey

Spec == Init /\ [][Next]_vars

\* The cron ticks every minute and a run that is not evicted finishes.  The
\* sealers of waitUntil owe nothing.
Fairness == WF_vars(CronTick) /\ WF_vars(SealStep(Cron))

FairSpec == Spec /\ Fairness

-----------------------------------------------------------------------------
(* Properties *)

\* Every variable has its type.
TypeOK ==
  /\ IsFiniteSet(Seqs) /\ Seqs \subseteq SeqNumbers
  /\ rows \in [Seqs -> Row]
  /\ head \in ChainHead
  /\ processed \subseteq Events
  /\ sealer \in [Sealers -> [pc : {"idle", "start", "head", "rows"},
                            head : ChainHead, rows : SUBSET Nat, key : BOOLEAN]]
  /\ chainKey \in BOOLEAN
  /\ kills \in Nat
  /\ keyChanges \in Nat

\* An event is in the log at most once, whichever of the two ways (and however
\* often) it arrived, and whatever was acked is in it.
RecordedOnce ==
  /\ \A p, q \in Seqs : rows[p].event = rows[q].event => p = q
  /\ \A e \in processed : RowOf(e) # {}

\* However many sealers overlap, and in whatever order rows appear, the sealed rows
\* are numbered 1..head.index: no gap, no fork, and never a head that counts a row
\* nobody linked or forgets one that somebody did.
ChainUnbroken ==
  /\ UniqueIndexes(rows)
  /\ {rows[q].chain_index : q \in {p \in Seqs : IsSealed(p)}} = 1..head.index

\* Every link recomputes from the one before it in the chain, under the algorithm it
\* records, and the head is the last link.
ChainLinked ==
  /\ \A q \in Seqs :
       IsSealed(q) =>
         /\ rows[q].chain_index = 1 => rows[q].prev_hash = GenesisHash
         /\ \A p \in Seqs : IsSealed(p) /\ rows[q].chain_index = rows[p].chain_index + 1
                             => rows[q].prev_hash = rows[p].hash
         /\ rows[q].hash = linkHash(rows[q].prev_hash, rows[q], rows[q].alg)
         /\ rows[q].chain_index = head.index => head.hash = rows[q].hash
  /\ head.index = 0 => head.hash = GenesisHash

\* "An audit row is never rewritten and never removed" (store.ts): what a row
\* says stays, its body is filled at most once, its chain columns too.
AppendOnlyStep ==
  /\ Seqs \subseteq DOMAIN rows'
  /\ \A q \in Seqs :
       /\ rows'[q].event = rows[q].event
       /\ rows'[q].type = rows[q].type
       /\ rows'[q].detail_hash = rows[q].detail_hash
       /\ rows[q].detail # NoDetail => rows'[q].detail = rows[q].detail
       /\ IsSealed(q) => /\ rows'[q].chain_index = rows[q].chain_index
                         /\ rows'[q].prev_hash = rows[q].prev_hash
                         /\ rows'[q].hash = rows[q].hash
                         /\ rows'[q].alg = rows[q].alg

AppendOnly == [][AppendOnlyStep]_vars

\* The implemented promise: the events the head commits to are the log.
Log == INSTANCE AuditLog WITH
         recorded <- {rows[q].event : q \in Seqs},
         log <- [i \in 1..Len(head.hash) |-> head.hash[i].event]

\* The tables implement the append-only log of recorded events.
ImplementsLog == Log!LogSafety

\* With the cron alone every recorded event is chained in the end, however
\* often it loses the race to another sealer.
EveryEventChained == Log!LogLiveness
=============================================================================
