---------------------------- MODULE Audit_proofs ----------------------------
(***************************************************************************)
(* The Audit service for any set of events, rows that appear in any order  *)
(* of their seq, any number of sealers, any batch limit, page size and row *)
(* ceiling, and any damage to the storage:                                 *)
(*  - the chain is never broken and never forked;                          *)
(*  - the tables implement the append-only log;                            *)
(*  - what an answer of the verification walk is worth.                    *)
(* What makes the chain's invariant inductive is HashesCommit, every link  *)
(* is a prefix of what the head commits to, and SealersFresh: a sealer     *)
(* whose fence would still hold has read the head that is, and rows that   *)
(* nobody has linked since.                                                *)
(***************************************************************************)
EXTENDS AuditVerify, FiniteSetTheorems, TLAPS

-----------------------------------------------------------------------------
(* The inductive invariant *)

\* What a link commits to about its row.
CoreOf(row) == [event |-> row.event, type |-> row.type,
                detail_hash |-> row.detail_hash, alg |-> row.alg]

\* The first n links of a chain.
Prefix(hash, n) == [j \in 1..n |-> hash[j]]

HashesCommit ==
  /\ Len(head.hash) = head.index
  /\ \A q \in Seqs :
       IsSealed(q) =>
         /\ rows[q].alg \in Algs
         /\ head.hash[rows[q].chain_index] = CoreOf(rows[q])
         /\ rows[q].prev_hash = Prefix(head.hash, rows[q].chain_index - 1)
         /\ rows[q].hash = Prefix(head.hash, rows[q].chain_index)

SealersFresh ==
  \A s \in Sealers :
    /\ sealer[s].pc \in {"head", "rows"} =>
         /\ sealer[s].head.index <= head.index
         /\ sealer[s].head.index = head.index => sealer[s].head = head
    /\ sealer[s].pc = "rows" =>
         /\ sealer[s].rows \subseteq Seqs /\ sealer[s].rows # {}
         /\ sealer[s].head.index = head.index => \A q \in sealer[s].rows : ~IsSealed(q)

IInv == TypeOK /\ ChainUnbroken /\ HashesCommit /\ SealersFresh

-----------------------------------------------------------------------------
(* The chain and the table *)

\* An unbroken chain read both ways: a sealed row has an index up to the head,
\* and every index up to the head belongs to a row.
LEMMA ChainIndexes ==
  ASSUME TypeOK, ChainUnbroken
  PROVE  /\ head.index \in Nat /\ IsFiniteSet(Seqs) /\ Seqs \subseteq Nat
         /\ \A q \in Seqs : rows[q] \in Row /\ rows[q].chain_index \in Nat
         /\ \A q \in Seqs : IsSealed(q) <=> rows[q].chain_index \in 1..head.index
         /\ \A i \in 1..head.index : \E q \in Seqs : rows[q].chain_index = i
         /\ \A p, q \in Seqs :
              rows[p].chain_index = rows[q].chain_index /\ IsSealed(p) => p = q
<1>1. head.index \in Nat /\ IsFiniteSet(Seqs) /\ Seqs \subseteq Nat
  BY SeqNumbersPositive DEF TypeOK, ChainHead
<1>2. \A q \in Seqs : rows[q] \in Row /\ rows[q].chain_index \in Nat
  BY DEF TypeOK, Row
<1>3. ASSUME NEW q \in Seqs
      PROVE  IsSealed(q) <=> rows[q].chain_index \in 1..head.index
  <2>1. IsSealed(q) => rows[q].chain_index \in 1..head.index
    BY DEF ChainUnbroken
  <2>2. rows[q].chain_index \in 1..head.index => IsSealed(q)
    BY <1>1 DEF IsSealed, Unsealed
  <2> QED BY <2>1, <2>2
<1>4. \A i \in 1..head.index : \E q \in Seqs : rows[q].chain_index = i
  BY DEF ChainUnbroken
<1>5. \A p, q \in Seqs :
        rows[p].chain_index = rows[q].chain_index /\ IsSealed(p) => p = q
  BY DEF ChainUnbroken, UniqueIndexes, Seqs, IsSealed, Unsealed
<1> QED BY <1>1, <1>2, <1>3, <1>4, <1>5

-----------------------------------------------------------------------------
(* The operators of the sealing pass *)

\* The rows of a run take the indices behind the head one for one, whatever gaps
\* their seqs leave.
LEMMA RunIndexes ==
  ASSUME NEW start, start.index \in Nat, NEW run, run \subseteq Nat, IsFiniteSet(run)
  PROVE  LET h == start.index
             k == Cardinality(run)
         IN  /\ k \in Nat
             /\ run # {} => k # 0
             /\ \A q \in run : LinkIndex(start, run, q) \in (h + 1)..(h + k)
             /\ \A p, q \in run : LinkIndex(start, run, p) = LinkIndex(start, run, q) => p = q
             /\ \A i \in (h + 1)..(h + k) :
                  LinkedRow(start, run, i) \in run
                    /\ LinkIndex(start, run, LinkedRow(start, run, i)) = i
             /\ \A q \in run : LinkedRow(start, run, LinkIndex(start, run, q)) = q
<1> DEFINE h == start.index
           k == Cardinality(run)
           upTo(q) == {p \in run : p <= q}
           index == [q \in run |-> LinkIndex(start, run, q)]
<1>1. k \in Nat /\ (run # {} => k # 0)
  BY FS_CardinalityType, FS_EmptySet
<1>2. ASSUME NEW q \in run
      PROVE  /\ IsFiniteSet(upTo(q)) /\ Cardinality(upTo(q)) \in 1..k
             /\ LinkIndex(start, run, q) = h + Cardinality(upTo(q))
  <2>1. upTo(q) \in SUBSET run /\ q \in upTo(q)
    OBVIOUS
  <2>2. IsFiniteSet(upTo(q)) /\ Cardinality(upTo(q)) <= k
    BY <2>1, FS_Subset
  <2>3. Cardinality(upTo(q)) \in Nat /\ Cardinality(upTo(q)) # 0
    BY <2>1, <2>2, FS_CardinalityType, FS_EmptySet
  <2> QED BY <1>1, <2>2, <2>3 DEF LinkIndex
<1>3. \A q \in run : LinkIndex(start, run, q) \in (h + 1)..(h + k)
  <2> SUFFICES ASSUME NEW q \in run
               PROVE  LinkIndex(start, run, q) \in (h + 1)..(h + k)
    OBVIOUS
  <2> HIDE DEF upTo, k
  <2> QED BY <1>1, <1>2
<1>4. ASSUME NEW p \in run, NEW q \in run, p < q
      PROVE  LinkIndex(start, run, p) # LinkIndex(start, run, q)
  <2>0. p \in Nat /\ q \in Nat /\ ~(q <= p) /\ \A r \in run : r <= p => r <= q
    BY <1>4
  <2>1. upTo(p) \in SUBSET upTo(q) /\ q \in upTo(q) /\ q \notin upTo(p)
    <3>1. \A r \in upTo(p) : r \in upTo(q)
      BY <2>0
    <3>2. q \in upTo(q) /\ q \notin upTo(p)
      BY <2>0
    <3> HIDE DEF upTo
    <3> QED BY <3>1, <3>2
  <2>2. Cardinality(upTo(p)) # Cardinality(upTo(q))
    BY <1>2, <2>1, FS_Subset
  <2> HIDE DEF upTo, k
  <2> QED BY <1>2, <2>2
<1>5. \A p, q \in run : LinkIndex(start, run, p) = LinkIndex(start, run, q) => p = q
  <2> SUFFICES ASSUME NEW p \in run, NEW q \in run,
                      LinkIndex(start, run, p) = LinkIndex(start, run, q)
               PROVE  p = q
    OBVIOUS
  <2>1. p \in Nat /\ q \in Nat /\ ~(p < q) /\ ~(q < p)
    BY <1>4
  <2> QED BY <2>1
<1>6. index \in Injection(run, (h + 1)..(h + k))
  <2> HIDE DEF h, k
  <2>1. index \in [run -> (h + 1)..(h + k)]
    BY <1>3
  <2>2. \A p, q \in run : index[p] = index[q] => p = q
    BY <1>5
  <2> QED BY <2>1, <2>2 DEF Injection, IsInjective
<1>7. IsFiniteSet((h + 1)..(h + k)) /\ Cardinality((h + 1)..(h + k)) = k
  <2>1. h + 1 \in Int /\ h + k \in Int
    BY <1>1
  <2>2. /\ IsFiniteSet((h + 1)..(h + k))
        /\ Cardinality((h + 1)..(h + k)) =
             IF h + 1 > h + k THEN 0 ELSE (h + k) - (h + 1) + 1
    BY <2>1, FS_Interval
  <2> HIDE DEF k
  <2> QED BY <1>1, <2>2
<1>8. index \in Surjection(run, (h + 1)..(h + k))
  BY <1>6, <1>7, FS_Injection
<1>9. \A i \in (h + 1)..(h + k) : \E q \in run : LinkIndex(start, run, q) = i
  <2> HIDE DEF h, k
  <2>1. \A i \in (h + 1)..(h + k) : \E q \in run : index[q] = i
    BY <1>8 DEF Surjection
  <2> QED BY <2>1
<1>10. \A i \in (h + 1)..(h + k) :
         LinkedRow(start, run, i) \in run
           /\ LinkIndex(start, run, LinkedRow(start, run, i)) = i
  BY <1>9 DEF LinkedRow
<1>11. \A q \in run : LinkedRow(start, run, LinkIndex(start, run, q)) = q
  BY <1>3, <1>5, <1>10
<1> QED BY <1>1, <1>3, <1>5, <1>10, <1>11

-----------------------------------------------------------------------------
(* The two ways in *)

\* What both ways in may do to the table: rows are added, unsealed and anywhere
\* among the seqs; of the rows that are there only an empty body changes.
Grown(rs) ==
  /\ Seqs \subseteq DOMAIN rs /\ DOMAIN rs \subseteq SeqNumbers /\ IsFiniteSet(DOMAIN rs)
  /\ rs \in [DOMAIN rs -> Row]
  /\ \A q \in DOMAIN rs :
       IF q \in Seqs
       THEN /\ rs[q].event = rows[q].event
            /\ rs[q].type = rows[q].type
            /\ rs[q].detail_hash = rows[q].detail_hash
            /\ rs[q].chain_index = rows[q].chain_index
            /\ rs[q].prev_hash = rows[q].prev_hash
            /\ rs[q].hash = rows[q].hash
            /\ rs[q].alg = rows[q].alg
            /\ rows[q].detail # NoDetail => rs[q].detail = rows[q].detail
       ELSE rs[q].chain_index = Unsealed

\* What the append leaves: the table as it was, or one new unsealed row.
LEMMA InsertCases ==
  ASSUME TypeOK, NEW e \in Events, NEW type \in Types, NEW hash \in Details,
         NEW d \in Details, NEW rs \in insertEntry(rows, e, type, hash, d)
  PROVE  \/ rs = rows /\ \E q \in Seqs : rows[q].event = e
         \/ \E n \in SeqNumbers \ Seqs, row \in Row :
              /\ row.event = e /\ row.chain_index = Unsealed
              /\ ~ \E q \in Seqs : rows[q].event = e
              /\ DOMAIN rs = Seqs \cup {n}
              /\ rs \in [Seqs \cup {n} -> Row]
              /\ rs[n] = row
              /\ \A q \in Seqs : rs[q] = rows[q]
<1>1. CASE \E q \in Seqs : rows[q].event = e
  BY <1>1 DEF insertEntry, Seqs
<1>2. CASE ~ \E q \in Seqs : rows[q].event = e
  <2> DEFINE row == NewRow(e, type, hash, d)
  <2>1. row \in Row /\ row.event = e /\ row.chain_index = Unsealed
    BY DEF NewRow, Row, Hash, GenesisHash, NoAlg, Unsealed
  <2> HIDE DEF row
  <2>2. PICK n \in SeqNumbers \ Seqs : rs = WithRow(rows, n, row)
    BY <1>2 DEF insertEntry, Seqs, row
  <2>3. rs = [p \in Seqs \cup {n} |-> IF p = n THEN row ELSE rows[p]]
    BY <2>2 DEF WithRow, Seqs
  <2>4. \A p \in Seqs : rows[p] \in Row
    BY DEF TypeOK
  <2> QED BY <1>2, <2>1, <2>3, <2>4
<1> QED BY <1>1, <1>2

\* The append grows the table.
LEMMA InsertGrows ==
  ASSUME TypeOK, NEW e \in Events, NEW type \in Types, NEW hash \in Details,
         NEW d \in Details, NEW rs \in insertEntry(rows, e, type, hash, d)
  PROVE  Grown(rs)
<1>1. CASE rs = rows
  BY <1>1 DEF Grown, TypeOK, Seqs
<1>2. CASE \E n \in SeqNumbers \ Seqs :
             /\ DOMAIN rs = Seqs \cup {n} /\ rs \in [Seqs \cup {n} -> Row]
             /\ rs[n].chain_index = Unsealed /\ \A q \in Seqs : rs[q] = rows[q]
  <2>1. PICK n \in SeqNumbers \ Seqs :
             /\ DOMAIN rs = Seqs \cup {n} /\ rs \in [Seqs \cup {n} -> Row]
             /\ rs[n].chain_index = Unsealed /\ \A q \in Seqs : rs[q] = rows[q]
    BY <1>2
  <2>2. IsFiniteSet(Seqs \cup {n}) /\ Seqs \subseteq SeqNumbers
    BY FS_AddElement DEF TypeOK
  <2> QED BY <2>1, <2>2 DEF Grown
<1> QED BY <1>1, <1>2, InsertCases

\* The body back-fill touches nothing but an empty body.
LEMMA FillTouches ==
  ASSUME NEW rs, rs \in [DOMAIN rs -> Row], NEW e \in Events, NEW d \in Details
  PROVE  LET new == fillDetail(rs, e, d)
         IN  /\ DOMAIN new = DOMAIN rs /\ new \in [DOMAIN rs -> Row]
             /\ \A q \in DOMAIN rs :
                  /\ new[q].event = rs[q].event
                  /\ new[q].type = rs[q].type
                  /\ new[q].detail_hash = rs[q].detail_hash
                  /\ new[q].chain_index = rs[q].chain_index
                  /\ new[q].prev_hash = rs[q].prev_hash
                  /\ new[q].hash = rs[q].hash
                  /\ new[q].alg = rs[q].alg
                  /\ rs[q].detail # NoDetail => new[q].detail = rs[q].detail
<1> DEFINE new == fillDetail(rs, e, d)
<1>1. DOMAIN new = DOMAIN rs /\ new = [q \in DOMAIN rs |-> new[q]]
  BY DEF fillDetail
<1>2. \A q \in DOMAIN rs :
        /\ rs[q] \in Row
        /\ new[q] = IF rs[q].event = e /\ rs[q].detail = NoDetail
                    THEN [rs[q] EXCEPT !.detail = d] ELSE rs[q]
  BY DEF fillDetail
<1> HIDE DEF new
<1>3. \A q \in DOMAIN rs :
        /\ new[q] \in Row
        /\ new[q].event = rs[q].event
        /\ new[q].type = rs[q].type
        /\ new[q].detail_hash = rs[q].detail_hash
        /\ new[q].chain_index = rs[q].chain_index
        /\ new[q].prev_hash = rs[q].prev_hash
        /\ new[q].hash = rs[q].hash
        /\ new[q].alg = rs[q].alg
        /\ rs[q].detail # NoDetail => new[q].detail = rs[q].detail
  BY <1>2 DEF Row
<1>4. new \in [DOMAIN rs -> Row]
  BY <1>1, <1>3
<1> QED BY <1>1, <1>3, <1>4 DEF new

\* The body back-fill of a grown table only grows it.
LEMMA FillGrows ==
  ASSUME NEW rs, Grown(rs), NEW e \in Events, NEW d \in Details
  PROVE  Grown(fillDetail(rs, e, d))
<1> DEFINE new == fillDetail(rs, e, d)
<1>1. rs \in [DOMAIN rs -> Row]
  BY DEF Grown
<1>2. /\ DOMAIN new = DOMAIN rs /\ new \in [DOMAIN rs -> Row]
      /\ \A q \in DOMAIN rs :
           /\ new[q].event = rs[q].event
           /\ new[q].type = rs[q].type
           /\ new[q].detail_hash = rs[q].detail_hash
           /\ new[q].chain_index = rs[q].chain_index
           /\ new[q].prev_hash = rs[q].prev_hash
           /\ new[q].hash = rs[q].hash
           /\ new[q].alg = rs[q].alg
           /\ rs[q].detail # NoDetail => new[q].detail = rs[q].detail
  BY <1>1, FillTouches
<1> HIDE DEF new
<1>3. Grown(new)
  BY <1>2 DEF Grown
<1> QED BY <1>3 DEF new

\* Growth keeps the chain: no sealed row and no sealer's run is touched.
LEMMA GrowthKeepsChain ==
  ASSUME IInv, Grown(rows'), UNCHANGED head,
         \A s \in Sealers : sealer'[s].pc \in {"head", "rows"} => sealer'[s] = sealer[s]
  PROVE  ChainUnbroken' /\ HashesCommit' /\ SealersFresh'
<1>1. /\ Seqs \subseteq Seqs'
      /\ \A q \in Seqs' : q \notin Seqs => rows'[q].chain_index = Unsealed
      /\ \A q \in Seqs :
           /\ rows'[q].chain_index = rows[q].chain_index
           /\ rows'[q].prev_hash = rows[q].prev_hash
           /\ rows'[q].hash = rows[q].hash
           /\ rows'[q].alg = rows[q].alg
           /\ CoreOf(rows'[q]) = CoreOf(rows[q])
  BY DEF Grown, Seqs, CoreOf
<1>2. \A q \in Seqs' : IsSealed(q)' <=> q \in Seqs /\ IsSealed(q)
  BY <1>1 DEF IsSealed
<1>3. ChainUnbroken'
  <2>1. UniqueIndexes(rows)'
    <3> SUFFICES ASSUME NEW p \in Seqs', NEW q \in Seqs',
                        rows'[p].chain_index = rows'[q].chain_index,
                        rows'[p].chain_index # Unsealed
                 PROVE  p = q
      BY DEF UniqueIndexes, Seqs
    <3>1. p \in Seqs /\ q \in Seqs
      BY <1>1
    <3> QED BY <1>1, <3>1 DEF IInv, ChainUnbroken, UniqueIndexes, Seqs
  <2>2. {rows[q].chain_index : q \in {p \in Seqs : IsSealed(p)}}' =
        {rows[q].chain_index : q \in {p \in Seqs : IsSealed(p)}}
    BY <1>1, <1>2
  <2> QED BY <2>1, <2>2 DEF IInv, ChainUnbroken
<1>4. HashesCommit'
  BY <1>1, <1>2 DEF IInv, HashesCommit
<1>5. SealersFresh'
  <2> SUFFICES ASSUME NEW s \in Sealers, sealer'[s].pc \in {"head", "rows"}
               PROVE  /\ sealer'[s].head.index <= head.index
                      /\ sealer'[s].head.index = head.index => sealer'[s].head = head
                      /\ sealer'[s].pc = "rows" =>
                           /\ sealer'[s].rows \subseteq Seqs' /\ sealer'[s].rows # {}
                           /\ sealer'[s].head.index = head.index =>
                                \A q \in sealer'[s].rows : ~IsSealed(q)'
    BY DEF SealersFresh
  <2>1. sealer'[s] = sealer[s]
    OBVIOUS
  <2> QED BY <1>1, <1>2, <2>1 DEF IInv, SealersFresh
<1> QED BY <1>3, <1>4, <1>5

-----------------------------------------------------------------------------
(* The commit of a sealing pass *)

\* What a committed seal does: the rows of the run, none of them linked before,
\* take the indices behind the head, and what the head commits to grows by them.
Extended(run) ==
  /\ head' \in ChainHead /\ head'.index > head.index
  /\ Len(head'.hash) = head'.index
  /\ \A j \in 1..head.index : head'.hash[j] = head.hash[j]
  /\ run \subseteq Seqs
  /\ DOMAIN rows' = Seqs /\ rows' \in [Seqs -> Row]
  /\ \A q \in Seqs \ run : rows'[q] = rows[q]
  /\ \A q \in run :
       /\ ~IsSealed(q)
       /\ rows'[q].event = rows[q].event
       /\ rows'[q].type = rows[q].type
       /\ rows'[q].detail_hash = rows[q].detail_hash
       /\ rows'[q].detail = rows[q].detail
       /\ rows'[q].chain_index \in (head.index + 1)..head'.index
       /\ rows'[q].prev_hash = Prefix(head'.hash, rows'[q].chain_index - 1)
       /\ rows'[q].hash = Prefix(head'.hash, rows'[q].chain_index)
       /\ rows'[q].alg \in Algs
       /\ head'.hash[rows'[q].chain_index] = CoreOf(rows'[q])
  /\ \A p, q \in run : rows'[p].chain_index = rows'[q].chain_index => p = q
  /\ \A i \in (head.index + 1)..head'.index : \E q \in run : rows'[q].chain_index = i

\* A pass whose fence holds links its rows behind the head, all of them.
LEMMA CommitExtendsChain ==
  ASSUME IInv, NEW s \in Sealers, sealer[s].pc = "rows",
         HeadUnmoved(sealer[s].head), SealBatch(s), ~UNCHANGED <<rows, head>>
  PROVE  Extended(sealer[s].rows)
<1> USE DEF IInv
<1> DEFINE h == head.index
           start == sealer[s].head
           run == sealer[s].rows
           k == Cardinality(run)
           alg == algFor(sealer[s].key)
           N(q) == LinkIndex(start, run, q)
           core(q) == [event |-> rows[q].event, type |-> rows[q].type,
                       detail_hash |-> rows[q].detail_hash, alg |-> alg]
           new == LinkedHash(start, run, h + k, alg)
<1>1. /\ start = head /\ h \in Nat /\ Len(head.hash) = h /\ head.hash \in Seq(Core)
      /\ start.index = h
  BY DEF SealersFresh, HeadUnmoved, TypeOK, ChainHead, HashesCommit, Hash
<1>2. run \subseteq Seqs /\ run # {} /\ \A q \in run : ~IsSealed(q)
  BY <1>1 DEF SealersFresh
<1>3. run \subseteq Nat /\ IsFiniteSet(run)
  BY <1>2, ChainIndexes, FS_Subset
<1>4. /\ k \in Nat \ {0}
      /\ \A q \in run : N(q) \in (h + 1)..(h + k)
      /\ \A p, q \in run : N(p) = N(q) => p = q
      /\ \A i \in (h + 1)..(h + k) :
           LinkedRow(start, run, i) \in run /\ N(LinkedRow(start, run, i)) = i
      /\ \A q \in run : LinkedRow(start, run, N(q)) = q
  <2>1. start.index \in Nat /\ start.index = h
    BY <1>1
  <2> HIDE DEF start, run, h
  <2>2. /\ k \in Nat /\ (run # {} => k # 0)
        /\ \A q \in run : N(q) \in (start.index + 1)..(start.index + k)
        /\ \A p, q \in run : N(p) = N(q) => p = q
        /\ \A i \in (start.index + 1)..(start.index + k) :
             LinkedRow(start, run, i) \in run /\ N(LinkedRow(start, run, i)) = i
        /\ \A q \in run : LinkedRow(start, run, N(q)) = q
    BY <1>3, <2>1, RunIndexes
  <2> HIDE DEF k, N
  <2> QED BY <1>2, <2>1, <2>2
<1>5. /\ rows' = sealLinks(start, run, alg)
      /\ head' = [index |-> h + k, hash |-> new]
  BY <1>1 DEF SealBatch
<1>6. alg \in Algs
  BY DEF algFor, Algs
<1>7. \A q \in Seqs : rows[q] \in Row
  BY ChainIndexes
<1>8. \A q \in Seqs : core(q) \in Core
  BY <1>6, <1>7 DEF Row, Core
<1> HIDE DEF start, run, k, alg
<1>9. new = [j \in 1..(h + k) |->
              IF j <= h THEN head.hash[j] ELSE core(LinkedRow(start, run, j))]
  BY <1>1 DEF LinkedHash
<1> HIDE DEF new
<1>10. /\ \A j \in 1..h : new[j] = head.hash[j]
       /\ \A j \in (h + 1)..(h + k) : new[j] = core(LinkedRow(start, run, j))
  BY <1>1, <1>4, <1>9
<1>11. new \in Seq(Core) /\ Len(new) = h + k
  <2>1. \A j \in 1..(h + k) : new[j] \in Core
    <3> SUFFICES ASSUME NEW j \in 1..(h + k) PROVE new[j] \in Core
      OBVIOUS
    <3>1. CASE j <= h
      BY <1>1, <1>10, <3>1
    <3>2. CASE ~(j <= h)
      <4>1. j \in (h + 1)..(h + k)
        BY <1>1, <1>4, <3>2
      <4>2. LinkedRow(start, run, j) \in Seqs
        BY <1>2, <1>4, <4>1
      <4> HIDE DEF core
      <4> QED BY <1>8, <1>10, <4>1, <4>2
    <3> QED BY <3>1, <3>2
  <2>2. new = [j \in 1..(h + k) |-> new[j]] /\ h + k \in Nat
    BY <1>1, <1>4, <1>9
  <2> QED BY <2>1, <2>2
<1>12. \A i \in 0..(h + k) : LinkedHash(start, run, i, alg) = Prefix(new, i)
  <2> SUFFICES ASSUME NEW i \in 0..(h + k)
               PROVE  LinkedHash(start, run, i, alg) = Prefix(new, i)
    OBVIOUS
  <2>1. LinkedHash(start, run, i, alg) =
          [j \in 1..i |-> IF j <= h THEN head.hash[j] ELSE core(LinkedRow(start, run, j))]
    BY <1>1 DEF LinkedHash
  <2>2. \A j \in 1..i : j \in 1..(h + k)
    BY <1>1, <1>4
  <2> QED BY <1>9, <2>1, <2>2 DEF Prefix
<1>13. \A i \in 0..(h + k) : Prefix(new, i) \in Hash
  <2> SUFFICES ASSUME NEW i \in 0..(h + k) PROVE Prefix(new, i) \in Seq(Core)
    BY DEF Hash
  <2>1. i \in Nat /\ \A j \in 1..i : j \in 1..Len(new)
    BY <1>1, <1>4, <1>11
  <2>2. \A j \in 1..i : new[j] \in Core
    BY <1>11, <2>1
  <2> QED BY <2>1, <2>2 DEF Prefix
<1>14. \A q \in Seqs \ run : rows'[q] = rows[q]
  BY <1>5 DEF sealLinks
<1>15. \A q \in run :
         rows'[q] = [rows[q] EXCEPT !.chain_index = N(q), !.prev_hash = Prefix(new, N(q) - 1),
                                    !.hash = Prefix(new, N(q)), !.alg = alg]
  <2> SUFFICES ASSUME NEW q \in run
               PROVE  rows'[q] = [rows[q] EXCEPT !.chain_index = N(q),
                                    !.prev_hash = Prefix(new, N(q) - 1),
                                    !.hash = Prefix(new, N(q)), !.alg = alg]
    OBVIOUS
  <2>1. N(q) \in 0..(h + k) /\ N(q) - 1 \in 0..(h + k)
    BY <1>1, <1>4
  <2>2. q \in Seqs /\ ~IsSealed(q)
    BY <1>2
  <2>3. rows'[q] = [rows[q] EXCEPT !.chain_index = N(q),
                       !.prev_hash = LinkedHash(start, run, N(q) - 1, alg),
                       !.hash = LinkedHash(start, run, N(q), alg), !.alg = alg]
    BY <1>5, <2>2 DEF sealLinks
  <2> QED BY <1>12, <2>1, <2>3
<1>16. \A q \in run :
         /\ rows'[q] \in Row
         /\ rows'[q].event = rows[q].event
         /\ rows'[q].type = rows[q].type
         /\ rows'[q].detail_hash = rows[q].detail_hash
         /\ rows'[q].detail = rows[q].detail
         /\ rows'[q].chain_index = N(q)
         /\ rows'[q].prev_hash = Prefix(new, N(q) - 1)
         /\ rows'[q].hash = Prefix(new, N(q))
         /\ rows'[q].alg = alg
  <2> SUFFICES ASSUME NEW q \in run
               PROVE  /\ rows'[q] \in Row
                      /\ rows'[q].event = rows[q].event
                      /\ rows'[q].type = rows[q].type
                      /\ rows'[q].detail_hash = rows[q].detail_hash
                      /\ rows'[q].detail = rows[q].detail
                      /\ rows'[q].chain_index = N(q)
                      /\ rows'[q].prev_hash = Prefix(new, N(q) - 1)
                      /\ rows'[q].hash = Prefix(new, N(q))
                      /\ rows'[q].alg = alg
    OBVIOUS
  <2>1. N(q) \in Nat /\ N(q) \in 0..(h + k) /\ N(q) - 1 \in 0..(h + k)
    BY <1>1, <1>4
  <2>2. Prefix(new, N(q) - 1) \in Hash /\ Prefix(new, N(q)) \in Hash
    BY <1>13, <2>1
  <2>3. rows[q] \in Row
    BY <1>2, <1>7
  <2> DEFINE row == rows[q]
             i == N(q)
             prev == Prefix(new, N(q) - 1)
             hash == Prefix(new, N(q))
             linked == [row EXCEPT !.chain_index = i, !.prev_hash = prev,
                                   !.hash = hash, !.alg = alg]
  <2>4. rows'[q] = linked
    BY <1>15
  <2>5. row \in Row /\ i \in Nat /\ prev \in Hash /\ hash \in Hash
    BY <2>1, <2>2, <2>3
  <2> HIDE DEF row, i, prev, hash
  <2>6. /\ linked \in Row
        /\ linked.event = row.event /\ linked.type = row.type
        /\ linked.detail_hash = row.detail_hash /\ linked.detail = row.detail
        /\ linked.chain_index = i /\ linked.prev_hash = prev
        /\ linked.hash = hash /\ linked.alg = alg
    BY <1>6, <2>5 DEF Row
  <2> HIDE DEF linked
  <2> QED BY <2>4, <2>6 DEF row, i, prev, hash
<1>17. DOMAIN rows' = Seqs /\ rows' \in [Seqs -> Row]
  <2>1. DOMAIN rows' = Seqs /\ rows' = [q \in Seqs |-> rows'[q]]
    BY <1>5 DEF sealLinks
  <2>2. \A q \in Seqs : rows'[q] \in Row
    BY <1>7, <1>14, <1>16
  <2> QED BY <2>1, <2>2
<1>18. \A q \in run : new[N(q)] = CoreOf(rows'[q])
  BY <1>4, <1>10, <1>16 DEF CoreOf
<1>19. head' \in ChainHead /\ head'.index = h + k /\ head'.hash = new /\ h + k > h
  BY <1>1, <1>4, <1>5, <1>11 DEF ChainHead, Hash
<1>20. \A i \in (h + 1)..(h + k) : \E q \in run : rows'[q].chain_index = i
  BY <1>4, <1>16
<1>21. \A p, q \in run : rows'[p].chain_index = rows'[q].chain_index => p = q
  BY <1>4, <1>16
<1>22. Extended(run)
  <2> HIDE DEF h, N
  <2>1. \A q \in run :
       /\ ~IsSealed(q)
       /\ rows'[q].event = rows[q].event
       /\ rows'[q].type = rows[q].type
       /\ rows'[q].detail_hash = rows[q].detail_hash
       /\ rows'[q].detail = rows[q].detail
       /\ rows'[q].chain_index \in (h + 1)..(h + k)
       /\ rows'[q].prev_hash = Prefix(new, rows'[q].chain_index - 1)
       /\ rows'[q].hash = Prefix(new, rows'[q].chain_index)
       /\ rows'[q].alg \in Algs
       /\ new[rows'[q].chain_index] = CoreOf(rows'[q])
    BY <1>2, <1>4, <1>6, <1>16, <1>18
  <2> QED BY <1>2, <1>10, <1>11, <1>14, <1>17, <1>19, <1>20, <1>21, <2>1 DEF Extended, h
<1> QED BY <1>22 DEF run

\* Whatever became of the fence, a commit keeps the chain.
LEMMA CommitKeepsChain ==
  ASSUME IInv, NEW s \in Sealers, CommitSeal(s)
  PROVE  IInv'
<1> USE DEF IInv
<1>1. /\ sealer[s].pc = "rows" /\ SealBatch(s)
      /\ sealer' = [sealer EXCEPT ![s] = IdleSealer]
      /\ UNCHANGED <<processed, chainKey, kills, keyChanges>>
  BY DEF CommitSeal
<1>2. sealer' \in [Sealers -> [pc : {"idle", "start", "head", "rows"},
                            head : ChainHead, rows : SUBSET Nat, key : BOOLEAN]]
  <2>1. IdleSealer \in [pc : {"idle", "start", "head", "rows"},
                        head : ChainHead, rows : SUBSET Nat, key : BOOLEAN]
    BY DEF IdleSealer, NoHead, ChainHead, Hash, GenesisHash
  <2> QED BY <1>1, <2>1 DEF TypeOK
<1>3. sealer'[s].pc = "idle" /\ \A t \in Sealers \ {s} : sealer'[t] = sealer[t]
  BY <1>1 DEF TypeOK, IdleSealer
<1>4. CASE UNCHANGED <<rows, head>>
  <2>1. TypeOK'
    BY <1>1, <1>2, <1>4 DEF TypeOK, Seqs
  <2>2. rows' = rows /\ head' = head
    BY <1>4
  <2>4. ChainUnbroken' /\ HashesCommit'
    BY <2>2 DEF ChainUnbroken, HashesCommit, Seqs, IsSealed
  <2>3. SealersFresh'
    BY <1>3, <2>2 DEF SealersFresh, Seqs, IsSealed
  <2> QED BY <2>1, <2>3, <2>4
<1>5. CASE ~UNCHANGED <<rows, head>>
  <2> DEFINE run == sealer[s].rows
  <2>1. HeadUnmoved(sealer[s].head)
    BY <1>1, <1>5 DEF SealBatch
  <2>2. Extended(run)
    BY <1>1, <1>5, <2>1, CommitExtendsChain
  <2> HIDE DEF run
  <2>3. /\ head.index \in Nat /\ head'.index \in Nat /\ head.index < head'.index
        /\ Seqs' = Seqs
    BY <2>2 DEF Extended, TypeOK, ChainHead, Seqs
  <2>4. \A q \in Seqs : /\ rows[q].chain_index \in Nat
                        /\ IsSealed(q) <=> rows[q].chain_index \in 1..head.index
    BY ChainIndexes
  <2>5. \A q \in Seqs :
          /\ q \in run => rows'[q].chain_index \in (head.index + 1)..head'.index
          /\ q \notin run => rows'[q] = rows[q]
          /\ IsSealed(q)' <=> q \in run \/ IsSealed(q)
    BY <2>2, <2>3 DEF Extended, IsSealed, Unsealed
  <2>6. ChainUnbroken'
    <3>1. UniqueIndexes(rows)'
      <4> SUFFICES ASSUME NEW p \in Seqs, NEW q \in Seqs,
                          rows'[p].chain_index = rows'[q].chain_index,
                          rows'[p].chain_index # Unsealed
                   PROVE  p = q
        BY <2>3 DEF UniqueIndexes, Seqs
      <4>1. CASE p \in run /\ q \in run
        BY <2>2, <4>1 DEF Extended
      <4>2. CASE p \notin run /\ q \notin run
        BY <2>5, <4>2 DEF ChainUnbroken, UniqueIndexes, Seqs
      <4>3. CASE p \in run /\ q \notin run
        BY <2>3, <2>4, <2>5, <4>3 DEF IsSealed
      <4>4. CASE p \notin run /\ q \in run
        BY <2>3, <2>4, <2>5, <4>4 DEF IsSealed
      <4> QED BY <4>1, <4>2, <4>3, <4>4
    <3>2. ASSUME NEW q \in Seqs, IsSealed(q)'
          PROVE  rows'[q].chain_index \in 1..head'.index
      BY <2>3, <2>4, <2>5, <3>2
    <3>3. ASSUME NEW i \in 1..head'.index
          PROVE  \E q \in Seqs : IsSealed(q)' /\ rows'[q].chain_index = i
      <4>1. CASE i <= head.index
        <5>1. PICK q \in Seqs : rows[q].chain_index = i
          BY <2>3, <4>1, ChainIndexes
        <5>2. IsSealed(q)
          BY <2>3, <2>4, <4>1, <5>1
        <5>3. q \notin run
          BY <2>2, <5>2 DEF Extended
        <5> QED BY <2>5, <5>1, <5>2, <5>3
      <4>2. CASE ~(i <= head.index)
        <5>1. PICK q \in run : rows'[q].chain_index = i
          BY <2>2, <2>3, <4>2 DEF Extended
        <5> QED BY <2>2, <2>5, <5>1 DEF Extended
      <4> QED BY <4>1, <4>2
    <3>4. {rows'[q].chain_index : q \in {p \in Seqs : IsSealed(p)'}} = 1..head'.index
      BY <3>2, <3>3
    <3> QED BY <2>3, <3>1, <3>4 DEF ChainUnbroken
  <2>7. HashesCommit'
    <3>1. ASSUME NEW q \in Seqs, IsSealed(q)'
          PROVE  /\ rows'[q].alg \in Algs
                 /\ head'.hash[rows'[q].chain_index] = CoreOf(rows'[q])
                 /\ rows'[q].prev_hash = Prefix(head'.hash, rows'[q].chain_index - 1)
                 /\ rows'[q].hash = Prefix(head'.hash, rows'[q].chain_index)
      <4>1. CASE q \in run
        BY <2>2, <4>1 DEF Extended
      <4>2. CASE q \notin run
        <5> DEFINE i == rows[q].chain_index
        <5>1. IsSealed(q) /\ rows'[q] = rows[q] /\ i \in 1..head.index
          BY <2>4, <2>5, <3>1, <4>2
        <5> HIDE DEF i
        <5>2. \A j \in 1..i : head'.hash[j] = head.hash[j]
          BY <2>2, <2>3, <5>1 DEF Extended
        <5>3. /\ Prefix(head'.hash, i - 1) = Prefix(head.hash, i - 1)
              /\ Prefix(head'.hash, i) = Prefix(head.hash, i)
              /\ head'.hash[i] = head.hash[i]
          BY <2>3, <5>1, <5>2 DEF Prefix
        <5> QED BY <5>1, <5>3 DEF HashesCommit, i
      <4> QED BY <4>1, <4>2
    <3> QED BY <2>2, <2>3, <3>1 DEF HashesCommit, Extended
  <2>8. SealersFresh'
    <3> SUFFICES ASSUME NEW t \in Sealers, sealer'[t].pc \in {"head", "rows"}
                 PROVE  /\ sealer'[t].head.index <= head'.index
                        /\ sealer'[t].head.index # head'.index
                        /\ sealer'[t].pc = "rows" =>
                             sealer'[t].rows \subseteq Seqs /\ sealer'[t].rows # {}
      BY <2>3 DEF SealersFresh
    <3>1. t # s /\ sealer'[t] = sealer[t]
      BY <1>3
    <3>2. sealer[t].head.index <= head.index /\ sealer[t].head.index \in Nat
      BY <3>1 DEF SealersFresh, TypeOK, ChainHead
    <3> QED BY <2>3, <3>1, <3>2 DEF SealersFresh
  <2>9. TypeOK'
    <3>1. IsFiniteSet(Seqs) /\ Seqs \subseteq SeqNumbers /\ rows' \in [Seqs -> Row]
          /\ head' \in ChainHead
      BY <2>2 DEF TypeOK, Extended
    <3> QED BY <1>1, <1>2, <2>3, <3>1 DEF TypeOK
  <2> QED BY <2>6, <2>7, <2>8, <2>9
<1> QED BY <1>4, <1>5

-----------------------------------------------------------------------------
(* The theorems *)

\* The empty tables satisfy the invariant.
LEMMA InitInvariant == Init => IInv
<1> SUFFICES ASSUME Init PROVE IInv
  OBVIOUS
<1> USE DEF Init
<1>0. Seqs = {} /\ head = NoHead /\ NoHead.index = 0
  BY DEF Seqs, NoHead
<1>1. TypeOK
  <2>1. IdleSealer \in [pc : {"idle", "start", "head", "rows"},
                        head : ChainHead, rows : SUBSET Nat, key : BOOLEAN]
    BY DEF IdleSealer, NoHead, ChainHead, Hash, GenesisHash
  <2>2. rows \in [Seqs -> Row] /\ head \in ChainHead
    BY <1>0 DEF NoHead, ChainHead, Hash, GenesisHash
  <2>3. IsFiniteSet(Seqs) /\ Seqs \subseteq SeqNumbers
    BY <1>0, FS_EmptySet
  <2>4. chainKey \in BOOLEAN
    BY InitialKeysBoolean
  <2> QED BY <2>1, <2>2, <2>3, <2>4 DEF TypeOK
<1>2. ChainUnbroken
  BY <1>0 DEF ChainUnbroken, UniqueIndexes, Seqs
<1>3. HashesCommit
  BY <1>0 DEF HashesCommit, NoHead, GenesisHash
<1>4. SealersFresh
  BY DEF SealersFresh, IdleSealer
<1> QED BY <1>1, <1>2, <1>3, <1>4 DEF IInv

\* Either way in grows the table.
LEMMA WaysInGrow ==
  ASSUME TypeOK, NEW e \in Events, NEW h \in Details, NEW d \in Details,
         Deliver(e, h, d) \/ Record(e, d)
  PROVE  Grown(rows')
<1>1. CASE Deliver(e, h, d)
  BY <1>1, InsertGrows DEF Deliver, Types
<1>2. CASE Record(e, d)
  <2>1. PICK rs \in insertEntry(rows, e, "record", d, d) :
          rows' = rs \/ rows' = fillDetail(rs, e, d)
    BY <1>2 DEF Record
  <2>2. Grown(rs)
    BY InsertGrows DEF Types
  <2>3. Grown(fillDetail(rs, e, d))
    BY <2>2, FillGrows
  <2> QED BY <2>1, <2>2, <2>3
<1> QED BY <1>1, <1>2

\* Every step keeps the invariant: deliveries and record() grow the table, reads
\* touch a sealer only, a commit extends the chain.
LEMMA NextInvariant == IInv /\ [Next]_vars => IInv'
<1> SUFFICES ASSUME IInv, [Next]_vars PROVE IInv'
  OBVIOUS
<1> DEFINE SealerType == [pc : {"idle", "start", "head", "rows"},
                          head : ChainHead, rows : SUBSET Nat, key : BOOLEAN]
<1>0. IdleSealer \in SealerType
  BY DEF IdleSealer, NoHead, ChainHead, Hash, GenesisHash
<1>1. ASSUME NEW e \in Events, NEW h \in Details, NEW d \in Details, Deliver(e, h, d)
      PROVE  IInv'
  <2>1. Grown(rows')
    BY <1>1, WaysInGrow DEF IInv
  <2>2. /\ sealer' \in [Sealers -> SealerType]
        /\ \A s \in Sealers : sealer'[s].pc \in {"head", "rows"} => sealer'[s] = sealer[s]
    BY <1>1 DEF Deliver, LaunchSeal, IInv, TypeOK, Sealers
  <2>3. ChainUnbroken' /\ HashesCommit' /\ SealersFresh'
    BY <1>1, <2>1, <2>2, GrowthKeepsChain DEF Deliver
  <2>4. TypeOK'
    BY <1>1, <2>1, <2>2 DEF Deliver, TypeOK, IInv, Grown, Seqs
  <2> QED BY <2>3, <2>4 DEF IInv
<1>2. ASSUME NEW e \in Events, NEW d \in Details, Record(e, d)
      PROVE  IInv'
  <2>1. Grown(rows')
    BY <1>2, WaysInGrow DEF IInv
  <2>2. ChainUnbroken' /\ HashesCommit' /\ SealersFresh'
    BY <1>2, <2>1, GrowthKeepsChain DEF Record
  <2>3. TypeOK'
    BY <1>2, <2>1 DEF Record, TypeOK, IInv, Grown, Seqs
  <2> QED BY <2>2, <2>3 DEF IInv
<1> DEFINE Reads == UNCHANGED <<rows, head, processed>>
<1>3. ASSUME Reads, sealer' \in [Sealers -> SealerType],
             chainKey' \in BOOLEAN, kills' \in Nat, keyChanges' \in Nat, SealersFresh'
      PROVE  IInv'
  <2>1. rows' = rows /\ head' = head
    BY <1>3
  <2>2. ChainUnbroken'
    BY <2>1 DEF IInv, ChainUnbroken, Seqs, IsSealed
  <2>3. HashesCommit'
    BY <2>1 DEF IInv, HashesCommit, Seqs, IsSealed
  <2>4. TypeOK'
    BY <1>3 DEF IInv, TypeOK, Seqs
  <2> QED BY <1>3, <2>2, <2>3, <2>4 DEF IInv
<1>4. CASE CronTick
  <2>1. sealer' \in [Sealers -> SealerType]
    BY <1>4 DEF CronTick, IInv, TypeOK, Sealers
  <2>2. SealersFresh'
    BY <1>4 DEF CronTick, IInv, TypeOK, SealersFresh, Sealers, Seqs, IsSealed
  <2> QED BY <1>3, <1>4, <2>1, <2>2 DEF CronTick, IInv, TypeOK
<1>5. ASSUME NEW s \in Sealers, ReadHead(s)
      PROVE  IInv'
  <2>1. sealer' \in [Sealers -> SealerType]
    BY <1>5, ZenonT(30) DEF ReadHead, IInv, TypeOK
  <2>2. SealersFresh'
    BY <1>5 DEF ReadHead, IInv, TypeOK, SealersFresh, ChainHead, Seqs, IsSealed
  <2> QED BY <1>3, <1>5, <2>1, <2>2 DEF ReadHead, IInv, TypeOK
<1>6. ASSUME NEW s \in Sealers, ReadRows(s)
      PROVE  IInv'
  <2>1. unsealedRows \in SUBSET Nat
    BY ChainIndexes DEF unsealedRows, IInv
  <2>2. sealer' \in [Sealers -> SealerType]
    BY <1>0, <1>6, <2>1 DEF ReadRows, IInv, TypeOK
  <2>3. SealersFresh'
    <3>0. /\ UNCHANGED <<rows, head>> /\ Seqs' = Seqs
          /\ \A q \in Seqs : IsSealed(q)' = IsSealed(q)
          /\ \A t \in Sealers \ {s} : sealer'[t] = sealer[t]
      BY <1>6 DEF ReadRows, IInv, TypeOK, Seqs, IsSealed
    <3>1. CASE unsealedRows = {}
      <4>1. sealer'[s].pc = "idle"
        BY <1>6, <3>1 DEF ReadRows, IInv, TypeOK, IdleSealer
      <4> QED BY <3>0, <4>1 DEF IInv, SealersFresh
    <3>2. CASE unsealedRows # {}
      <4>1. unsealedRows \subseteq Seqs /\ \A q \in unsealedRows : ~IsSealed(q)
        BY DEF unsealedRows
      <4>2. /\ sealer'[s] = [sealer[s] EXCEPT !.pc = "rows", !.rows = unsealedRows]
            /\ sealer[s].pc = "head"
        BY <1>6, <3>2 DEF ReadRows, IInv, TypeOK
      <4>3. /\ sealer'[s].pc = "rows" /\ sealer'[s].rows = unsealedRows
            /\ sealer'[s].head = sealer[s].head
        BY <4>2 DEF IInv, TypeOK
      <4> HIDE DEF unsealedRows
      <4> QED BY <3>0, <3>2, <4>1, <4>2, <4>3 DEF IInv, SealersFresh
    <3> QED BY <3>1, <3>2
  <2> QED BY <1>3, <1>6, <2>2, <2>3 DEF ReadRows, IInv, TypeOK
<1>7. ASSUME NEW s \in Sealers, CommitSeal(s)
      PROVE  IInv'
  BY <1>7, CommitKeepsChain
<1>8. ASSUME NEW s \in Sealers, Kill(s)
      PROVE  IInv'
  <2>1. sealer' \in [Sealers -> SealerType]
    BY <1>0, <1>8 DEF Kill, IInv, TypeOK
  <2>2. SealersFresh'
    BY <1>8 DEF Kill, IInv, TypeOK, SealersFresh, IdleSealer, Seqs, IsSealed
  <2> QED BY <1>3, <1>8, <2>1, <2>2 DEF Kill, IInv, TypeOK
<1>9. CASE ChangeKey
  <2>1. SealersFresh'
    BY <1>9 DEF ChangeKey, IInv, SealersFresh, Seqs, IsSealed
  <2> QED BY <1>3, <1>9, <2>1 DEF ChangeKey, IInv, TypeOK
<1>10. CASE UNCHANGED vars
  <2>1. SealersFresh'
    BY <1>10 DEF vars, IInv, SealersFresh, Seqs, IsSealed
  <2> QED BY <1>3, <1>10, <2>1 DEF vars, IInv, TypeOK
<1> QED BY <1>1, <1>2, <1>4, <1>5, <1>6, <1>7, <1>8, <1>9, <1>10
        DEF Next, SealStep, Details

\* The chain invariants, as one inductive invariant of the specification.
THEOREM ChainInvariant == Spec => []IInv
BY InitInvariant, NextInvariant, PTL DEF Spec

\* Type correctness, for every instance of the constants.
THEOREM TypeCorrect == Spec => []TypeOK
BY ChainInvariant, PTL DEF IInv

\* However many sealers overlap (seal.ts: "a rolled-back batch, never a forked
\* chain") and in whatever order of seq rows appear (chain.ts: a smaller seq may
\* become visible after a larger one was sealed), the sealed rows are numbered
\* 1..head.index, each index once.
THEOREM NeverForked == Spec => []ChainUnbroken
BY ChainInvariant, PTL DEF IInv

\* A prefix grows by the core of the row that is linked next.
LEMMA PrefixGrows ==
  ASSUME NEW hash, NEW i \in Nat \ {0}, NEW row, hash[i] = CoreOf(row)
  PROVE  Prefix(hash, i) = linkHash(Prefix(hash, i - 1), row, row.alg)
<1>1. /\ Prefix(hash, i - 1) = [j \in 1..(i - 1) |-> hash[j]]
      /\ Prefix(hash, i) = [j \in 1..i |-> hash[j]]
  BY DEF Prefix
<1> DEFINE c == [event |-> row.event, type |-> row.type,
                 detail_hash |-> row.detail_hash, alg |-> row.alg]
<1>2. linkHash(Prefix(hash, i - 1), row, row.alg) = Append(Prefix(hash, i - 1), c)
  BY DEF linkHash
<1>3. hash[i] = c
  BY DEF CoreOf
<1> HIDE DEF c
<1>4. Append([j \in 1..(i - 1) |-> hash[j]], c) = [j \in 1..i |-> hash[j]]
  BY <1>3
<1> QED BY <1>1, <1>2, <1>4

\* Links that commit to all rows before them recompute from their predecessor.
LEMMA CommittedIsLinked == IInv => ChainLinked
<1> SUFFICES ASSUME IInv PROVE ChainLinked
  OBVIOUS
<1>1. /\ head.index \in Nat /\ Len(head.hash) = head.index /\ head.hash \in Seq(Core)
      /\ Prefix(head.hash, 0) = << >> /\ Prefix(head.hash, head.index) = head.hash
  BY DEF IInv, TypeOK, ChainHead, HashesCommit, Hash, Prefix
<1>2. ASSUME NEW q \in Seqs, IsSealed(q)
      PROVE  /\ rows[q].chain_index = 1 => rows[q].prev_hash = GenesisHash
             /\ \A p \in Seqs : IsSealed(p) /\ rows[q].chain_index = rows[p].chain_index + 1
                                 => rows[q].prev_hash = rows[p].hash
             /\ rows[q].hash = linkHash(rows[q].prev_hash, rows[q], rows[q].alg)
             /\ rows[q].chain_index = head.index => head.hash = rows[q].hash
  <2> DEFINE i == rows[q].chain_index
  <2>1. /\ i \in Nat \ {0}
        /\ head.hash[i] = CoreOf(rows[q])
        /\ rows[q].prev_hash = Prefix(head.hash, i - 1)
        /\ rows[q].hash = Prefix(head.hash, i)
    BY <1>2, ChainIndexes DEF IInv, HashesCommit
  <2>2. ASSUME NEW p \in Seqs, IsSealed(p), i = rows[p].chain_index + 1
        PROVE  rows[q].prev_hash = rows[p].hash
    <3>1. rows[p].hash = Prefix(head.hash, rows[p].chain_index) /\ rows[p].chain_index \in Nat
      BY <2>2, ChainIndexes DEF IInv, HashesCommit
    <3>2. i - 1 = rows[p].chain_index
      BY <2>2, <3>1
    <3> QED BY <2>1, <3>1, <3>2
  <2>3. rows[q].hash = linkHash(rows[q].prev_hash, rows[q], rows[q].alg)
    BY <2>1, PrefixGrows
  <2>4. i = 1 => rows[q].prev_hash = GenesisHash
    BY <1>1, <2>1 DEF GenesisHash
  <2> QED BY <1>1, <2>1, <2>2, <2>3, <2>4
<1>3. head.index = 0 => head.hash = GenesisHash
  BY <1>1 DEF GenesisHash
<1> QED BY <1>2, <1>3 DEF ChainLinked

\* Every link recomputes from its predecessor and the head is the last of them.
THEOREM AlwaysLinked == Spec => []ChainLinked
BY ChainInvariant, CommittedIsLinked, PTL

-----------------------------------------------------------------------------
(* Recorded once *)

\* What a step may do to the table for the log's purposes: the rows that were
\* there keep their event ids, and there are no others.
SameEvents(rs) ==
  /\ DOMAIN rs = Seqs
  /\ \A q \in Seqs : rs[q].event = rows[q].event

\* A table with the same event ids records the same events, none twice.
LEMMA SameEventsRecordedOnce ==
  ASSUME RecordedOnce, SameEvents(rows'), processed' = processed
  PROVE  RecordedOnce'
<1>1. Seqs' = Seqs /\ \A q \in Seqs : rows'[q].event = rows[q].event
  BY DEF SameEvents, Seqs
<1>2. \A e : RowOf(e)' = RowOf(e)
  BY <1>1 DEF RowOf
<1> QED BY <1>1, <1>2 DEF RecordedOnce

\* What both ways in do to the events of the table: e is added, or already there.
RecordsOn(rs, e) ==
  /\ \A p, q \in DOMAIN rs : rs[p].event = rs[q].event => p = q
  /\ \E q \in DOMAIN rs : rs[q].event = e
  /\ Seqs \subseteq DOMAIN rs
  /\ \A q \in Seqs : rs[q].event = rows[q].event
  /\ \A q \in DOMAIN rs : rs[q].event = e \/ q \in Seqs

\* The insert adds the event if it is new and leaves the table alone if not.
LEMMA InsertRecords ==
  ASSUME TypeOK, RecordedOnce, NEW e \in Events, NEW type \in Types,
         NEW hash \in Details, NEW d \in Details,
         NEW rs \in insertEntry(rows, e, type, hash, d)
  PROVE  RecordsOn(rs, e)
<1>1. CASE rs = rows /\ \E q \in Seqs : rows[q].event = e
  BY <1>1 DEF RecordsOn, RecordedOnce, Seqs
<1>2. CASE \E n \in SeqNumbers \ Seqs, row \in Row :
             /\ row.event = e
             /\ ~ \E q \in Seqs : rows[q].event = e
             /\ DOMAIN rs = Seqs \cup {n} /\ rs[n] = row
             /\ \A q \in Seqs : rs[q] = rows[q]
  BY <1>2 DEF RecordsOn, RecordedOnce
<1> QED BY <1>1, <1>2, InsertCases

\* Either way in records its event.
LEMMA WaysInRecord ==
  ASSUME TypeOK, RecordedOnce, NEW e \in Events, NEW h \in Details, NEW d \in Details,
         Deliver(e, h, d) \/ Record(e, d)
  PROVE  RecordsOn(rows', e)
<1>1. CASE Deliver(e, h, d)
  BY <1>1, InsertRecords DEF Deliver, Types
<1>2. CASE Record(e, d)
  <2>1. PICK rs \in insertEntry(rows, e, "record", d, d) :
          rows' = rs \/ rows' = fillDetail(rs, e, d)
    BY <1>2 DEF Record
  <2>2. RecordsOn(rs, e) /\ rs \in [DOMAIN rs -> Row]
    BY InsertRecords, InsertGrows DEF Types, Grown
  <2>3. /\ DOMAIN fillDetail(rs, e, d) = DOMAIN rs
        /\ \A q \in DOMAIN rs : fillDetail(rs, e, d)[q].event = rs[q].event
    BY <2>2, FillTouches
  <2>4. DOMAIN rows' = DOMAIN rs /\ \A q \in DOMAIN rs : rows'[q].event = rs[q].event
    BY <2>1, <2>3
  <2> QED BY <2>2, <2>4 DEF RecordsOn
<1> QED BY <1>1, <1>2

\* A committed seal, or a rolled back one, touches no event id.
LEMMA CommitKeepsEvents ==
  ASSUME IInv, NEW s \in Sealers, CommitSeal(s)
  PROVE  SameEvents(rows')
<1>1. CASE UNCHANGED <<rows, head>>
  BY <1>1 DEF SameEvents, Seqs
<1>2. CASE ~UNCHANGED <<rows, head>>
  <2>1. sealer[s].pc = "rows" /\ SealBatch(s)
    BY DEF CommitSeal
  <2>2. HeadUnmoved(sealer[s].head)
    BY <1>2, <2>1 DEF SealBatch
  <2>3. Extended(sealer[s].rows)
    BY <1>2, <2>1, <2>2, CommitExtendsChain
  <2> QED BY <2>3 DEF SameEvents, Extended
<1> QED BY <1>1, <1>2

\* No step records an event twice or forgets an acked one.
LEMMA NextRecordedOnce ==
  ASSUME IInv, RecordedOnce, [Next]_vars
  PROVE  RecordedOnce'
<1>1. ASSUME NEW e \in Events, RecordsOn(rows', e), processed' \subseteq processed \cup {e}
      PROVE  RecordedOnce'
  <2>1. \A p, q \in Seqs' : rows'[p].event = rows'[q].event => p = q
    BY <1>1 DEF RecordsOn, Seqs
  <2>2. ASSUME NEW f \in processed' PROVE RowOf(f)' # {}
    <3>1. CASE f = e
      BY <1>1, <3>1 DEF RecordsOn, RowOf, Seqs
    <3>2. CASE f # e
      <4>1. PICK q \in Seqs : rows[q].event = f
        BY <1>1, <2>2, <3>2 DEF RecordedOnce, RowOf
      <4>2. q \in Seqs' /\ rows'[q].event = f
        BY <1>1, <4>1 DEF RecordsOn, Seqs
      <4> QED BY <4>2 DEF RowOf
    <3> QED BY <3>1, <3>2
  <2> QED BY <2>1, <2>2 DEF RecordedOnce
<1>2. ASSUME NEW e \in Events, NEW h \in Details, NEW d \in Details,
             Deliver(e, h, d) \/ Record(e, d)
      PROVE  RecordedOnce'
  <2>1. RecordsOn(rows', e)
    BY <1>2, WaysInRecord DEF IInv
  <2>2. processed' \subseteq processed \cup {e}
    BY <1>2 DEF Deliver, Record
  <2> QED BY <1>1, <2>1, <2>2
<1>3. ASSUME NEW s \in Sealers, CommitSeal(s)
      PROVE  RecordedOnce'
  BY <1>3, CommitKeepsEvents, SameEventsRecordedOnce DEF CommitSeal
<1>4. ASSUME UNCHANGED <<rows, processed>>
      PROVE  RecordedOnce'
  BY <1>4, SameEventsRecordedOnce DEF SameEvents, Seqs
<1> QED BY <1>2, <1>3, <1>4
        DEF Next, SealStep, CronTick, ReadHead, ReadRows, Kill, ChangeKey, vars, Details

\* An event is in the log at most once, whichever way it came (store.ts: the
\* ON CONFLICT clause), and what was acked is in it.
THEOREM AlwaysRecordedOnce == Spec => []RecordedOnce
<1>1. Init => RecordedOnce
  BY DEF Init, RecordedOnce, Seqs, RowOf
<1>2. IInv /\ RecordedOnce /\ [Next]_vars => RecordedOnce'
  BY NextRecordedOnce
<1> QED BY <1>1, <1>2, ChainInvariant, PTL DEF Spec

-----------------------------------------------------------------------------
(* Append-only *)

\* No step rewrites a row, however the runs interleave.
LEMMA StepAppends ==
  ASSUME IInv, [Next]_vars
  PROVE  AppendOnlyStep
<1>1. ASSUME NEW e \in Events, NEW h \in Details, NEW d \in Details,
             Deliver(e, h, d) \/ Record(e, d)
      PROVE  AppendOnlyStep
  <2>1. Grown(rows')
    BY <1>1, WaysInGrow DEF IInv
  <2> QED BY <2>1 DEF AppendOnlyStep, Grown
<1>2. ASSUME rows' = rows
      PROVE  AppendOnlyStep
  BY <1>2 DEF AppendOnlyStep, Seqs
<1>3. ASSUME NEW s \in Sealers, CommitSeal(s), rows' # rows
      PROVE  AppendOnlyStep
  <2>1. sealer[s].pc = "rows" /\ SealBatch(s) /\ HeadUnmoved(sealer[s].head)
    BY <1>3 DEF CommitSeal, SealBatch
  <2>2. Extended(sealer[s].rows)
    BY <1>3, <2>1, CommitExtendsChain
  <2> QED BY <2>2 DEF AppendOnlyStep, Extended
<1> QED BY <1>1, <1>2, <1>3
        DEF Next, SealStep, CronTick, ReadHead, ReadRows, Kill, ChangeKey, vars, Details

\* "An audit row is never rewritten and never removed" (store.ts), in every step.
THEOREM NeverRewritten == Spec => AppendOnly
<1>1. IInv /\ [Next]_vars => [AppendOnlyStep]_vars
  BY StepAppends
<1> QED BY <1>1, ChainInvariant, PTL DEF Spec, AppendOnly

-----------------------------------------------------------------------------
(* The refinement *)

\* The abstract log under the refinement mapping: the events of the links that the
\* head commits to.
TheLog == [i \in 1..Len(head.hash) |-> head.hash[i].event]

\* The i-th of them is the event of the row that was linked i-th.
LogShape ==
  /\ head.index \in Nat /\ DOMAIN TheLog = 1..head.index /\ Len(TheLog) = head.index
  /\ \A q \in Seqs :
       rows[q].chain_index \in 1..head.index => TheLog[rows[q].chain_index] = rows[q].event
  /\ \A i \in 1..head.index :
       \E q \in Seqs : rows[q].chain_index = i /\ TheLog[i] = rows[q].event

\* The chain lists the events of its rows in the order of their links.
LEMMA LogListsRows == IInv => LogShape
<1> SUFFICES ASSUME IInv PROVE LogShape
  OBVIOUS
<1>1. /\ head.index \in Nat /\ TheLog = [i \in 1..head.index |-> head.hash[i].event]
      /\ DOMAIN TheLog = 1..head.index /\ Len(TheLog) = head.index
  BY DEF IInv, TypeOK, ChainHead, HashesCommit, TheLog
<1>2. ASSUME NEW q \in Seqs, rows[q].chain_index \in 1..head.index
      PROVE  TheLog[rows[q].chain_index] = rows[q].event
  <2>1. IsSealed(q)
    BY <1>2, ChainIndexes DEF IInv
  <2>2. head.hash[rows[q].chain_index] = CoreOf(rows[q])
    BY <2>1 DEF IInv, HashesCommit
  <2> QED BY <1>1, <1>2, <2>2 DEF CoreOf
<1>3. ASSUME NEW i \in 1..head.index
      PROVE  \E q \in Seqs : rows[q].chain_index = i /\ TheLog[i] = rows[q].event
  <2>1. PICK q \in Seqs : rows[q].chain_index = i
    BY ChainIndexes DEF IInv
  <2> QED BY <1>2, <2>1
<1> HIDE DEF TheLog
<1> QED BY <1>1, <1>2, <1>3 DEF LogShape

\* A step that records is Take, a seal that commits is Chain, any other stutters.
LEMMA StepRefines ==
  ASSUME IInv, RecordedOnce, IInv', RecordedOnce', [Next]_vars
  PROVE  [Log!LogNext]_(Log!logVars)
<1>1. ASSUME NEW e \in Events, RecordsOn(rows', e), UNCHANGED head
      PROVE  [Log!LogNext]_(Log!logVars)
  <2>2. {rows[q].event : q \in Seqs}' = {rows[q].event : q \in Seqs} \cup {e}
    <3>1. \A q \in Seqs' : rows'[q].event = e \/ (q \in Seqs /\ rows'[q].event = rows[q].event)
      BY <1>1 DEF RecordsOn, Seqs
    <3>2. \A q \in Seqs : q \in Seqs' /\ rows'[q].event = rows[q].event
      BY <1>1 DEF RecordsOn, Seqs
    <3>3. \E q \in Seqs' : rows'[q].event = e
      BY <1>1 DEF RecordsOn, Seqs
    <3> QED BY <3>1, <3>2, <3>3
  <2>3. TheLog' = TheLog
    BY <1>1 DEF TheLog
  <2>4. CASE e \in {rows[q].event : q \in Seqs}
    <3>1. {rows[q].event : q \in Seqs}' = {rows[q].event : q \in Seqs}
      BY <2>2, <2>4
    <3> QED BY <2>3, <3>1 DEF Log!logVars, TheLog
  <2>5. CASE e \notin {rows[q].event : q \in Seqs}
    <3>1. Log!Take
      BY <2>2, <2>3, <2>5 DEF Log!Take, TheLog
    <3> QED BY <3>1 DEF Log!LogNext
  <2> QED BY <2>4, <2>5
<1>2. ASSUME UNCHANGED <<rows, head>>
      PROVE  [Log!LogNext]_(Log!logVars)
  BY <1>2 DEF Log!logVars, Seqs
<1>3. ASSUME NEW s \in Sealers, CommitSeal(s), ~UNCHANGED <<rows, head>>
      PROVE  [Log!LogNext]_(Log!logVars)
  <2>1. sealer[s].pc = "rows" /\ SealBatch(s) /\ HeadUnmoved(sealer[s].head)
    BY <1>3 DEF CommitSeal, SealBatch
  <2>2. /\ head'.index > head.index
        /\ \A j \in 1..head.index : head'.hash[j] = head.hash[j]
    BY <1>3, <2>1, CommitExtendsChain DEF Extended
  <2>3. Seqs' = Seqs /\ \A q \in Seqs : rows'[q].event = rows[q].event
    BY <1>3, CommitKeepsEvents DEF SameEvents, Seqs
  <2>4. {rows[q].event : q \in Seqs}' = {rows[q].event : q \in Seqs}
    BY <2>3
  <2>5. /\ head.index \in Nat /\ Len(TheLog) = head.index /\ DOMAIN TheLog = 1..head.index
    BY LogListsRows DEF LogShape
  <2>6. /\ head'.index \in Nat /\ Len(TheLog') = head'.index
        /\ DOMAIN TheLog' = 1..head'.index
        /\ \A i \in 1..head'.index :
             \E q \in Seqs' : rows'[q].chain_index = i /\ TheLog'[i] = rows'[q].event
    <3>1. (IInv => LogShape)'
      BY LogListsRows, PTL
    <3> QED BY <3>1 DEF LogShape
  <2>7. \A i \in 1..head.index : TheLog'[i] = TheLog[i]
    <3>1. Len(head.hash) = head.index /\ Len(head'.hash) = head'.index
      BY DEF IInv, HashesCommit
    <3>2. \A i \in 1..head.index : i \in 1..head'.index
      BY <2>2, <2>5, <2>6
    <3> QED BY <2>2, <3>1, <3>2 DEF TheLog
  <2>8. Log!Extends(TheLog', TheLog)
    BY <2>2, <2>5, <2>6, <2>7 DEF Log!Extends
  <2>9. Log!Listed(TheLog') \subseteq {rows[q].event : q \in Seqs}
    BY <2>3, <2>6 DEF Log!Listed
  <2>10. Log!NoRepeats(TheLog')
    <3> SUFFICES ASSUME NEW i \in 1..head'.index, NEW j \in 1..head'.index,
                        TheLog'[i] = TheLog'[j]
                 PROVE  i = j
      BY <2>6 DEF Log!NoRepeats
    <3>1. PICK p \in Seqs' : rows'[p].chain_index = i /\ TheLog'[i] = rows'[p].event
      BY <2>6
    <3>2. PICK q \in Seqs' : rows'[q].chain_index = j /\ TheLog'[j] = rows'[q].event
      BY <2>6
    <3>3. p = q
      BY <3>1, <3>2 DEF RecordedOnce
    <3> QED BY <3>1, <3>2, <3>3
  <2>11. Log!Chain
    BY <2>4, <2>8, <2>9, <2>10 DEF Log!Chain, TheLog
  <2> QED BY <2>11 DEF Log!LogNext
<1>4. ASSUME NEW e \in Events, NEW h \in Details, NEW d \in Details,
             Deliver(e, h, d) \/ Record(e, d)
      PROVE  [Log!LogNext]_(Log!logVars)
  <2>1. RecordsOn(rows', e)
    BY <1>4, WaysInRecord DEF IInv
  <2>2. UNCHANGED head
    BY <1>4 DEF Deliver, Record
  <2> QED BY <1>1, <2>1, <2>2
<1> QED BY <1>2, <1>3, <1>4
        DEF Next, SealStep, CronTick, ReadHead, ReadRows, Kill, ChangeKey, vars, Details

\* The tables implement the append-only log of recorded events.
THEOREM TablesImplementLog == Spec => ImplementsLog
<1>1. Init => Log!LogInit
  BY DEF Init, NoHead, GenesisHash, Log!LogInit, Seqs
<1>2. /\ IInv /\ RecordedOnce /\ IInv' /\ RecordedOnce' /\ [Next]_vars
      => [Log!LogNext]_(Log!logVars)
  BY StepRefines
<1> QED BY <1>1, <1>2, ChainInvariant, AlwaysRecordedOnce, PTL
        DEF Spec, ImplementsLog, Log!LogSafety

-----------------------------------------------------------------------------
(* The verification walk *)

WalkType == [pc : {"idle", "page", "done"}, head : ChainHead, key : BOOLEAN,
             index : Nat, hash : Hash, checked : Nat, ok : BOOLEAN,
             truncated : BOOLEAN, brokenAt : Nat, damaged : SUBSET Nat]

\* The rows walked so far were intact when they were read, and readable with
\* the key of the caller.
WalkedIsIntact(w) ==
  \A q \in Seqs :
    rows[q].chain_index \in 1..w.index => /\ q \notin w.damaged
                                          /\ rows[q].alg = "hmac-sha256" => w.key

\* There is a keyed row at that place of the chain.
KeyedAt(i) == \E q \in Seqs : rows[q].chain_index = i /\ rows[q].alg = "hmac-sha256"

\* AlarmExplained, of any walk.
AlarmIsExplained(w) ==
  w.pc = "done" /\ ~w.ok /\ altered \cup lost = {} =>
    \/ w.brokenAt = w.head.index + 1 /\ head.index > w.head.index
    \/ ~w.key /\ w.brokenAt \in 1..head.index /\ KeyedAt(w.brokenAt)

\* Where a walk stands: at a link of the chain, with the hash stored there, and
\* holding a head that was one.
WalkOK(w) ==
  /\ w \in WalkType
  /\ w.damaged \subseteq altered \cup lost
  /\ w.index <= head.index /\ w.hash = Prefix(head.hash, w.index)
  /\ w.head.index <= head.index /\ w.head.hash = Prefix(head.hash, w.head.index)
  /\ w.checked = w.index /\ w.checked <= MaxRows
  /\ w.pc = "page" => w.checked < MaxRows /\ w.ok
  /\ w.pc = "done" /\ w.ok /\ ~w.truncated => w.index = w.head.index
  /\ WalkedIsIntact(w)
  /\ AlarmIsExplained(w)

VInv ==
  /\ IInv
  /\ altered \cup lost \subseteq {q \in Seqs : IsSealed(q)}
  /\ WalkOK(walk)

-----------------------------------------------------------------------------
(* The chain as the walk meets it *)

LEMMA ChainTyped ==
  ASSUME IInv
  PROVE  /\ head.index \in Nat /\ head.hash \in Seq(Core) /\ Len(head.hash) = head.index
         /\ IsFiniteSet(Seqs) /\ Seqs \subseteq Nat
         /\ \A q \in Seqs : rows[q].chain_index \in Nat
         /\ \A p, q \in Seqs :
              rows[p].chain_index = rows[q].chain_index /\ IsSealed(p) => p = q
         /\ \A i \in 1..head.index : \E q \in Seqs : rows[q].chain_index = i
         /\ \A q \in Seqs : IsSealed(q) <=> rows[q].chain_index \in 1..head.index
         /\ \A q \in Seqs : IsSealed(q) =>
              /\ rows[q] \in Row
              /\ rows[q].alg \in Algs
              /\ rows[q].prev_hash = Prefix(head.hash, rows[q].chain_index - 1)
              /\ rows[q].hash = Prefix(head.hash, rows[q].chain_index)
BY ChainIndexes DEF IInv, HashesCommit, TypeOK, ChainHead, Hash

\* What a link commits to is typed, and it says how long the chain up to it is.
LEMMA PrefixTyped ==
  ASSUME IInv, NEW n \in 0..head.index
  PROVE  Prefix(head.hash, n) \in Hash /\ Len(Prefix(head.hash, n)) = n
<1>1. n \in Nat /\ \A j \in 1..n : head.hash[j] \in Core
  BY ChainTyped
<1> QED BY <1>1 DEF Prefix, Hash

\* A stretch of the chain has as many rows as it has indices.
Stretch(a, b) == {q \in Seqs : rows[q].chain_index \in (a + 1)..b}

LEMMA StretchCount ==
  ASSUME IInv, NEW a \in Nat, NEW b \in Nat, a <= b, b <= head.index
  PROVE  Cardinality(Stretch(a, b)) = b - a
<1> DEFINE S == Stretch(a, b)
           index == [q \in S |-> rows[q].chain_index]
<1>1. \A q \in S : q \in Seqs /\ index[q] \in (a + 1)..b /\ IsSealed(q)
  BY DEF Stretch, IsSealed, Unsealed
<1>2. \A p, q \in S : index[p] = index[q] => p = q
  BY <1>1, ChainTyped
<1>3. \A i \in (a + 1)..b : \E q \in S : index[q] = i
  <2> TAKE i \in (a + 1)..b
  <2>1. i \in 1..head.index
    BY ChainTyped
  <2>2. PICK q \in Seqs : rows[q].chain_index = i
    BY <2>1, ChainTyped
  <2> QED BY <2>2 DEF Stretch
<1>4. index \in [S -> (a + 1)..b]
  BY <1>1
<1>5. IsFiniteSet(S)
  BY ChainTyped, FS_Subset DEF Stretch
<1> HIDE DEF S
<1>6. index \in Injection(S, (a + 1)..b) /\ index \in Surjection(S, (a + 1)..b)
  <2> HIDE DEF index
  <2> QED BY <1>2, <1>3, <1>4 DEF Injection, IsInjective, Surjection
<1>7. IsFiniteSet((a + 1)..b) /\ Cardinality((a + 1)..b) = b - a
  <2>1. a + 1 \in Int /\ b \in Int
    OBVIOUS
  <2>2. /\ IsFiniteSet((a + 1)..b)
        /\ Cardinality((a + 1)..b) = IF a + 1 > b THEN 0 ELSE b - (a + 1) + 1
    BY <2>1, FS_Interval
  <2> QED BY <2>2
<1>8. Cardinality(S) = b - a
  BY <1>6, <1>7, FS_Injection
<1> QED BY <1>8 DEF S

\* The rows of a page are sealed and there; a place on the page is one row's.
LEMMA PageRows ==
  ASSUME IInv, NEW after \in Nat, NEW limit \in Nat, NEW page, page = sealedPage(after, limit)
  PROVE  /\ page \subseteq Seqs /\ page \cap lost = {}
         /\ IsFiniteSet(page) /\ Cardinality(page) \in Nat
         /\ \A q \in page : IsSealed(q) /\ rows[q].chain_index \in 1..head.index
         /\ \A q \in page : Position(page, q) \in Nat /\ Position(page, q) <= limit
         /\ \A p, q \in page : Position(page, p) = Position(page, q) => p = q
<1> DEFINE found == {q \in Seqs \ lost : rows[q].chain_index > after}
<1>1. \A q \in found : q \in Seqs /\ q \notin lost /\ IsSealed(q)
  BY ChainTyped DEF IsSealed, Unsealed
<1>2. page = {q \in found : Position(found, q) <= limit}
  BY DEF sealedPage
<1>3. IsFiniteSet(found)
  <2>1. found \in SUBSET Seqs
    OBVIOUS
  <2> QED BY <2>1, ChainTyped, FS_Subset
<1> HIDE DEF found
<1>4. page \subseteq found /\ IsFiniteSet(page) /\ Cardinality(page) \in Nat
  BY <1>2, <1>3, FS_Subset, FS_CardinalityType
<1>5. ASSUME NEW q \in page
      PROVE  Position(page, q) \in Nat /\ Position(page, q) <= limit
  <2> DEFINE inPage == {p \in page : rows[p].chain_index <= rows[q].chain_index}
             inFound == {p \in found : rows[p].chain_index <= rows[q].chain_index}
  <2>1. inFound \in SUBSET found /\ inPage \in SUBSET inFound
    BY <1>4
  <2>2. IsFiniteSet(inFound) /\ IsFiniteSet(inPage)
    BY <1>3, <2>1, FS_Subset
  <2>3. Cardinality(inPage) \in Nat /\ Cardinality(inFound) \in Nat
        /\ Cardinality(inPage) <= Cardinality(inFound)
    BY <2>1, <2>2, FS_Subset, FS_CardinalityType
  <2>4. Cardinality(inFound) <= limit
    BY <1>2, <1>5 DEF Position
  <2> QED BY <2>3, <2>4 DEF Position
<1>6. \A q \in page : q \in Seqs /\ IsSealed(q) /\ rows[q].chain_index \in 1..head.index
  BY <1>1, <1>4, ChainTyped
<1>7. ASSUME NEW p \in page, NEW q \in page, Position(page, p) = Position(page, q),
             rows[p].chain_index < rows[q].chain_index
      PROVE  FALSE
  <2> DEFINE upToP == {k \in page : rows[k].chain_index <= rows[p].chain_index}
             upToQ == {k \in page : rows[k].chain_index <= rows[q].chain_index}
  <2>1. \A k \in page : rows[k].chain_index \in Nat
    BY <1>6
  <2>2. \A k \in page : rows[k].chain_index <= rows[p].chain_index
                          => rows[k].chain_index <= rows[q].chain_index
    BY <1>7, <2>1
  <2>3. ~(rows[q].chain_index <= rows[p].chain_index) /\ rows[q].chain_index <= rows[q].chain_index
    BY <1>7, <2>1
  <2>4. upToP \in SUBSET upToQ /\ q \in upToQ /\ q \notin upToP
    BY <2>2, <2>3
  <2>5. IsFiniteSet(upToQ)
    BY <1>4, FS_Subset
  <2>6. Cardinality(upToQ) = Cardinality(upToP)
    BY <1>7 DEF Position
  <2> HIDE DEF upToP, upToQ
  <2> QED BY <2>4, <2>5, <2>6, FS_Subset
<1>8. ASSUME NEW p \in page, NEW q \in page, Position(page, p) = Position(page, q)
      PROVE  p = q
  <2>1. rows[p].chain_index \in Nat /\ rows[q].chain_index \in Nat
    BY <1>6
  <2>2. ~(rows[p].chain_index < rows[q].chain_index) /\ ~(rows[q].chain_index < rows[p].chain_index)
    BY <1>7, <1>8
  <2>3. rows[p].chain_index = rows[q].chain_index
    BY <2>1, <2>2
  <2> QED BY <1>6, <2>3, ChainTyped
<1> QED BY <1>1, <1>4, <1>5, <1>6, <1>8

\* In a stretch of the chain a row stands where its index says.
LEMMA StretchPosition ==
  ASSUME IInv, NEW a \in Nat, NEW b \in Nat, a <= b, b <= head.index, NEW q \in Stretch(a, b)
  PROVE  Position(Stretch(a, b), q) = rows[q].chain_index - a
<1> DEFINE i == rows[q].chain_index
<1>1. i \in Nat /\ a <= i /\ i <= b /\ i <= head.index
  BY ChainTyped DEF Stretch
<1>2. {p \in Stretch(a, b) : rows[p].chain_index <= i} = Stretch(a, i)
  BY <1>1 DEF Stretch
<1>3. Cardinality(Stretch(a, i)) = i - a
  BY <1>1, StretchCount
<1> QED BY <1>2, <1>3 DEF Position

\* With no row lost a page is the stretch of the chain behind `after`, as long
\* as the limit allows.
LEMMA IntactPage ==
  ASSUME IInv, lost = {}, NEW after \in Nat, after <= head.index, NEW limit \in Nat,
         NEW page, page = sealedPage(after, limit)
  PROVE  /\ Cardinality(page) \in Nat
         /\ page = Stretch(after, after + Cardinality(page))
         /\ after + Cardinality(page) <= head.index
         /\ Cardinality(page) < limit => after + Cardinality(page) = head.index
         /\ \A q \in page : Position(page, q) = rows[q].chain_index - after
<1> DEFINE found == {q \in Seqs \ lost : rows[q].chain_index > after}
           b     == Smaller(head.index, after + limit)
<1>1. head.index \in Nat
  BY ChainTyped
<1>2. found = Stretch(after, head.index)
  <2>1. ASSUME NEW q \in Seqs
        PROVE  rows[q].chain_index > after <=> rows[q].chain_index \in (after + 1)..head.index
    <3>1. rows[q].chain_index \in Nat /\ (rows[q].chain_index # 0 => rows[q].chain_index <= head.index)
      BY ChainTyped DEF IsSealed, Unsealed
    <3> QED BY <1>1, <3>1
  <2> QED BY <2>1 DEF Stretch
<1>3. page = {q \in found : Position(found, q) <= limit}
  BY DEF sealedPage
<1>4. b \in Nat /\ after <= b /\ b <= head.index /\ b <= after + limit
      /\ (b < after + limit => b = head.index) /\ (b = head.index \/ b = after + limit)
  BY <1>1 DEF Smaller
<1> HIDE DEF found, b
<1>5. page = {q \in Stretch(after, head.index) : rows[q].chain_index - after <= limit}
  <2>1. \A q \in Stretch(after, head.index) :
          Position(Stretch(after, head.index), q) = rows[q].chain_index - after
    BY <1>1, StretchPosition
  <2> QED BY <1>2, <1>3, <2>1
<1>6. page = Stretch(after, b)
  <2>1. ASSUME NEW q \in Seqs
        PROVE  rows[q].chain_index \in (after + 1)..head.index /\ rows[q].chain_index - after <= limit
                 <=> rows[q].chain_index \in (after + 1)..b
    <3>1. rows[q].chain_index \in Nat
      BY ChainTyped
    <3> QED BY <1>1, <1>4, <3>1
  <2> QED BY <1>5, <2>1 DEF Stretch
<1>7. Cardinality(page) = b - after
  BY <1>4, <1>6, StretchCount
<1>8. \A q \in page : Position(page, q) = rows[q].chain_index - after
  BY <1>4, <1>6, StretchPosition
<1>9. Cardinality(page) \in Nat /\ after + Cardinality(page) = b
  BY <1>4, <1>7
<1> QED BY <1>4, <1>6, <1>7, <1>8, <1>9

-----------------------------------------------------------------------------
(* A page *)

\* A row that was altered, or keyed with a key the caller lacks, never matches.
LEMMA RecomputedIsIntact ==
  ASSUME IInv, NEW key \in BOOLEAN, NEW q \in Seqs, IsSealed(q),
         rows[q].hash = Recomputed(q, key)
  PROVE  q \notin altered /\ (rows[q].alg = "hmac-sha256" => key)
<1> DEFINE i == rows[q].chain_index
<1>1. /\ rows[q].hash = Prefix(head.hash, i) /\ rows[q].prev_hash = Prefix(head.hash, i - 1)
      /\ i \in 1..head.index /\ i - 1 \in 0..head.index /\ i \in 0..head.index
      /\ head.hash[i] = CoreOf(rows[q]) /\ i \in Nat \ {0}
  BY ChainTyped DEF IInv, HashesCommit
<1> HIDE DEF i
<1>2. q \notin altered
  <2>1. Len(<< >>) = 0 /\ Len(Prefix(head.hash, i)) = i
    BY <1>1, PrefixTyped
  <2> QED BY <1>1, <2>1 DEF Recomputed
<1>3. ASSUME rows[q].alg = "hmac-sha256", ~key
      PROVE  FALSE
  <2>1. Recomputed(q, key) = linkHash(Prefix(head.hash, i - 1), rows[q], "sha256")
    BY <1>1, <1>2, <1>3 DEF Recomputed, algFor
  <2>2. linkHash(Prefix(head.hash, i - 1), rows[q], "sha256")[i].alg = "sha256"
    <3>1. Prefix(head.hash, i - 1) \in Seq(Core) /\ Len(Prefix(head.hash, i - 1)) = i - 1
      BY <1>1, PrefixTyped DEF Hash
    <3> QED BY <1>1, <3>1 DEF linkHash
  <2>3. Prefix(head.hash, i)[i].alg = "hmac-sha256"
    BY <1>1, <1>3 DEF Prefix, CoreOf
  <2> QED BY <1>1, <2>1, <2>2, <2>3
<1> QED BY <1>2, <1>3

\* The other way round: an intact row that does not recompute is a keyed one.
LEMMA IntactRecomputes ==
  ASSUME IInv, NEW key \in BOOLEAN, NEW q \in Seqs, IsSealed(q), q \notin altered,
         rows[q].hash # Recomputed(q, key)
  PROVE  rows[q].alg = "hmac-sha256" /\ ~key
<1>1. rows[q].hash = linkHash(rows[q].prev_hash, rows[q], rows[q].alg)
  BY CommittedIsLinked DEF ChainLinked
<1>2. rows[q].alg \in {"sha256", "hmac-sha256"}
  BY ChainTyped DEF Algs
<1> QED BY <1>1, <1>2 DEF Recomputed, algFor

\* The i-th rows of a page up to the n-th match: they are the links behind
\* `index`, intact, and the hash carried on is that of the last of them.
LEMMA MatchedRows ==
  ASSUME IInv, NEW index \in Nat, index <= head.index,
         NEW hash, hash = Prefix(head.hash, index),
         NEW key \in BOOLEAN, NEW limit \in Nat, NEW page, page = sealedPage(index, limit),
         NEW n \in Nat, \A i \in 1..n : RowMatches(page, i, index, hash, key)
  PROVE  /\ index + n <= head.index /\ n <= limit
         /\ CarriedHash(page, n + 1, hash) = Prefix(head.hash, index + n)
         /\ \A q \in Stretch(index, index + n) :
              /\ q \notin altered \cup lost
              /\ rows[q].alg = "hmac-sha256" => key
<1>1. head.index \in Nat
  BY ChainTyped
<1>2. /\ page \subseteq Seqs /\ page \cap lost = {}
      /\ \A q \in page : IsSealed(q) /\ rows[q].chain_index \in 1..head.index
      /\ \A q \in page : Position(page, q) \in Nat /\ Position(page, q) <= limit
      /\ \A p, q \in page : Position(page, p) = Position(page, q) => p = q
  BY PageRows
<1>3. ASSUME NEW i \in 1..n
      PROVE  \E q \in page : /\ Position(page, q) = i /\ rows[q].chain_index = index + i
                             /\ rows[q].hash = Recomputed(q, key)
  BY <1>3 DEF RowMatches
<1>4. index + n <= head.index /\ n <= limit
  <2>1. CASE n = 0
    BY <1>1, <2>1
  <2>2. CASE n # 0
    <3>1. PICK q \in page : Position(page, q) = n /\ rows[q].chain_index = index + n
      BY <1>3, <2>2
    <3> QED BY <1>2, <3>1
  <2> QED BY <2>1, <2>2
<1>5. ASSUME NEW q \in Stretch(index, index + n)
      PROVE  q \notin altered \cup lost /\ (rows[q].alg = "hmac-sha256" => key)
  <2> DEFINE i == rows[q].chain_index - index
  <2>1. q \in Seqs /\ i \in 1..n /\ index + i = rows[q].chain_index
    BY DEF Stretch
  <2>2. PICK p \in page : rows[p].chain_index = index + i /\ rows[p].hash = Recomputed(p, key)
    BY <1>3, <2>1
  <2>3. p = q
    BY <1>2, <2>1, <2>2, ChainTyped
  <2>4. q \notin lost /\ IsSealed(q) /\ rows[q].hash = Recomputed(q, key)
    BY <1>2, <2>2, <2>3
  <2> QED BY <2>1, <2>4, RecomputedIsIntact
<1>6. CarriedHash(page, n + 1, hash) = Prefix(head.hash, index + n)
  <2>1. CASE n = 0
    BY <2>1 DEF CarriedHash
  <2>2. CASE n # 0
    <3>1. PICK q \in page : Position(page, q) = n /\ rows[q].chain_index = index + n
      BY <1>3, <2>2
    <3>2. \A p \in page : Position(page, p) = n => p = q
      BY <1>2, <3>1
    <3>3. (CHOOSE p \in page : Position(page, p) = n) = q
      BY <3>1, <3>2
    <3>4. n + 1 # 1 /\ (n + 1) - 1 = n
      BY <2>2
    <3>5. CarriedHash(page, n + 1, hash) = rows[q].hash
      BY <3>3, <3>4 DEF CarriedHash
    <3>6. rows[q].hash = Prefix(head.hash, rows[q].chain_index)
      BY <1>2, <3>1, ChainTyped
    <3> QED BY <3>1, <3>5, <3>6
  <2> QED BY <2>1, <2>2
<1> QED BY <1>4, <1>5, <1>6

\* Over untouched storage the first row that does not match is a keyed one that
\* this caller cannot recompute.
LEMMA MismatchIsKeyed ==
  ASSUME IInv, NEW index \in Nat, index <= head.index,
         NEW hash, hash = Prefix(head.hash, index),
         NEW key \in BOOLEAN, NEW limit \in Nat, NEW page, page = sealedPage(index, limit),
         NEW n \in Nat, n < Cardinality(page), MatchingPrefix(page, n, index, hash, key),
         altered \cup lost = {}
  PROVE  index + n + 1 \in 1..head.index /\ KeyedAt(index + n + 1) /\ ~key
<1>1. lost = {} /\ altered = {} /\ head.index \in Nat
  BY ChainTyped
<1>2. /\ page = Stretch(index, index + Cardinality(page)) /\ Cardinality(page) \in Nat
      /\ index + Cardinality(page) <= head.index
      /\ \A p \in page : Position(page, p) = rows[p].chain_index - index
  <2>1. IInv /\ lost = {} /\ index <= head.index /\ page = sealedPage(index, limit)
    BY <1>1
  <2>2. Cardinality(page) \in Nat /\ page = Stretch(index, index + Cardinality(page))
    BY <2>1, IntactPage
  <2>3. index + Cardinality(page) <= head.index
    BY <2>1, IntactPage
  <2>4. \A p \in page : Position(page, p) = rows[p].chain_index - index
    <3>1. /\ index + Cardinality(page) \in Nat /\ index <= index + Cardinality(page)
          /\ page = Stretch(index, index + Cardinality(page))
      BY <2>2
    <3> QED BY <2>3, <3>1, StretchPosition
  <2> QED BY <2>2, <2>3, <2>4
<1>3. index + n + 1 \in 1..head.index /\ index + n + 1 \in (index + 1)..(index + Cardinality(page))
  BY <1>1, <1>2
<1>4. PICK q \in Seqs : rows[q].chain_index = index + n + 1
  BY <1>3, ChainTyped
<1>5. /\ q \in page /\ Position(page, q) = n + 1 /\ IsSealed(q)
      /\ rows[q].chain_index = index + (n + 1)
  <2>1. q \in page
    BY <1>2, <1>3, <1>4 DEF Stretch
  <2>2. IsSealed(q)
    BY <1>3, <1>4 DEF IsSealed, Unsealed
  <2> QED BY <1>2, <1>4, <2>1, <2>2
<1>6. rows[q].prev_hash = CarriedHash(page, n + 1, hash)
  <2>1. CarriedHash(page, n + 1, hash) = Prefix(head.hash, index + n)
    <3>1. \A i \in 1..n : RowMatches(page, i, index, hash, key)
      BY DEF MatchingPrefix
    <3> QED BY <3>1, MatchedRows
  <2>2. rows[q].prev_hash = Prefix(head.hash, rows[q].chain_index - 1)
    BY <1>5, ChainTyped
  <2>3. rows[q].chain_index - 1 = index + n
    BY <1>4
  <2> QED BY <2>1, <2>2, <2>3
<1>7. ~RowMatches(page, n + 1, index, hash, key)
  BY DEF MatchingPrefix
<1>8. rows[q].hash # Recomputed(q, key)
  BY <1>5, <1>6, <1>7 DEF RowMatches
<1>9. rows[q].alg = "hmac-sha256" /\ ~key
  BY <1>1, <1>5, <1>8, IntactRecomputes
<1> QED BY <1>3, <1>4, <1>9 DEF KeyedAt

-----------------------------------------------------------------------------
(* The walk *)

\* A sealed row is the only one at its index and commits to the chain up to there.
SealedLinks ==
  /\ \A q \in Seqs : IsSealed(q) => /\ rows[q].chain_index \in 1..head.index
                                   /\ rows[q].hash = Prefix(head.hash, rows[q].chain_index)
  /\ \A p, q \in Seqs : rows[p].chain_index = rows[q].chain_index /\ IsSealed(p) => p = q

LEMMA ChainLinks == IInv => SealedLinks
BY ChainTyped DEF SealedLinks

\* Whatever the service does, the sealed part of the chain stays.
LEMMA SealedStays ==
  ASSUME IInv, IInv', [Next]_vars
  PROVE  /\ head.index <= head'.index
         /\ Seqs \subseteq Seqs'
         /\ \A q \in Seqs : IsSealed(q) =>
              /\ rows'[q].alg = rows[q].alg /\ rows'[q].chain_index = rows[q].chain_index
              /\ IsSealed(q)'
         /\ \A q \in Seqs' : rows'[q].chain_index \in 1..head.index => q \in Seqs /\ IsSealed(q)
         /\ \A n \in 0..head.index : Prefix(head'.hash, n) = Prefix(head.hash, n)
<1>1. AppendOnlyStep /\ head.index \in Nat /\ head'.index \in Nat
  BY StepAppends, ChainTyped DEF IInv, TypeOK, ChainHead
<1>2. Seqs \subseteq Seqs'
  BY <1>1 DEF AppendOnlyStep, Seqs
<1>3. \A q \in Seqs : IsSealed(q) =>
        /\ rows'[q].alg = rows[q].alg /\ rows'[q].chain_index = rows[q].chain_index
        /\ rows'[q].hash = rows[q].hash
        /\ IsSealed(q)'
  BY <1>1 DEF AppendOnlyStep, IsSealed
<1>4. \A i \in 1..head.index : \E q \in Seqs :
        /\ rows[q].chain_index = i /\ rows'[q].chain_index = i
        /\ IsSealed(q) /\ IsSealed(q)' /\ rows'[q].hash = rows[q].hash
  <2> TAKE i \in 1..head.index
  <2>1. PICK q \in Seqs : rows[q].chain_index = i
    BY ChainTyped
  <2>2. IsSealed(q)
    BY <2>1 DEF IsSealed, Unsealed
  <2> QED BY <1>3, <2>1, <2>2
<1>5. SealedLinks'
  <2>1. (IInv => SealedLinks)'
    BY ChainLinks, PTL
  <2> QED BY <2>1
<1>6. head.index <= head'.index
  <2>1. CASE head.index = 0
    BY <1>1, <2>1
  <2>2. CASE head.index # 0
    <3>1. PICK q \in Seqs : rows'[q].chain_index = head.index /\ IsSealed(q)'
      BY <1>1, <1>4, <2>2
    <3>2. head.index \in 1..head'.index
      BY <1>2, <1>5, <3>1 DEF SealedLinks
    <3> QED BY <1>1, <3>2
  <2> QED BY <2>1, <2>2
<1>7. ASSUME NEW q \in Seqs', rows'[q].chain_index \in 1..head.index
      PROVE  q \in Seqs /\ IsSealed(q)
  <2>1. PICK p \in Seqs : /\ rows'[p].chain_index = rows'[q].chain_index
                          /\ IsSealed(p) /\ IsSealed(p)'
    BY <1>4, <1>7
  <2>2. p = q
    BY <1>2, <1>5, <1>7, <2>1 DEF SealedLinks
  <2> QED BY <2>1, <2>2
<1>8. ASSUME NEW n \in 0..head.index PROVE Prefix(head'.hash, n) = Prefix(head.hash, n)
  <2>1. CASE n = 0
    BY <2>1 DEF Prefix
  <2>2. CASE n # 0
    <3>1. PICK q \in Seqs : /\ rows[q].chain_index = n /\ rows'[q].chain_index = n
                            /\ IsSealed(q) /\ IsSealed(q)' /\ rows'[q].hash = rows[q].hash
      BY <1>1, <1>4, <2>2
    <3>2. rows[q].hash = Prefix(head.hash, n)
      BY <3>1, ChainTyped
    <3>3. rows'[q].hash = Prefix(head'.hash, n)
      BY <1>2, <1>5, <3>1 DEF SealedLinks
    <3> QED BY <3>1, <3>2, <3>3
  <2> QED BY <2>1, <2>2
<1> QED BY <1>2, <1>3, <1>6, <1>7, <1>8

LEMMA ServiceKeepsWalk ==
  ASSUME VInv, [Next]_vars, UNCHANGED <<altered, lost, walk>>
  PROVE  VInv'
<1>1. IInv'
  BY NextInvariant DEF VInv
<1>2. /\ head.index <= head'.index
      /\ Seqs \subseteq Seqs'
      /\ \A q \in Seqs : IsSealed(q) =>
           /\ rows'[q].alg = rows[q].alg /\ rows'[q].chain_index = rows[q].chain_index
           /\ IsSealed(q)'
      /\ \A q \in Seqs' : rows'[q].chain_index \in 1..head.index => q \in Seqs /\ IsSealed(q)
      /\ \A n \in 0..head.index : Prefix(head'.hash, n) = Prefix(head.hash, n)
  BY <1>1, SealedStays DEF VInv
<1>3. head.index \in Nat /\ head'.index \in Nat
  BY <1>1 DEF VInv, IInv, TypeOK, ChainHead
<1>4. /\ walk \in WalkType /\ walk.index \in 0..head.index /\ walk.head.index \in 0..head.index
  BY <1>3 DEF VInv, WalkOK, WalkType, ChainHead
<1>5. (altered \cup lost)' \subseteq {q \in Seqs' : IsSealed(q)'}
  BY <1>2 DEF VInv
<1>6. WalkedIsIntact(walk)'
  <2> SUFFICES ASSUME NEW q \in Seqs', rows'[q].chain_index \in 1..walk.index
               PROVE  q \notin walk.damaged /\ (rows'[q].alg = "hmac-sha256" => walk.key)
    BY DEF WalkedIsIntact
  <2>1. rows'[q].chain_index \in 1..head.index
    BY <1>3, <1>4
  <2>2. q \in Seqs /\ IsSealed(q)
    BY <1>2, <2>1
  <2>3. rows'[q].alg = rows[q].alg /\ rows'[q].chain_index = rows[q].chain_index
    BY <1>2, <2>2
  <2> QED BY <2>2, <2>3 DEF VInv, WalkOK, WalkedIsIntact
<1>7. AlarmIsExplained(walk)'
  <2>1. ASSUME NEW i \in 1..head.index, KeyedAt(i)
        PROVE  i \in 1..head'.index /\ KeyedAt(i)'
    <3>1. PICK q \in Seqs : rows[q].chain_index = i /\ rows[q].alg = "hmac-sha256"
      BY <2>1 DEF KeyedAt
    <3>2. IsSealed(q)
      BY <3>1 DEF IsSealed, Unsealed
    <3>3. q \in Seqs' /\ rows'[q].chain_index = i /\ rows'[q].alg = "hmac-sha256"
      BY <1>2, <3>1, <3>2
    <3> QED BY <1>2, <1>3, <3>3 DEF KeyedAt
  <2>2. walk.head.index \in Nat /\ AlarmIsExplained(walk)
    BY <1>4 DEF VInv, WalkOK
  <2> HIDE DEF KeyedAt
  <2> QED BY <1>2, <1>3, <2>1, <2>2 DEF AlarmIsExplained
<1>8. WalkOK(walk)'
  <2>1. /\ walk.index <= head'.index /\ walk.hash = Prefix(head'.hash, walk.index)
        /\ walk.head.index <= head'.index
        /\ walk.head.hash = Prefix(head'.hash, walk.head.index)
    BY <1>2, <1>3, <1>4 DEF VInv, WalkOK
  <2> QED BY <1>4, <1>6, <1>7, <2>1 DEF VInv, WalkOK
<1> QED BY <1>1, <1>5, <1>8 DEF VInv

LEMMA WalkMoves ==
  ASSUME VInv, NEW w, WalkOK(w), walk' = w, UNCHANGED <<vars, storage>>
  PROVE  VInv'
<1>1. IInv'
  BY NextInvariant DEF VInv
<1>2. UNCHANGED <<rows, head, altered, lost>>
  BY DEF vars, storage
<1>3. WalkOK(walk)'
  BY <1>2 DEF WalkOK, WalkedIsIntact, AlarmIsExplained, KeyedAt, Seqs
<1> QED BY <1>1, <1>2, <1>3 DEF VInv, Seqs, IsSealed

LEMMA StartingPoint ==
  ASSUME IInv
  PROVE  /\ Prefix(head.hash, 0) = << >> /\ << >> \in Hash
         /\ head \in ChainHead /\ head.hash = Prefix(head.hash, head.index) /\ head.index \in Nat
         /\ chainKey \in BOOLEAN /\ MaxRows \in Nat \ {0} /\ PageSize \in Nat \ {0}
BY MaxRowsPositive, PageSizePositive, ChainTyped
   DEF Prefix, Hash, IInv, TypeOK, ChainHead

LEMMA IdleWalk == ASSUME IInv PROVE WalkOK(Idle)
<1>1. Idle \in WalkType
  BY StartingPoint DEF Idle, WalkType, NoHead, ChainHead, GenesisHash
<1> QED BY <1>1, StartingPoint
        DEF Idle, NoHead, GenesisHash, WalkOK, WalkedIsIntact, AlarmIsExplained

LEMMA StartKeeps == ASSUME VInv, StartWalk PROVE VInv'
<1> DEFINE w == [Idle EXCEPT !.pc = "page", !.head = head, !.key = chainKey,
                             !.damaged = altered \cup lost]
<1>1. IInv /\ altered \cup lost \subseteq Nat
  BY ChainTyped DEF VInv
<1>2. /\ w.pc = "page" /\ w.ok /\ w.head = head /\ w.key = chainKey /\ w.damaged = altered \cup lost
      /\ w.index = 0 /\ w.checked = 0 /\ w.hash = << >> /\ w \in WalkType
  BY <1>1, StartingPoint DEF Idle, WalkType, GenesisHash
<1> HIDE DEF w
<1>3. WalkOK(w)
  BY <1>1, <1>2, StartingPoint DEF WalkOK, WalkedIsIntact, AlarmIsExplained
<1>4. walk' = w
  BY DEF StartWalk, w
<1> QED BY <1>3, <1>4, WalkMoves DEF StartWalk

\* Damage comes after what was read; what it does to the walk shows later.
LEMMA DamageKeeps ==
  ASSUME VInv, NEW q \in Seqs, AlterRow(q) \/ LoseRow(q)
  PROVE  VInv'
<1>1. /\ IsSealed(q) /\ UNCHANGED <<vars, walk>>
      /\ altered \subseteq altered' /\ lost \subseteq lost'
      /\ (altered \cup lost)' = altered \cup lost \cup {q}
  BY DEF AlterRow, LoseRow, Damage
<1>2. IInv' /\ UNCHANGED <<rows, head>>
  BY <1>1, NextInvariant DEF VInv, vars
<1>3. WalkedIsIntact(walk)' /\ AlarmIsExplained(walk)'
  BY <1>1, <1>2 DEF VInv, WalkOK, WalkedIsIntact, AlarmIsExplained, Seqs
<1>4. WalkOK(walk)'
  BY <1>1, <1>2, <1>3 DEF VInv, WalkOK
<1> QED BY <1>1, <1>2, <1>4 DEF VInv, Seqs, IsSealed

\* A page verified as far as it matches, before the walk draws a conclusion.
LEMMA ReadKeeps == ASSUME VInv, ReadPage PROVE VInv'
<1> DEFINE limit == Smaller(PageSize, MaxRows - walk.checked)
           page  == sealedPage(walk.index, limit)
<1>1. /\ IInv /\ WalkOK(walk) /\ walk \in WalkType /\ walk.pc = "page"
      /\ walk.index \in Nat /\ walk.key \in BOOLEAN /\ walk.head \in ChainHead
      /\ walk.index <= head.index /\ walk.checked = walk.index /\ walk.checked < MaxRows
      /\ walk.ok
      /\ head.index \in Nat /\ MaxRows \in Nat /\ PageSize \in Nat \ {0}
  BY StartingPoint DEF VInv, WalkOK, WalkType, ReadPage
<1>2. limit \in Nat /\ limit <= MaxRows - walk.checked
      /\ (limit = PageSize \/ limit = MaxRows - walk.checked)
  BY <1>1 DEF Smaller
<1> HIDE DEF limit
<1>3. PICK n \in 0..Cardinality(page) :
        /\ MatchingPrefix(page, n, walk.index, walk.hash, walk.key)
        /\ LET w == Verified(page, n)
           IN  walk' = IF n < Cardinality(page) THEN Broken(w)
                       ELSE IF page # {} /\ w.checked >= MaxRows THEN Truncated(w)
                       ELSE IF Cardinality(page) < PageSize THEN CompareWithHead(w)
                       ELSE w
  BY DEF ReadPage, limit
<1> DEFINE w == Verified(page, n)
<1>4. Cardinality(page) \in Nat /\ n \in Nat /\ IsFiniteSet(page)
  <2> HIDE DEF page
  <2>1. page = sealedPage(walk.index, limit)
    BY DEF page
  <2>2. IInv /\ walk.index \in Nat /\ limit \in Nat
    BY <1>1, <1>2
  <2>3. Cardinality(page) \in Nat
    BY <2>1, <2>2, PageRows
  <2>4. IsFiniteSet(page)
    BY <2>1, <2>2, PageRows
  <2> QED BY <1>3, <2>3, <2>4
<1>5. lost = {} => /\ walk.index + Cardinality(page) <= head.index
                   /\ Cardinality(page) < limit => walk.index + Cardinality(page) = head.index
  <2> HIDE DEF page
  <2>1. page = sealedPage(walk.index, limit)
    BY DEF page
  <2>2. IInv /\ walk.index \in Nat /\ walk.index <= head.index /\ limit \in Nat
    BY <1>1, <1>2
  <2> QED BY <2>1, <2>2, IntactPage
<1>6. /\ walk.index + n <= head.index /\ n <= limit
      /\ CarriedHash(page, n + 1, walk.hash) = Prefix(head.hash, walk.index + n)
      /\ \A q \in Stretch(walk.index, walk.index + n) :
           q \notin altered \cup lost /\ (rows[q].alg = "hmac-sha256" => walk.key)
  <2>1. \A i \in 1..n : RowMatches(page, i, walk.index, walk.hash, walk.key)
    BY <1>3 DEF MatchingPrefix
  <2>2. walk.hash = Prefix(head.hash, walk.index)
    BY <1>1 DEF WalkOK
  <2> HIDE DEF page
  <2>3. page = sealedPage(walk.index, limit)
    BY DEF page
  <2> QED BY <1>1, <1>2, <1>4, <2>1, <2>2, <2>3, MatchedRows
<1>7. /\ w \in WalkType /\ w.index = walk.index + n /\ w.checked = walk.index + n
      /\ w.hash = Prefix(head.hash, walk.index + n)
      /\ w.pc = "page" /\ w.ok /\ w.head = walk.head /\ w.key = walk.key /\ w.damaged = walk.damaged
  <2>1. Prefix(head.hash, walk.index + n) \in Hash
    BY <1>1, <1>4, <1>6, PrefixTyped
  <2>2. walk.index + n \in Nat /\ walk.checked + n = walk.index + n
    BY <1>1, <1>4
  <2>3. w = [walk EXCEPT !.checked = walk.index + n, !.index = walk.index + n,
                         !.hash = Prefix(head.hash, walk.index + n)]
    BY <1>6, <2>2 DEF Verified
  <2> HIDE DEF w
  <2> QED BY <1>1, <2>1, <2>2, <2>3 DEF WalkType
<1>8. WalkedIsIntact(w)
  <2> SUFFICES ASSUME NEW q \in Seqs, rows[q].chain_index \in 1..w.index
               PROVE  q \notin w.damaged /\ (rows[q].alg = "hmac-sha256" => w.key)
    BY DEF WalkedIsIntact
  <2> HIDE DEF w
  <2>1. CASE rows[q].chain_index \in 1..walk.index
    BY <1>1, <1>7, <2>1 DEF WalkOK, WalkedIsIntact
  <2>2. CASE rows[q].chain_index \notin 1..walk.index
    <3>1. q \in Stretch(walk.index, walk.index + n)
      BY <1>1, <1>4, <1>7, <2>2 DEF Stretch
    <3> QED BY <1>1, <1>6, <1>7, <3>1 DEF WalkOK
  <2> QED BY <2>1, <2>2
<1>9. w.checked <= MaxRows
  BY <1>1, <1>2, <1>4, <1>6, <1>7
<1>10. /\ walk.damaged \subseteq altered \cup lost
      /\ walk.head.index <= head.index /\ walk.head.hash = Prefix(head.hash, walk.head.index)
      /\ walk.head.index \in Nat
  BY <1>1 DEF WalkOK, ChainHead
<1>11. UNCHANGED <<vars, storage>>
  BY DEF ReadPage
<1> HIDE DEF w
<1>12. CASE n < Cardinality(page)
  <2> DEFINE b == Broken(w)
  <2>1. walk' = b
    BY <1>3, <1>12 DEF w
  <2>2. /\ b \in WalkType /\ b.pc = "done" /\ b.ok = FALSE /\ b.brokenAt = walk.index + n + 1
        /\ b.index = w.index /\ b.checked = w.checked /\ b.hash = w.hash
        /\ b.head = w.head /\ b.key = w.key /\ b.damaged = w.damaged
    <3>1. walk.index + n + 1 \in Nat
      BY <1>1, <1>4
    <3> QED BY <1>7, <3>1 DEF Broken, WalkType
  <2>3. altered \cup lost = {} =>
          walk.index + n + 1 \in 1..head.index /\ KeyedAt(walk.index + n + 1) /\ ~walk.key
    <3>1. walk.hash = Prefix(head.hash, walk.index)
      BY <1>1 DEF WalkOK
    <3> HIDE DEF page
    <3>2. page = sealedPage(walk.index, limit)
      BY DEF page
    <3> QED BY <1>1, <1>2, <1>3, <1>4, <1>12, <3>1, <3>2, MismatchIsKeyed
  <2> HIDE DEF b
  <2>4. WalkedIsIntact(b) /\ AlarmIsExplained(b)
    BY <1>7, <1>8, <2>2, <2>3 DEF WalkedIsIntact, AlarmIsExplained
  <2>5. WalkOK(b)
    BY <1>6, <1>7, <1>9, <1>10, <2>2, <2>4 DEF WalkOK
  <2> QED BY <1>11, <2>1, <2>5, WalkMoves
<1>13. CASE n = Cardinality(page) /\ page # {} /\ w.checked >= MaxRows
  <2> DEFINE t == Truncated(w)
  <2>1. walk' = t
    BY <1>3, <1>4, <1>13 DEF w
  <2>2. /\ t \in WalkType /\ t.pc = "done" /\ t.truncated = TRUE /\ t.ok
        /\ t.index = w.index /\ t.checked = w.checked /\ t.hash = w.hash
        /\ t.head = w.head /\ t.key = w.key /\ t.damaged = w.damaged
    BY <1>7 DEF Truncated, WalkType
  <2> HIDE DEF t
  <2>4. WalkedIsIntact(t) /\ AlarmIsExplained(t)
    BY <1>7, <1>8, <2>2 DEF WalkedIsIntact, AlarmIsExplained
  <2>5. WalkOK(t)
    BY <1>6, <1>7, <1>9, <1>10, <2>2, <2>4 DEF WalkOK
  <2> QED BY <1>11, <2>1, <2>5, WalkMoves
<1>14. CASE /\ n = Cardinality(page) /\ ~(page # {} /\ w.checked >= MaxRows)
            /\ Cardinality(page) < PageSize
  <2> DEFINE c == CompareWithHead(w)
             same == w.checked = w.head.index /\ w.hash = w.head.hash
  <2>1. walk' = c
    BY <1>3, <1>4, <1>14 DEF w
  <2>2. /\ c \in WalkType /\ c.pc = "done" /\ c.ok = same
        /\ ~same => c.brokenAt = Smaller(w.checked, w.head.index) + 1
        /\ c.index = w.index /\ c.checked = w.checked /\ c.hash = w.hash
        /\ c.head = w.head /\ c.key = w.key /\ c.damaged = w.damaged
    <3>1. Smaller(w.checked, w.head.index) + 1 \in Nat
      BY <1>4, <1>7, <1>10, <1>1 DEF Smaller
    <3> QED BY <1>7, <3>1 DEF CompareWithHead, WalkType
  <2>3. ASSUME altered \cup lost = {}, ~same
        PROVE  c.brokenAt = w.head.index + 1 /\ head.index > w.head.index
    <3>1. lost = {}
      BY <2>3
    <3>2. /\ walk.index + Cardinality(page) <= head.index
          /\ Cardinality(page) < limit => walk.index + Cardinality(page) = head.index
      BY <1>5, <3>1
    <3>3. w.checked = head.index
      <4>1. Cardinality(page) < limit
        <5>1. CASE page = {}
          BY <1>1, <1>2, <3>2, <5>1, FS_EmptySet
        <5>2. CASE page # {}
          BY <1>1, <1>2, <1>4, <1>7, <1>14, <3>2, <5>2
        <5> QED BY <5>1, <5>2
      <4> QED BY <1>7, <1>14, <3>2, <4>1
    <3>4. w.checked # w.head.index
      BY <1>7, <1>10, <2>3
    <3>5. head.index > w.head.index
      BY <1>1, <1>7, <1>10, <3>3, <3>4
    <3> QED BY <1>1, <1>7, <1>10, <2>2, <2>3, <3>3, <3>5 DEF Smaller
  <2>4. c.ok => c.index = c.head.index
    BY <1>7, <2>2
  <2>5. ~c.ok => ~same
    BY <2>2
  <2> HIDE DEF c, same
  <2>6. WalkedIsIntact(c) /\ AlarmIsExplained(c)
    BY <1>7, <1>8, <2>2, <2>3, <2>5 DEF WalkedIsIntact, AlarmIsExplained
  <2>7. WalkOK(c)
    BY <1>6, <1>7, <1>9, <1>10, <2>2, <2>4, <2>6 DEF WalkOK
  <2> QED BY <1>11, <2>1, <2>7, WalkMoves
<1>15. CASE /\ n = Cardinality(page) /\ ~(page # {} /\ w.checked >= MaxRows)
            /\ ~(Cardinality(page) < PageSize)
  <2>1. walk' = w
    BY <1>3, <1>4, <1>15 DEF w
  <2>2. page # {}
    BY <1>1, <1>15, FS_EmptySet
  <2>3. w.checked < MaxRows
    BY <1>1, <1>4, <1>7, <1>15, <2>2
  <2>4. WalkOK(w)
    BY <1>6, <1>7, <1>8, <1>9, <1>10, <2>3 DEF WalkOK, AlarmIsExplained
  <2> QED BY <1>11, <2>1, <2>4, WalkMoves
<1>16. n < Cardinality(page) \/ n = Cardinality(page)
  BY <1>3, <1>4
<1> QED BY <1>12, <1>13, <1>14, <1>15, <1>16

LEMMA VerifyKeeps == VInv /\ [VNext]_allVars => VInv'
<1> SUFFICES ASSUME VInv, [VNext]_allVars PROVE VInv'
  OBVIOUS
<1>1. CASE Next /\ UNCHANGED <<storage, walk>>
  BY <1>1, ServiceKeepsWalk DEF storage
<1>2. CASE StartWalk
  BY <1>2, StartKeeps
<1>3. CASE ReadPage
  BY <1>3, ReadKeeps
<1>4. CASE EndWalk
  BY <1>4, IdleWalk, WalkMoves DEF EndWalk, VInv
<1>5. CASE \E q \in Seqs : AlterRow(q) \/ LoseRow(q)
  BY <1>5, DamageKeeps
<1>6. CASE UNCHANGED allVars
  BY <1>6, ServiceKeepsWalk DEF allVars, storage
<1> QED BY <1>1, <1>2, <1>3, <1>4, <1>5, <1>6 DEF VNext

\* The inductive invariant: beside an unbroken chain a walk stands at one of its
\* links, and all rows up to there were intact when they were read.
THEOREM VerifyInvariant == VSpec => []VInv
<1>1. VInit => VInv
  BY InitInvariant, IdleWalk DEF VInit, VInv
<1> QED BY <1>1, VerifyKeeps, PTL DEF VSpec

\* VTypeOK: every reachable state of the walk is typed and within the ceiling.
THEOREM VerifyTyped == VSpec => []VTypeOK
<1>1. VInv => VTypeOK
  <2> SUFFICES ASSUME VInv PROVE VTypeOK
    OBVIOUS
  <2>1. altered \subseteq Seqs /\ lost \subseteq Seqs
    BY DEF VInv
  <2>2. Len(walk.hash) = walk.index
    BY PrefixTyped, ChainTyped DEF VInv, WalkOK, WalkType
  <2> QED BY <2>1, <2>2 DEF VInv, IInv, VTypeOK, WalkOK, WalkType
<1> QED BY <1>1, VerifyInvariant, PTL

\* OkMeansIntact: a walk that answers `ok` vouches for intact rows only, however
\* many deliveries, seals and key changes went on between its pages.
THEOREM OkIsIntact == VSpec => []OkMeansIntact
<1>1. VInv => OkMeansIntact
  <2> SUFFICES ASSUME VInv, walk.pc = "done", walk.ok,
                      NEW q \in Seqs, rows[q].chain_index \in 1..Vouched
               PROVE  q \notin walk.damaged /\ (rows[q].alg = "hmac-sha256" => walk.key)
    BY DEF OkMeansIntact
  <2>1. Vouched = walk.index /\ walk.index \in Nat
    BY DEF VInv, WalkOK, WalkType, Vouched
  <2> QED BY <2>1 DEF VInv, WalkOK, WalkedIsIntact
<1> QED BY <1>1, VerifyInvariant, PTL

\* AlarmExplained: over untouched storage an alarm is a head that was sealed
\* further meanwhile, or a keyed row that the caller has no key for.
THEOREM AlarmHasCause == VSpec => []AlarmExplained
<1>1. VInv => AlarmExplained
  BY DEF VInv, WalkOK, AlarmIsExplained, KeyedAt, AlarmExplained
<1> QED BY <1>1, VerifyInvariant, PTL
=============================================================================
