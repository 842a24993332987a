---------------------------- MODULE AuditVerify -----------------------------
(***************************************************************************)
(* verifyChain(): the walk over the sealed chain, one page per query, while *)
(* deliveries and sealers keep running.  The storage may also lose or alter *)
(* a sealed row behind the service's back (Corrupt...), which is what the   *)
(* walk is there to notice.                                                 *)
(***************************************************************************)
EXTENDS AuditChain

CONSTANTS
  PageSize,        \* AUDIT_VERIFY_PAGE
  MaxRows,         \* AUDIT_VERIFY_MAX_ROWS
  MaxCorruptions   \* bound: rows altered or lost

ASSUME PageSizePositive == PageSize \in Nat \ {0}
ASSUME MaxRowsPositive == MaxRows \in Nat \ {0}

VARIABLES
  altered,   \* rows whose content no longer is what was hashed
  lost,      \* rows that are gone
  walk       \* the verification: what it has read and what it answered

storage == <<altered, lost>>
allVars == <<vars, storage, walk>>

Idle == [pc |-> "idle", head |-> NoHead, key |-> FALSE, index |-> 0,
         hash |-> GenesisHash, checked |-> 0, ok |-> TRUE, truncated |-> FALSE,
         brokenAt |-> 0, damaged |-> {}]

VInit == Init /\ altered = {} /\ lost = {} /\ walk = Idle

Smaller(a, b) == IF a < b THEN a ELSE b

\* Fault: every row recomputed under the key configured now, not under the
\* algorithm the row records.
RecomputedOneKey(q, key) ==
  IF q \in altered THEN << >> ELSE linkHash(rows[q].prev_hash, rows[q], algFor(key))

\* A stored row as the walk sees it: an altered one hashes to something else.
Recomputed(q, key) ==
  IF q \in altered
  THEN << >>
  ELSE linkHash(rows[q].prev_hash, rows[q],
                IF rows[q].alg = "sha256" THEN "sha256" ELSE algFor(key))

\* Where a row stands in a set of rows, in chain order.
Position(page, q) == Cardinality({p \in page : rows[p].chain_index <= rows[q].chain_index})

\* sealedPage: the rows behind `after`, the first `limit` of them in chain order.
sealedPage(after, limit) ==
  LET found == {q \in Seqs \ lost : rows[q].chain_index > after}
  IN  {q \in found : Position(found, q) <= limit}

\* The hash carried to the i-th row of a page.
CarriedHash(page, i, hash) ==
  IF i = 1 THEN hash
           ELSE LET previous == CHOOSE p \in page : Position(page, p) = i - 1
                IN  rows[previous].hash

\* Fault: only the link to the predecessor is looked at, not the row's own hash.
RowMatchesNoHash(page, i, index, hash, key) ==
  \E q \in page : /\ Position(page, q) = i
                  /\ rows[q].chain_index = index + i
                  /\ rows[q].prev_hash = CarriedHash(page, i, hash)

\* The i-th row of a page is the link that is expected there.
RowMatches(page, i, index, hash, key) ==
  \E q \in page : /\ Position(page, q) = i
                  /\ rows[q].chain_index = index + i
                  /\ rows[q].prev_hash = CarriedHash(page, i, hash)
                  /\ rows[q].hash = Recomputed(q, key)

\* verifyPage: n rows stand before the first one that does not match.
MatchingPrefix(page, n, index, hash, key) ==
  /\ \A i \in 1..n : RowMatches(page, i, index, hash, key)
  /\ n < Cardinality(page) => ~RowMatches(page, n + 1, index, hash, key)

-----------------------------------------------------------------------------
(* The walk *)

\* Fault: the walk starts from the head's hash.
StartWalkFromHead ==
  /\ walk.pc = "idle"
  /\ walk' = [Idle EXCEPT !.pc = "page", !.head = head, !.key = chainKey,
                          !.hash = head.hash, !.damaged = altered \cup lost]
  /\ UNCHANGED <<vars, storage>>

StartWalk ==
  /\ walk.pc = "idle"
  /\ walk' = [Idle EXCEPT !.pc = "page", !.head = head, !.key = chainKey,
                          !.damaged = altered \cup lost]
  /\ UNCHANGED <<vars, storage>>

\* The row ceiling: the prefix that was walked is vouched for, no more.
Truncated(w) == [w EXCEPT !.pc = "done", !.truncated = TRUE]

\* The end of the rows: they must amount to the head that was read.
CompareWithHead(w) ==
  LET ok == w.checked = w.head.index /\ w.hash = w.head.hash
  IN  [w EXCEPT !.pc = "done", !.ok = ok,
                !.brokenAt = IF ok THEN 0 ELSE Smaller(w.checked, w.head.index) + 1]

Broken(w) == [w EXCEPT !.pc = "done", !.ok = FALSE, !.brokenAt = w.index + 1]

\* What is read and verified of a page of which n rows match.
Verified(page, n) ==
  [walk EXCEPT !.checked = @ + n, !.index = @ + n, !.hash = CarriedHash(page, n + 1, @)]

ReadPage ==
  /\ walk.pc = "page"
  /\ LET page == sealedPage(walk.index, Smaller(PageSize, MaxRows - walk.checked))
     IN  \E n \in 0..Cardinality(page) :
           /\ MatchingPrefix(page, n, walk.index, walk.hash, walk.key)
           /\ LET w == Verified(page, n)
              IN  walk' = IF n < Cardinality(page) THEN Broken(w)
                          ELSE IF page # {} /\ w.checked >= MaxRows THEN Truncated(w)
                          ELSE IF Cardinality(page) < PageSize THEN CompareWithHead(w)
                          ELSE w
  /\ UNCHANGED <<vars, storage>>

\* The answer is returned.
EndWalk ==
  /\ walk.pc = "done"
  /\ walk' = Idle
  /\ UNCHANGED <<vars, storage>>

-----------------------------------------------------------------------------
(* The storage, outside the service's control *)

Damage(q) ==
  /\ IsSealed(q)
  /\ q \notin altered \cup lost
  /\ Cardinality(altered) + Cardinality(lost) < MaxCorruptions

AlterRow(q) ==
  /\ Damage(q)
  /\ altered' = altered \cup {q}
  /\ UNCHANGED <<vars, lost, walk>>

LoseRow(q) ==
  /\ Damage(q)
  /\ lost' = lost \cup {q}
  /\ UNCHANGED <<vars, altered, walk>>

VNext ==
  \/ Next /\ UNCHANGED <<storage, walk>>
  \/ StartWalk \/ ReadPage \/ EndWalk
  \/ \E q \in Seqs : AlterRow(q) \/ LoseRow(q)

VSpec == VInit /\ [][VNext]_allVars

-----------------------------------------------------------------------------
(* Properties *)

VTypeOK ==
  /\ TypeOK
  /\ altered \subseteq Seqs /\ lost \subseteq Seqs
  /\ walk.pc \in {"idle", "page", "done"}
  /\ walk.checked = walk.index /\ walk.checked <= MaxRows
  /\ Len(walk.hash) = walk.index

\* The rows a finished walk vouches for: all that the head counted, or the
\* prefix it reached before the row ceiling.
Vouched == IF walk.truncated THEN walk.checked ELSE walk.head.index

\* A walk that answers `ok` has seen every row it vouches for intact: none of
\* them was altered or lost when it began, and none carries a keyed hash that
\* this caller, without the key, could not have recomputed.
OkMeansIntact ==
  walk.pc = "done" /\ walk.ok =>
    \A q \in Seqs : rows[q].chain_index \in 1..Vouched =>
      /\ q \notin walk.damaged
      /\ rows[q].alg = "hmac-sha256" => walk.key

\* What a walk may report over untouched storage (deliveries and seals keep
\* running): a break only directly behind the head it read, when a seal has
\* moved the head meanwhile, or at a keyed row when this caller has no key.
\* A key added (or removed) later never invalidates the rows before it.
AlarmExplained ==
  walk.pc = "done" /\ ~walk.ok /\ altered \cup lost = {} =>
    \/ walk.brokenAt = walk.head.index + 1 /\ head.index > walk.head.index
    \/ /\ ~walk.key
       /\ \E q \in Seqs : rows[q].chain_index = walk.brokenAt /\ rows[q].alg = "hmac-sha256"

\* "a head that disagrees with the rows it summarises is exactly what tampering
\* looks like", "either a link was removed ... or the head was rewritten"
\* (seal.ts): with the storage untouched and the key left alone the walk
\* answers ok.
OnlyTamperingAlarms ==
  walk.pc = "done" /\ altered \cup lost = {} /\ keyChanges = 0 => walk.ok
=============================================================================
