--------------------------- MODULE ServiceProofs ---------------------------
(***************************************************************************)
(* Governance, disputes and the configuration, for any constants of        *)
(* MCServices: for each of the three the inductive invariant behind what   *)
(* its run checks, a lemma for each action, and the theorems.              *)
(*                                                                         *)
(* Governance is proved of GovernanceVoting's own Spec, which the services *)
(* together implement: votes are counted once, executions are of passed    *)
(* proposals, and a proposal that is over changes status only by a stale   *)
(* copy; with CountStrong beside Inv, the counts are exact until then.     *)
(***************************************************************************)
EXTENDS MCServices, FiniteSetTheorems, TLAPS

-----------------------------------------------------------------------------
(* Governance.                                                             *)

\* The columns of a row.
LEMMA Columns == DOMAIN New = {"status", "total", "yes", "no"} /\ New \in Rows
BY DEF New, Rows, Statuses

\* The number of votes, and of those on each side, is a natural number.
LEMMA VotesCounted ==
  ASSUME IsFiniteSet(votes)
  PROVE  /\ IsFiniteSet(Ayes(votes)) /\ IsFiniteSet(Noes(votes))
         /\ Cardinality(votes) \in Nat /\ Cardinality(Ayes(votes)) \in Nat /\ Cardinality(Noes(votes)) \in Nat
<1>1. Ayes(votes) \in SUBSET votes /\ Noes(votes) \in SUBSET votes
  BY DEF Ayes, Noes
<1> QED
  BY <1>1, FS_Subset, FS_CardinalityType

\* A vote more raises the number of votes, and that of its side.
LEMMA OneVoteMore ==
  ASSUME IsFiniteSet(votes), NEW w, w \notin votes, w.support \in BOOLEAN, votes' = votes \union {w}
  PROVE  /\ IsFiniteSet(votes')
         /\ Cardinality(votes') = Cardinality(votes) + 1
         /\ Cardinality(Ayes(votes')) = IF w.support THEN Cardinality(Ayes(votes)) + 1 ELSE Cardinality(Ayes(votes))
         /\ Cardinality(Noes(votes')) = IF w.support THEN Cardinality(Noes(votes)) ELSE Cardinality(Noes(votes)) + 1
<1>1. w \notin Ayes(votes) /\ w \notin Noes(votes)
  BY DEF Ayes, Noes
<1>2. CASE w.support
  <2>1. Ayes(votes') = Ayes(votes) \union {w} /\ Noes(votes') = Noes(votes)
    BY <1>2 DEF Ayes, Noes
  <2> QED
    BY <1>1, <1>2, <2>1, VotesCounted, FS_AddElement
<1>3. CASE ~w.support
  <2>1. Ayes(votes') = Ayes(votes) /\ Noes(votes') = Noes(votes) \union {w}
    BY <1>3 DEF Ayes, Noes
  <2> QED
    BY <1>1, <1>3, <2>1, VotesCounted, FS_AddElement
<1> QED
  BY <1>2, <1>3

\* The facts every step proof starts from.
LEMMA Facts ==
  ASSUME Inv, NEW c \in Calls
  PROVE  /\ call[c].kind \in Kinds /\ call[c].support \in BOOLEAN /\ call[c].pc \in Stages
         /\ call[c].voter \in Voters \union {None}
         /\ call[c].base \in Rows /\ call[c].copy \in Rows /\ call[c].changes \in SUBSET DOMAIN New
         /\ Counts(call[c].copy) /\ Passed(call[c].copy)
BY DEF Inv, TypeOK, CopiesHold

Types == [kind : Kinds, voter : Voters \union {None}, support : BOOLEAN, pc : Stages,
          base : Rows, copy : Rows, changes : SUBSET DOMAIN New]

\* What a call must be for Inv to hold of it.
Sound(k) ==
  /\ k \in Types
  /\ k.kind = "vote" => k.voter \in Voters
  /\ k.pc \in {"check", "insert"} => k.kind = "vote"
  /\ Counts(k.copy) /\ Passed(k.copy)
  /\ k.pc \in {"check", "insert", "compare", "update"} => k.base.status \notin Terminal

\* A call that is idle or over is sound.
LEMMA DoneIsSound ==
  ASSUME IsFiniteSet(votes), NEW pc \in {"idle", "done", "invalidate"}
  PROVE  Sound([Idle EXCEPT !.pc = pc])
<1>1. New.status = "PENDING" /\ New.total = 0 /\ New.yes = 0 /\ New.no = 0
  BY DEF New
<1>2. Counts(New) /\ Passed(New)
  <2>1. 0 <= Cardinality(votes) /\ 0 <= Cardinality(Ayes(votes)) /\ 0 <= Cardinality(Noes(votes))
    BY VotesCounted
  <2>2. Counts(New)
    BY <1>1, <2>1 DEF Counts
  <2>3. Passed(New)
    BY <1>1 DEF Passed
  <2> QED
    BY <2>2, <2>3
<1>3. Idle \in Types /\ Idle.kind = "none" /\ Idle.copy = New
  BY Columns DEF Idle, Types, Kinds, Stages
<1>4. [Idle EXCEPT !.pc = pc] \in Types
  BY <1>3 DEF Types, Stages
<1> QED
  BY <1>2, <1>3, <1>4 DEF Sound, Types

\* A call whose copy and row allow it to go on is sound.
LEMMA WithCopyIsSound ==
  ASSUME IsFiniteSet(votes), NEW k \in Types, k.kind = "vote" => k.voter \in Voters,
         NEW p \in Rows, Counts(p), Passed(p)
  PROVE  Sound(WithCopy(k, p))
<1>1. CASE ~MayProceed(k.kind, p)
  BY <1>1, DoneIsSound DEF WithCopy, Done
<1>2. CASE MayProceed(k.kind, p)
  <2>1. p.status \notin Terminal
    BY <1>2 DEF MayProceed, MayCancel, MayExecute, Terminal
  <2>2. CASE k.kind = "vote"
    BY <1>2, <2>1, <2>2 DEF WithCopy, Sound, Types, Stages
  <2>3. CASE k.kind # "vote"
    <3> DEFINE q == [p EXCEPT !.status = Written(k.kind)]
    <3>1. k.kind \in {"activate", "execute", "cancel"}
      BY <1>2, <2>3 DEF MayProceed
    <3>2. /\ q \in Rows /\ Counts(q)
          /\ q.status = "EXECUTED" => p.status = "PASSED"
          /\ q.status # "PASSED"
      BY <1>2, <3>1 DEF Written, Rows, Statuses, Counts, MayProceed, MayExecute
    <3>3. Passed(q)
      BY <3>2 DEF Passed
    <3>4. WithCopy(k, p) = [k EXCEPT !.base = p, !.copy = q, !.pc = "compare"]
      BY <1>2, <2>3 DEF WithCopy
    <3> QED
      BY <2>1, <2>3, <3>2, <3>3, <3>4 DEF Sound, Types, Stages
  <2> QED
    BY <2>2, <2>3
<1> QED
  BY <1>1, <1>2

\* A step that leaves votes and outcomes alone and replaces one call, and perhaps
\* the row or the cached copy, by sound ones keeps Inv.
LEMMA StepKeepsInv ==
  ASSUME Inv, NEW c \in Calls, NEW k, Sound(k), To(c, k), UNCHANGED <<votes, outcomes>>,
         row' \in Rows, Counts(row'), Passed(row'),
         cache' \in Rows \union {None}, cache' # None => Counts(cache') /\ Passed(cache')
  PROVE  Inv'
<1>1. \A d \in Calls : call'[d] = IF d = c THEN k ELSE call[d]
  BY DEF To, Inv, TypeOK
<1>2. call' \in [Calls -> Types]
  BY DEF To, Inv, TypeOK, Sound, Types
<1>3. TypeOK'
  BY <1>1, <1>2 DEF Inv, TypeOK, Sound, Types
<1>4. OneVotePerVoter'
  BY DEF Inv, OneVotePerVoter
<1>5. CopiesHold'
  BY <1>1 DEF Inv, CopiesHold, Sound, Counts, Passed
<1>6. WritersReadOpen'
  BY <1>1 DEF Inv, WritersReadOpen, Sound
<1> QED
  BY <1>3, <1>4, <1>5, <1>6 DEF Inv

\* Initially there are no votes and no counts.
LEMMA InitInv == Init => Inv
<1> SUFFICES ASSUME Init PROVE Inv
  OBVIOUS
<1>1. IsFiniteSet(votes) /\ votes = {}
  BY FS_EmptySet DEF Init
<1>2. Sound([Idle EXCEPT !.pc = "idle"])
  BY <1>1, DoneIsSound
<1>3. Idle.pc = "idle" /\ [Idle EXCEPT !.pc = "idle"].copy = Idle.copy
  BY DEF Idle
<1>4. Sound(Idle)
  <2>1. Idle \in Types /\ Idle.kind = "none" /\ Idle.pc = "idle"
    BY Columns DEF Idle, Types, Kinds, Stages
  <2> QED
    BY <1>2, <1>3, <2>1 DEF Sound
<1>5. Idle.copy = New /\ row = New /\ cache = None
  BY DEF Idle, Init
<1>6. \A c \in Calls : call[c] = Idle
  BY DEF Init
<1>7. call \in [Calls -> Types]
  BY <1>4 DEF Init, Sound
<1>8. TypeOK
  BY <1>1, <1>4, <1>5, <1>6, <1>7, Columns DEF TypeOK, Types, Sound
<1>9. OneVotePerVoter /\ WritersReadOpen
  BY <1>1, <1>4, <1>6 DEF OneVotePerVoter, WritersReadOpen, Sound
<1>10. CopiesHold
  <2>1. Counts(New) /\ Passed(New)
    BY <1>4, <1>5 DEF Sound
  <2> QED
    BY <2>1, <1>5, <1>6 DEF CopiesHold
<1> QED
  BY <1>8, <1>9, <1>10 DEF Inv

\* The row and the cached copy satisfy what StepKeepsInv asks of their successors.
LEMMA Untouched ==
  ASSUME Inv
  PROVE  /\ row \in Rows /\ Counts(row) /\ Passed(row) /\ IsFiniteSet(votes)
         /\ cache \in Rows \union {None} /\ (cache # None => Counts(cache) /\ Passed(cache))
BY DEF Inv, TypeOK, CopiesHold

LEMMA CallIsSound ==
  ASSUME Inv, NEW c \in Calls
  PROVE  Sound(call[c])
BY Facts DEF Inv, TypeOK, WritersReadOpen, Sound, Types

\* A call that only moves on, to a step that asks nothing new of it.
LEMMA MoveKeepsInv ==
  ASSUME Inv, NEW c \in Calls, NEW pc \in Stages, pc \notin {"check", "insert", "compare", "update"},
         At(c, pc), UNCHANGED <<row, votes, outcomes>>,
         cache' \in Rows \union {None}, cache' # None => Counts(cache') /\ Passed(cache')
  PROVE  Inv'
<1>1. Sound([call[c] EXCEPT !.pc = pc])
  BY CallIsSound DEF Sound, Types
<1>2. To(c, [call[c] EXCEPT !.pc = pc])
  BY DEF At
<1>3. row' \in Rows /\ Counts(row') /\ Passed(row')
  BY Untouched
<1> QED
  BY <1>1, <1>2, <1>3, StepKeepsInv

\* A call that ends.
LEMMA EndKeepsInv ==
  ASSUME Inv, NEW c \in Calls, NEW pc \in {"done", "invalidate"},
         To(c, [Idle EXCEPT !.pc = pc]), UNCHANGED <<votes, outcomes>>,
         row' \in Rows, Counts(row'), Passed(row'),
         cache' \in Rows \union {None}, cache' # None => Counts(cache') /\ Passed(cache')
  PROVE  Inv'
<1>1. Sound([Idle EXCEPT !.pc = pc])
  BY DoneIsSound, Untouched
<1> QED
  BY <1>1, StepKeepsInv

LEMMA StartInv ==
  ASSUME Inv, NEW c \in Calls, NEW kind \in Kinds, NEW v \in Voters \union {None}, NEW s \in BOOLEAN,
         kind = "vote" => v \in Voters, Start(c, kind, v, s)
  PROVE  Inv'
<1> DEFINE k == [Idle EXCEPT !.kind = kind, !.voter = v, !.support = s, !.pc = "cache"]
<1>1. Sound([Idle EXCEPT !.pc = "idle"])
  BY DoneIsSound, Untouched
<1>2. Idle \in Types /\ Idle.copy = New /\ Counts(New) /\ Passed(New)
  BY <1>1 DEF Sound, Idle, Types
<1>3. Sound(k)
  BY <1>2 DEF Sound, Types, Stages
<1>4. To(c, k) /\ UNCHANGED <<row, votes, cache, outcomes>>
  BY DEF Start, history
<1> HIDE DEF k
<1> QED
  BY <1>3, <1>4, Untouched, StepKeepsInv

LEMMA BeginInv ==
  ASSUME Inv, NEW c \in Calls, Begin(c)
  PROVE  Inv'
<1>1. CASE \E kind \in {"find", "activate", "execute", "cancel"} : Start(c, kind, None, FALSE)
  BY <1>1, StartInv DEF Kinds
<1>2. CASE \E v \in Voters, s \in BOOLEAN : Start(c, "vote", v, s)
  BY <1>2, StartInv DEF Kinds
<1> QED
  BY <1>1, <1>2 DEF Begin

LEMMA ReadCacheInv ==
  ASSUME Inv, NEW c \in Calls, ReadCache(c)
  PROVE  Inv'
<1>1. UNCHANGED <<row, votes, cache, outcomes>>
  BY DEF ReadCache, history
<1>2. CASE cache # None /\ To(c, WithCopy(call[c], cache))
  <2>1. Sound(WithCopy(call[c], cache))
    BY <1>2, Untouched, CallIsSound, WithCopyIsSound DEF Sound
  <2> QED
    BY <1>1, <1>2, <2>1, Untouched, StepKeepsInv
<1>3. CASE At(c, "load")
  BY <1>1, <1>3, Untouched, MoveKeepsInv DEF Stages
<1> QED
  BY <1>2, <1>3 DEF ReadCache

LEMMA LoadRowInv ==
  ASSUME Inv, NEW c \in Calls, LoadRow(c)
  PROVE  Inv'
<1> DEFINE k == [call[c] EXCEPT !.copy = row, !.pc = "fill"]
<1>1. UNCHANGED <<row, votes, cache, outcomes>> /\ To(c, k)
  BY DEF LoadRow, history
<1>2. Sound(k)
  BY Untouched, CallIsSound DEF Sound, Types, Stages
<1> HIDE DEF k
<1> QED
  BY <1>1, <1>2, Untouched, StepKeepsInv

LEMMA FillCacheInv ==
  ASSUME Inv, NEW c \in Calls, FillCache(c)
  PROVE  Inv'
<1>1. UNCHANGED <<row, votes, outcomes>> /\ To(c, WithCopy(call[c], call[c].copy))
  BY DEF FillCache, history
<1>2. call[c].copy \in Rows /\ Counts(call[c].copy) /\ Passed(call[c].copy)
  BY Facts
<1>3. Sound(WithCopy(call[c], call[c].copy))
  BY <1>2, Untouched, CallIsSound, WithCopyIsSound DEF Sound
<1>4. cache' \in Rows \union {None} /\ (cache' # None => Counts(cache') /\ Passed(cache'))
  BY <1>2, Untouched DEF FillCache
<1> QED
  BY <1>1, <1>3, <1>4, Untouched, StepKeepsInv

LEMMA CheckVoteInv ==
  ASSUME Inv, NEW c \in Calls, CheckVote(c)
  PROVE  Inv'
<1>1. UNCHANGED <<row, votes, cache, outcomes>>
  BY DEF CheckVote, history
<1>2. CASE To(c, Done)
  BY <1>1, <1>2, Untouched, EndKeepsInv DEF Done
<1>3. CASE At(c, "insert")
  <2>1. Sound([call[c] EXCEPT !.pc = "insert"])
    BY CallIsSound DEF CheckVote, Sound, Types, Stages
  <2> QED
    BY <1>1, <1>3, <2>1, Untouched, StepKeepsInv DEF At
<1> QED
  BY <1>2, <1>3 DEF CheckVote

\* What counting a vote does to a copy, in each of its columns.
LEMMA CountedUp ==
  ASSUME NEW p \in Rows
  PROVE  /\ LET q == [p EXCEPT !.total = @ + 1, !.yes = @ + 1]
            IN q \in Rows /\ q.status = p.status /\ q.total = p.total + 1 /\ q.yes = p.yes + 1 /\ q.no = p.no
         /\ LET q == [p EXCEPT !.total = @ + 1, !.no = @ + 1]
            IN q \in Rows /\ q.status = p.status /\ q.total = p.total + 1 /\ q.yes = p.yes /\ q.no = p.no + 1
<1>1. p \in [status : Statuses, total : Nat, yes : Nat, no : Nat]
  BY DEF Rows
<1>2. \A n \in Nat : n + 1 \in Nat
  OBVIOUS
<1> QED
  BY <1>1, <1>2 DEF Rows

\* The one step that adds a vote: what bounds the copies grows with it.
LEMMA InsertVoteInv ==
  ASSUME Inv, NEW c \in Calls, InsertVote(c)
  PROVE  Inv'
<1>1. UNCHANGED <<row, cache, outcomes>> /\ call[c].pc = "insert" /\ votes' = Stored(c)
  BY DEF InsertVote, history
<1>2. CASE Has(call[c].voter)
  <2>1. votes' = votes /\ To(c, Done)
    BY <1>2 DEF InsertVote, Stored
  <2> QED
    BY <1>1, <2>1, Untouched, EndKeepsInv DEF Done
<1>3. CASE ~Has(call[c].voter)
  <2> DEFINE w == Vote(c)
             k == [call[c] EXCEPT !.copy = Counted(@, call[c].support), !.pc = "compare"]
  <2>1. w \notin votes /\ w \in [voter : Voters, support : BOOLEAN, by : Calls]
        /\ w.support = call[c].support /\ w.voter = call[c].voter
    BY <1>1, <1>3, Facts DEF Vote, Has, Inv, TypeOK
  <2>2. votes' = votes \union {w}
    BY <1>1, <1>3 DEF Stored
  <2>3. To(c, k)
    BY <2>1, <2>2 DEF InsertVote
  <2> HIDE DEF w
  <2>4. /\ IsFiniteSet(votes')
        /\ Cardinality(votes') = Cardinality(votes) + 1
        /\ Cardinality(Ayes(votes')) = IF call[c].support THEN Cardinality(Ayes(votes)) + 1 ELSE Cardinality(Ayes(votes))
        /\ Cardinality(Noes(votes')) = IF call[c].support THEN Cardinality(Noes(votes)) ELSE Cardinality(Noes(votes)) + 1
    <3>1. IsFiniteSet(votes) /\ w.support \in BOOLEAN
      BY <2>1, Untouched
    <3> QED
      BY <2>1, <2>2, <3>1, OneVoteMore
  <2>5. /\ Cardinality(votes) \in Nat /\ Cardinality(Ayes(votes)) \in Nat /\ Cardinality(Noes(votes)) \in Nat
    BY VotesCounted, Untouched
  <2>6. ASSUME NEW p \in Rows, Counts(p)
        PROVE  /\ p.total <= Cardinality(votes')
               /\ p.yes <= Cardinality(Ayes(votes')) /\ p.no <= Cardinality(Noes(votes'))
    BY <2>4, <2>5, <2>6 DEF Counts, Rows
  <2>7. ASSUME NEW p \in Rows, Counts(p), NEW q, q = Counted(p, call[c].support)
        PROVE  /\ q \in Rows /\ q.status = p.status
               /\ q.total <= Cardinality(votes')
               /\ q.yes <= Cardinality(Ayes(votes')) /\ q.no <= Cardinality(Noes(votes'))
    <3> DEFINE yea == [p EXCEPT !.total = @ + 1, !.yes = @ + 1]
               nay == [p EXCEPT !.total = @ + 1, !.no = @ + 1]
    <3>0. p \in Rows /\ Counts(p)
      BY <2>7, Zenon
    <3>1. CASE call[c].support
      <4>0. /\ Cardinality(votes') = Cardinality(votes) + 1
            /\ Cardinality(Ayes(votes')) = Cardinality(Ayes(votes)) + 1
            /\ Cardinality(Noes(votes')) = Cardinality(Noes(votes))
        BY <2>4, <3>1, Zenon
      <4>1. q = yea
        BY <2>7, <3>1, Zenon DEF Counted
      <4>2. /\ yea \in Rows /\ yea.status = p.status /\ yea.total = p.total + 1
            /\ yea.yes = p.yes + 1 /\ yea.no = p.no
        BY <3>0, CountedUp
      <4> HIDE DEF yea
      <4> QED
        BY <2>5, <3>0, <4>0, <4>1, <4>2 DEF Counts, Rows
    <3>2. CASE ~call[c].support
      <4>0. /\ Cardinality(votes') = Cardinality(votes) + 1
            /\ Cardinality(Ayes(votes')) = Cardinality(Ayes(votes))
            /\ Cardinality(Noes(votes')) = Cardinality(Noes(votes)) + 1
        BY <2>4, <3>2, Zenon
      <4>1. q = nay
        BY <2>7, <3>2, Zenon DEF Counted
      <4>2. /\ nay \in Rows /\ nay.status = p.status /\ nay.total = p.total + 1
            /\ nay.yes = p.yes /\ nay.no = p.no + 1
        BY <3>0, CountedUp
      <4> HIDE DEF nay
      <4> QED
        BY <2>5, <3>0, <4>0, <4>1, <4>2 DEF Counts, Rows
    <3> QED
      BY <3>1, <3>2
  <2>8. /\ k \in Types /\ k.copy = Counted(call[c].copy, call[c].support) /\ k.pc = "compare"
        /\ k.kind = call[c].kind /\ k.voter = call[c].voter /\ k.base = call[c].base
    BY <2>7, Facts DEF Types, Stages, Inv, TypeOK
  <2> HIDE DEF k
  <2>9. call' \in [Calls -> Types] /\ \A d \in Calls : call'[d] = IF d = c THEN k ELSE call[d]
    BY <2>3, <2>8 DEF To, Inv, TypeOK, Types
  <2>10. TypeOK'
    BY <1>1, <2>1, <2>2, <2>4, <2>8, <2>9 DEF Inv, TypeOK, Types
  <2>11. OneVotePerVoter'
    BY <1>3, <2>1, <2>2 DEF Inv, OneVotePerVoter, Has
  <2>12. CopiesHold'
    <3>1. Counts(row)' /\ Passed(row)'
      BY <1>1, <2>6, Untouched DEF Counts, Passed
    <3>2. (cache # None => Counts(cache) /\ Passed(cache))'
      BY <1>1, <2>6, Untouched DEF Counts, Passed
    <3>3. ASSUME NEW d \in Calls PROVE Counts(call[d].copy)' /\ Passed(call[d].copy)'
      <4>1. CASE d = c
        BY <1>1, <2>7, <2>8, <2>9, <4>1, Facts DEF Counts, Passed
      <4>2. CASE d # c
        BY <1>1, <2>6, <2>9, <4>2, Facts DEF Counts, Passed
      <4> QED
        BY <4>1, <4>2
    <3> QED
      BY <3>1, <3>2, <3>3 DEF CopiesHold
  <2>13. WritersReadOpen'
    BY <1>1, <2>8, <2>9 DEF Inv, WritersReadOpen
  <2> QED
    BY <2>10, <2>11, <2>12, <2>13 DEF Inv
<1> QED
  BY <1>2, <1>3

LEMMA CompareRowInv ==
  ASSUME Inv, NEW c \in Calls, CompareRow(c)
  PROVE  Inv'
<1> DEFINE k == [call[c] EXCEPT !.changes = Differing(call[c].copy, row), !.pc = "update"]
<1>1. UNCHANGED <<row, votes, cache, outcomes>> /\ To(c, k) /\ call[c].pc = "compare"
  BY DEF CompareRow, history
<1>2. Differing(call[c].copy, row) \in SUBSET DOMAIN New
  BY DEF Differing
<1>3. Sound(k)
  BY <1>1, <1>2, CallIsSound DEF Sound, Types, Stages
<1> HIDE DEF k
<1> QED
  BY <1>1, <1>3, Untouched, StepKeepsInv

\* Each column of the row is the copy's or the row's own.
LEMMA UpdateRowInv ==
  ASSUME Inv, NEW c \in Calls, UpdateRow(c)
  PROVE  Inv'
<1>1. /\ UNCHANGED <<votes, cache, outcomes>> /\ To(c, [Done EXCEPT !.pc = "invalidate"])
      /\ row' = Merge(call[c].copy, call[c].changes, row)
  BY DEF UpdateRow
<1>2. /\ row'.status \in {call[c].copy.status, row.status} /\ row'.total \in {call[c].copy.total, row.total}
      /\ row'.yes \in {call[c].copy.yes, row.yes} /\ row'.no \in {call[c].copy.no, row.no}
      /\ row' = [f \in {"status", "total", "yes", "no"} |-> row'[f]]
  BY <1>1, Columns DEF Merge
<1>3. call[c].copy \in Rows /\ Counts(call[c].copy) /\ Passed(call[c].copy)
  BY Facts
<1>4. row' \in Rows
  BY <1>2, <1>3, Untouched DEF Rows
<1>5. Counts(row') /\ Passed(row')
  BY <1>2, <1>3, Untouched DEF Counts, Passed
<1>6. [Done EXCEPT !.pc = "invalidate"] = [Idle EXCEPT !.pc = "invalidate"]
  BY DEF Done, Idle
<1> QED
  BY <1>1, <1>4, <1>5, <1>6, Untouched, EndKeepsInv

LEMMA InvalidateInv ==
  ASSUME Inv, NEW c \in Calls, Invalidate(c)
  PROVE  Inv'
<1>1. UNCHANGED <<row, votes, outcomes>> /\ To(c, Done) /\ cache' \in {cache, None}
  BY DEF Invalidate, history
<1> QED
  BY <1>1, Untouched, EndKeepsInv DEF Done

LEMMA FailInv ==
  ASSUME Inv, NEW c \in Calls, Fail(c)
  PROVE  Inv'
<1>1. UNCHANGED <<row, votes, cache, outcomes>> /\ To(c, Done)
  BY DEF Fail, history
<1> QED
  BY <1>1, Untouched, EndKeepsInv DEF Done

LEMMA ExpireInv == Inv /\ Expire => Inv'
BY DEF Inv, TypeOK, OneVotePerVoter, CopiesHold, WritersReadOpen, Counts, Passed, Expire, history

\* The end of voting adds an outcome, which only allows more.
LEMMA ConcludeInv == Inv /\ Conclude => Inv'
<1> SUFFICES ASSUME Inv, Conclude PROVE Inv'
  OBVIOUS
<1>1. PICK s \in {"PASSED", "REJECTED"} : row' = [row EXCEPT !.status = s] /\ outcomes' = outcomes \union {s}
  BY DEF Conclude
<1>2. UNCHANGED <<votes, cache, call>>
  BY DEF Conclude
<1>3. row' \in Rows /\ row'.status = s /\ row'.total = row.total /\ row'.yes = row.yes /\ row'.no = row.no
  BY <1>1, Untouched DEF Rows, Statuses
<1>4. TypeOK'
  BY <1>2, <1>3 DEF Inv, TypeOK
<1>5. OneVotePerVoter' /\ WritersReadOpen'
  BY <1>2 DEF Inv, OneVotePerVoter, WritersReadOpen
<1>6. CopiesHold'
  BY <1>1, <1>2, <1>3 DEF Inv, CopiesHold, Counts, Passed
<1> QED
  BY <1>4, <1>5, <1>6 DEF Inv

LEMMA NextInv == Inv /\ [Next]_vars => Inv'
<1> SUFFICES ASSUME Inv, [Next]_vars PROVE Inv'
  OBVIOUS
<1>1. ASSUME NEW c \in Calls,
             \/ Begin(c) \/ ReadCache(c) \/ LoadRow(c) \/ FillCache(c) \/ CheckVote(c) \/ InsertVote(c)
             \/ CompareRow(c) \/ UpdateRow(c) \/ Invalidate(c) \/ Fail(c)
      PROVE  Inv'
  BY <1>1, BeginInv, ReadCacheInv, LoadRowInv, FillCacheInv, CheckVoteInv, InsertVoteInv,
     CompareRowInv, UpdateRowInv, InvalidateInv, FailInv
<1>2. CASE UNCHANGED vars
  BY <1>2 DEF vars, Inv, TypeOK, OneVotePerVoter, CopiesHold, WritersReadOpen, Counts, Passed
<1> QED
  BY <1>1, <1>2, ExpireInv, ConcludeInv DEF Next

-----------------------------------------------------------------------------

\* Type correctness, one vote per wallet, and copies no worse than the row hold
\* of any number of overlapping calls of GovernanceService.
THEOREM GovernanceInvariant == Spec => []Inv
BY InitInv, NextInv, PTL DEF Spec

\* castVote, however its calls interleave and fail, never counts more votes than
\* were cast.
THEOREM GovernanceNeverOvercounts == Spec => []NeverOvercounted
<1>1. Inv => NeverOvercounted
  BY DEF Inv, CopiesHold, NeverOvercounted
<1> QED
  BY <1>1, GovernanceInvariant, PTL

\* execute, even on an old copy, executes a proposal only after it has passed.
THEOREM GovernanceExecutesPassed == Spec => []ExecutedWasPassed
<1>1. Inv => ExecutedWasPassed
  BY DEF Inv, CopiesHold, Passed, ExecutedWasPassed
<1> QED
  BY <1>1, GovernanceInvariant, PTL

\* A proposal that is over changes status only when a save overwrites a row other
\* than the one its call had read.
THEOREM GovernanceTerminal == Spec => TerminalUnlessStale
<1>1. Inv /\ [Next]_vars => (row.status \in Terminal /\ row'.status # row.status => stale')
  <2> SUFFICES ASSUME Inv, [Next]_vars, row.status \in Terminal, row'.status # row.status PROVE stale'
    OBVIOUS
  <2>1. ASSUME NEW c \in Calls, UpdateRow(c) PROVE stale'
    <3>1. call[c].base.status \notin Terminal
      BY <2>1 DEF Inv, WritersReadOpen, UpdateRow
    <3> QED
      BY <2>1, <3>1 DEF UpdateRow
  <2>2. ~Conclude
    BY DEF Conclude, Terminal
  <2> QED
    BY <2>1, <2>2 DEF Next, vars, history, Begin, Start, ReadCache, LoadRow, FillCache, CheckVote, InsertVote,
       CompareRow, Invalidate, Fail, Expire
<1> QED
  BY <1>1, GovernanceInvariant, PTL DEF Spec, TerminalUnlessStale

-----------------------------------------------------------------------------
(* The counts are exact as long as no save overwrites a row other than the *)
(* one its call had read.  A copy equal to the row may have been read two  *)
(* updates ago, and save writes only the columns that differed from a row  *)
(* read in between: what rules that out is that a row only moves forward.  *)

\* A proposal may go from status s to status t.
Follows(s, t) ==
  \/ s = t
  \/ s = "PENDING"
  \/ s = "ACTIVE" /\ t # "PENDING"
  \/ s \in {"PASSED", "REJECTED"} /\ t \in Terminal

Earlier(p, q) ==
  Follows(p.status, q.status) /\ p.total <= q.total /\ p.yes <= q.yes /\ p.no <= q.no

\* What a call that is about to save was to make of the row it read.
Entity(k) ==
  IF k.kind = "vote" THEN Counted(k.base, k.support) ELSE [k.base EXCEPT !.status = Written(k.kind)]

\* A call works on a row that r, the row now, was or will be a successor of,
\* and compared its entity with a row between the two.
Fresh(k, r) ==
  /\ k.pc = "fill" => Earlier(k.copy, r)
  /\ k.pc \in {"check", "insert", "compare", "update"} => Earlier(k.base, r) /\ MayProceed(k.kind, k.base)
  /\ k.pc \in {"check", "insert"} => k.copy = k.base
  /\ k.pc \in {"compare", "update"} => k.copy = Entity(k)
  /\ k.pc = "update" =>
       \E s \in Rows : Earlier(k.base, s) /\ Earlier(s, r) /\ k.changes = Differing(k.copy, s)

\* The votes ws of call c, which is at k: none before the INSERT, one after it,
\* and c is not among the saved calls S before it has updated the row.
Own(c, k, ws, S) ==
  /\ k.pc \notin {"invalidate", "done"} => c \notin S
  /\ k.pc \in {"idle", "cache", "load", "fill", "check", "insert"} => \A w \in ws : w.by # c
  /\ k.pc \in {"compare", "update"} /\ k.kind # "vote" => \A w \in ws : w.by # c
  /\ k.pc \in {"compare", "update"} /\ k.kind = "vote" =>
       {w \in ws : w.by = c} = {[voter |-> k.voter, support |-> k.support, by |-> c]}

VotesAreOwn == \A c \in Calls : Own(c, call[c], votes, saved)
FreshCopies == (cache # None => Earlier(cache, row)) /\ \A c \in Calls : Fresh(call[c], row)

CountStrong == VotesAreOwn /\ (~stale => FreshCopies) /\ CountsExactUnlessStale

LEMMA EarlierIsOrder ==
  /\ \A p \in Rows : Earlier(p, p)
  /\ \A p, q, r \in Rows : Earlier(p, q) /\ Earlier(q, r) => Earlier(p, r)
  /\ \A p, q \in Rows : Earlier(p, q) /\ Earlier(q, p) => p = q
<1>1. \A p \in Rows : Earlier(p, p)
  BY DEF Rows, Earlier, Follows
<1>2. ASSUME NEW p \in Rows, NEW q \in Rows, NEW r \in Rows, Earlier(p, q), Earlier(q, r)
      PROVE  Earlier(p, r)
  <2>1. Follows(p.status, r.status)
    BY <1>2 DEF Earlier, Follows, Terminal, Rows, Statuses
  <2>2. p.total <= r.total /\ p.yes <= r.yes /\ p.no <= r.no
    BY <1>2 DEF Earlier, Rows
  <2> QED
    BY <2>1, <2>2 DEF Earlier
<1>3. ASSUME NEW p \in Rows, NEW q \in Rows, Earlier(p, q), Earlier(q, p)
      PROVE  p = q
  <2>1. p.status = q.status
    BY <1>3 DEF Earlier, Follows, Terminal, Rows, Statuses
  <2>2. p.total = q.total /\ p.yes = q.yes /\ p.no = q.no
    BY <1>3 DEF Earlier, Rows
  <2> QED
    BY <2>1, <2>2 DEF Rows
<1> QED
  BY <1>1, <1>2, <1>3

\* Copies stay fresh when the row moves forward.
LEMMA FreshStays ==
  ASSUME NEW k \in Types, NEW r \in Rows, NEW s \in Rows, Fresh(k, r), Earlier(r, s)
  PROVE  Fresh(k, s)
<1>1. k.copy \in Rows /\ k.base \in Rows
  BY DEF Types
<1>2. k.pc = "fill" => Earlier(k.copy, s)
  BY <1>1, EarlierIsOrder DEF Fresh
<1>3. k.pc \in {"check", "insert", "compare", "update"} => Earlier(k.base, s) /\ MayProceed(k.kind, k.base)
  BY <1>1, EarlierIsOrder DEF Fresh
<1>4. k.pc = "update" =>
        \E t \in Rows : Earlier(k.base, t) /\ Earlier(t, s) /\ k.changes = Differing(k.copy, t)
  <2> SUFFICES ASSUME k.pc = "update"
               PROVE  \E t \in Rows : Earlier(k.base, t) /\ Earlier(t, s) /\ k.changes = Differing(k.copy, t)
    OBVIOUS
  <2>1. PICK t \in Rows : Earlier(k.base, t) /\ Earlier(t, r) /\ k.changes = Differing(k.copy, t)
    BY DEF Fresh
  <2>2. Earlier(t, s)
    BY <2>1, EarlierIsOrder
  <2> QED
    BY <2>1, <2>2
<1> QED
  BY <1>2, <1>3, <1>4 DEF Fresh

\* A call that is over, or has only the invalidation left, claims nothing.
LEMMA EndedIsFresh ==
  ASSUME NEW c, NEW k, k.pc \in {"invalidate", "done"}, NEW r, NEW ws, NEW S
  PROVE  Fresh(k, r) /\ Own(c, k, ws, S)
BY DEF Fresh, Own

\* A call that has just got its copy p, a row that r came after.
LEMMA FreshWithCopy ==
  ASSUME NEW c \in Calls, NEW k \in Types, NEW p \in Rows, NEW r \in Rows, NEW ws, NEW S,
         k.pc \in {"cache", "fill"}, Own(c, k, ws, S)
  PROVE  /\ Own(c, WithCopy(k, p), ws, S)
         /\ Earlier(p, r) => Fresh(WithCopy(k, p), r)
<1>1. CASE ~MayProceed(k.kind, p)
  <2>1. WithCopy(k, p) = Done /\ Done.pc = "done"
    BY <1>1 DEF WithCopy, Done, Idle
  <2> QED
    BY <2>1, EndedIsFresh
<1>2. CASE MayProceed(k.kind, p) /\ k.kind = "vote"
  <2> DEFINE q == [k EXCEPT !.base = p, !.copy = p, !.pc = "check"]
  <2>1. WithCopy(k, p) = q
    BY <1>2 DEF WithCopy
  <2>2. q.pc = "check" /\ q.base = p /\ q.copy = p /\ q.kind = k.kind
    BY DEF Types
  <2> HIDE DEF q
  <2>3. Own(c, q, ws, S)
    BY <2>2 DEF Own
  <2>4. Earlier(p, r) => Fresh(q, r)
    BY <1>2, <2>2 DEF Fresh
  <2> QED
    BY <2>1, <2>3, <2>4
<1>3. CASE MayProceed(k.kind, p) /\ k.kind # "vote"
  <2> DEFINE e == [p EXCEPT !.status = Written(k.kind)]
             q == [k EXCEPT !.base = p, !.copy = e, !.pc = "compare"]
  <2>1. WithCopy(k, p) = q
    BY <1>3 DEF WithCopy
  <2>2. q.pc = "compare" /\ q.base = p /\ q.copy = e /\ q.kind = k.kind
    BY DEF Types
  <2>3. Entity(q) = e
    BY <1>3, <2>2 DEF Entity
  <2> HIDE DEF q, e
  <2>4. Own(c, q, ws, S)
    BY <1>3, <2>2 DEF Own
  <2>5. Earlier(p, r) => Fresh(q, r)
    BY <1>3, <2>2, <2>3 DEF Fresh
  <2> QED
    BY <2>1, <2>4, <2>5
<1> QED
  BY <1>1, <1>2, <1>3

\* What the proofs of the steps start from.
LEMMA StrongFacts ==
  ASSUME Inv, CountStrong, NEW c \in Calls
  PROVE  /\ call[c] \in Types /\ row \in Rows /\ Own(c, call[c], votes, saved)
         /\ cache \in Rows \union {None}
         /\ ~stale => Fresh(call[c], row) /\ (cache # None => Earlier(cache, row))
BY Untouched, CallIsSound DEF CountStrong, VotesAreOwn, FreshCopies, Sound

\* A step of a call that leaves the row and the votes alone.
LEMMA CallKeepsCounts ==
  ASSUME Inv, CountStrong, NEW c \in Calls, NEW k, To(c, k), UNCHANGED <<row, votes, saved, stale>>,
         Own(c, k, votes, saved), ~stale => Fresh(k, row),
         cache' \in {cache, None} \/ (~stale => Earlier(cache', row))
  PROVE  CountStrong'
<1>1. \A d \in Calls : call'[d] = IF d = c THEN k ELSE call[d]
  BY DEF To, Inv, TypeOK
<1>2. row' = row /\ votes' = votes /\ saved' = saved /\ stale' = stale
  OBVIOUS
<1>3. VotesAreOwn'
  <2> SUFFICES ASSUME NEW d \in Calls PROVE Own(d, call'[d], votes', saved')
    BY DEF VotesAreOwn
  <2>1. CASE d = c
    BY <1>1, <1>2, <2>1
  <2>2. CASE d # c
    BY <1>1, <1>2, <2>2 DEF CountStrong, VotesAreOwn
  <2> QED
    BY <2>1, <2>2
<1>4. ASSUME ~stale' PROVE FreshCopies'
  <2>1. cache' # None => Earlier(cache', row')
    BY <1>2, <1>4 DEF CountStrong, FreshCopies
  <2>2. ASSUME NEW d \in Calls PROVE Fresh(call'[d], row')
    <3>1. CASE d = c
      BY <1>1, <1>2, <1>4, <3>1
    <3>2. CASE d # c
      BY <1>1, <1>2, <1>4, <3>2 DEF CountStrong, FreshCopies
    <3> QED
      BY <3>1, <3>2
  <2> QED
    BY <2>1, <2>2 DEF FreshCopies
<1>5. CountsExactUnlessStale'
  BY <1>2 DEF CountStrong, CountsExactUnlessStale, Of, Ayes, Noes
<1> QED
  BY <1>3, <1>4, <1>5 DEF CountStrong

LEMMA InitStrong == Init => CountStrong
<1> SUFFICES ASSUME Init PROVE CountStrong
  OBVIOUS
<1>1. \A c \in Calls : call[c] = Idle /\ Idle.pc = "idle"
  BY DEF Init, Idle
<1>2. votes = {} /\ saved = {} /\ cache = None
  BY DEF Init
<1>3. VotesAreOwn
  BY <1>1, <1>2 DEF VotesAreOwn, Own
<1>4. FreshCopies
  BY <1>1, <1>2 DEF FreshCopies, Fresh
<1>5. CountsExactUnlessStale
  <2>1. Of(saved) = {} /\ Ayes({}) = {} /\ Noes({}) = {}
    BY <1>2 DEF Of, Ayes, Noes
  <2>2. Cardinality({}) = 0
    BY FS_EmptySet
  <2>3. row.total = 0 /\ row.yes = 0 /\ row.no = 0
    BY DEF Init, New
  <2>4. /\ Cardinality(Of(saved)) = 0 /\ Cardinality(Ayes(Of(saved))) = 0 /\ Cardinality(Noes(Of(saved))) = 0
    BY <2>1, <2>2
  <2> QED
    BY <2>3, <2>4 DEF CountsExactUnlessStale
<1> QED
  BY <1>3, <1>4, <1>5 DEF CountStrong

-----------------------------------------------------------------------------
(* The steps.                                                              *)

LEMMA StartCounts ==
  ASSUME Inv, CountStrong, NEW c \in Calls, NEW kind, NEW v, NEW s, Start(c, kind, v, s)
  PROVE  CountStrong'
<1> DEFINE k == [Idle EXCEPT !.kind = kind, !.voter = v, !.support = s, !.pc = "cache"]
<1>1. To(c, k) /\ UNCHANGED <<row, votes, saved, stale>> /\ cache' = cache /\ call[c].pc = "idle"
  BY DEF Start, history, Idle
<1>2. k.pc = "cache"
  BY DEF Idle
<1> HIDE DEF k
<1>3. Own(c, k, votes, saved)
  BY <1>1, <1>2, StrongFacts DEF Own
<1>4. Fresh(k, row)
  BY <1>2 DEF Fresh
<1> QED
  BY <1>1, <1>3, <1>4, CallKeepsCounts

\* A call that goes on to step pc with nothing new.
LEMMA GoesOnCounts ==
  ASSUME Inv, CountStrong, NEW c \in Calls, NEW pc \in {"load", "insert"}, At(c, pc),
         UNCHANGED <<row, votes, saved, stale, cache>>,
         pc = "load" => call[c].pc = "cache", pc = "insert" => call[c].pc = "check"
  PROVE  CountStrong'
<1> DEFINE k == [call[c] EXCEPT !.pc = pc]
<1>1. To(c, k)
  BY DEF At
<1>2. k.pc = pc /\ k.kind = call[c].kind /\ k.base = call[c].base /\ k.copy = call[c].copy
  BY StrongFacts DEF Types
<1> HIDE DEF k
<1>3. Own(c, k, votes, saved)
  BY <1>2, StrongFacts DEF Own
<1>4. ~stale => Fresh(k, row)
  BY <1>2, StrongFacts DEF Fresh
<1> QED
  BY <1>1, <1>3, <1>4, CallKeepsCounts

\* A call that ends, with or without dropping the key.
LEMMA EndCounts ==
  ASSUME Inv, CountStrong, NEW c \in Calls, To(c, Done), UNCHANGED <<row, votes, saved, stale>>,
         cache' \in {cache, None}
  PROVE  CountStrong'
<1>1. Done.pc = "done"
  BY DEF Done, Idle
<1>2. Own(c, Done, votes, saved) /\ Fresh(Done, row)
  BY <1>1, EndedIsFresh
<1> QED
  BY <1>2, CallKeepsCounts

LEMMA ReadCacheCounts ==
  ASSUME Inv, CountStrong, NEW c \in Calls, ReadCache(c)
  PROVE  CountStrong'
<1>1. UNCHANGED <<row, votes, saved, stale, cache>> /\ call[c].pc = "cache"
  BY DEF ReadCache, history
<1>2. CASE cache # None /\ To(c, WithCopy(call[c], cache))
  <2>1. cache \in Rows
    BY <1>2, StrongFacts
  <2>2. Own(c, WithCopy(call[c], cache), votes, saved) /\ (~stale => Fresh(WithCopy(call[c], cache), row))
    BY <1>1, <1>2, <2>1, StrongFacts, FreshWithCopy
  <2> QED
    BY <1>1, <1>2, <2>2, CallKeepsCounts
<1>3. CASE At(c, "load")
  BY <1>1, <1>3, GoesOnCounts
<1> QED
  BY <1>2, <1>3 DEF ReadCache

LEMMA LoadRowCounts ==
  ASSUME Inv, CountStrong, NEW c \in Calls, LoadRow(c)
  PROVE  CountStrong'
<1> DEFINE k == [call[c] EXCEPT !.copy = row, !.pc = "fill"]
<1>1. UNCHANGED <<row, votes, saved, stale, cache>> /\ To(c, k) /\ call[c].pc = "load"
  BY DEF LoadRow, history
<1>2. k.pc = "fill" /\ k.copy = row
  BY StrongFacts DEF Types
<1> HIDE DEF k
<1>3. Own(c, k, votes, saved)
  BY <1>1, <1>2, StrongFacts DEF Own
<1>4. Fresh(k, row)
  BY <1>2, StrongFacts, EarlierIsOrder DEF Fresh
<1> QED
  BY <1>1, <1>3, <1>4, CallKeepsCounts

LEMMA FillCacheCounts ==
  ASSUME Inv, CountStrong, NEW c \in Calls, FillCache(c)
  PROVE  CountStrong'
<1>1. UNCHANGED <<row, votes, saved, stale>> /\ To(c, WithCopy(call[c], call[c].copy)) /\ call[c].pc = "fill"
      /\ cache' \in {cache, call[c].copy}
  BY DEF FillCache, history
<1>2. call[c].copy \in Rows
  BY Facts
<1>3. ~stale => Earlier(call[c].copy, row)
  BY <1>1, StrongFacts DEF Fresh
<1>4. Own(c, WithCopy(call[c], call[c].copy), votes, saved)
      /\ (~stale => Fresh(WithCopy(call[c], call[c].copy), row))
  BY <1>1, <1>2, <1>3, StrongFacts, FreshWithCopy
<1>5. cache' \in {cache, None} \/ (~stale => Earlier(cache', row))
  BY <1>1, <1>3
<1> QED
  BY <1>1, <1>4, <1>5, CallKeepsCounts

LEMMA CheckVoteCounts ==
  ASSUME Inv, CountStrong, NEW c \in Calls, CheckVote(c)
  PROVE  CountStrong'
<1>1. UNCHANGED <<row, votes, saved, stale, cache>> /\ call[c].pc = "check"
  BY DEF CheckVote, history
<1> QED
  BY <1>1, EndCounts, GoesOnCounts DEF CheckVote

LEMMA CompareRowCounts ==
  ASSUME Inv, CountStrong, NEW c \in Calls, CompareRow(c)
  PROVE  CountStrong'
<1> DEFINE k == [call[c] EXCEPT !.changes = Differing(call[c].copy, row), !.pc = "update"]
<1>1. UNCHANGED <<row, votes, saved, stale, cache>> /\ To(c, k) /\ call[c].pc = "compare"
  BY DEF CompareRow, history
<1>2. /\ k.pc = "update" /\ k.kind = call[c].kind /\ k.base = call[c].base /\ k.copy = call[c].copy
      /\ k.support = call[c].support /\ k.voter = call[c].voter /\ k.changes = Differing(call[c].copy, row)
  BY StrongFacts DEF Types
<1> HIDE DEF k
<1>3. Own(c, k, votes, saved)
  BY <1>1, <1>2, StrongFacts DEF Own
<1>4. ASSUME ~stale PROVE Fresh(k, row)
  <2>1. Earlier(k.base, row) /\ MayProceed(k.kind, k.base) /\ call[c].copy = Entity(call[c])
    BY <1>1, <1>2, <1>4, StrongFacts DEF Fresh
  <2>2. Entity(k) = Entity(call[c])
    BY <1>2 DEF Entity
  <2>3. Earlier(row, row) /\ row \in Rows
    BY StrongFacts, EarlierIsOrder
  <2>4. \E s \in Rows : Earlier(k.base, s) /\ Earlier(s, row) /\ k.changes = Differing(k.copy, s)
    BY <1>2, <2>1, <2>3
  <2> QED
    BY <1>2, <2>1, <2>2, <2>4 DEF Fresh
<1> QED
  BY <1>1, <1>3, <1>4, CallKeepsCounts


\* The row changes to a successor of what it was, and the calls of D stay as
\* they are: their copies are still fresh.
LEMMA OthersStayFresh ==
  ASSUME Inv, CountStrong, ~stale, NEW D \in SUBSET Calls, row' \in Rows, Earlier(row, row'), cache' = cache,
         \A d \in D : call'[d] = call[d]
  PROVE  /\ cache' # None => Earlier(cache', row')
         /\ \A d \in D : Fresh(call'[d], row')
<1>1. cache' # None => Earlier(cache', row')
  <2>1. row \in Rows /\ cache \in Rows \union {None}
    BY Untouched
  <2>2. cache # None => Earlier(cache, row)
    BY DEF CountStrong, FreshCopies
  <2> QED
    BY <2>1, <2>2, EarlierIsOrder
<1>2. ASSUME NEW d \in D PROVE Fresh(call'[d], row')
  <2>1. Fresh(call[d], row) /\ call[d] \in Types /\ row \in Rows
    BY StrongFacts
  <2>2. Fresh(call[d], row')
    BY <2>1, FreshStays
  <2> QED
    BY <2>2
<1> QED
  BY <1>1, <1>2

\* The vote is the call's own, and not counted before the call updates the row.
LEMMA InsertVoteCounts ==
  ASSUME Inv, CountStrong, NEW c \in Calls, InsertVote(c)
  PROVE  CountStrong'
<1>1. UNCHANGED <<row, cache, saved, stale>> /\ call[c].pc = "insert" /\ votes' = Stored(c)
  BY DEF InsertVote, history
<1>2. CASE Has(call[c].voter)
  <2>1. votes' = votes /\ To(c, Done)
    BY <1>2 DEF InsertVote, Stored
  <2> QED
    BY <1>1, <2>1, EndCounts
<1>3. CASE ~Has(call[c].voter)
  <2> DEFINE w == Vote(c)
             k == [call[c] EXCEPT !.copy = Counted(@, call[c].support), !.pc = "compare"]
  <2>1. w \notin votes /\ w.by = c /\ w = [voter |-> call[c].voter, support |-> call[c].support, by |-> c]
    BY <1>3 DEF Vote, Has
  <2>2. votes' = votes \union {w}
    BY <1>1, <1>3 DEF Stored
  <2>3. To(c, k)
    BY <2>1, <2>2 DEF InsertVote
  <2>4. /\ k.pc = "compare" /\ k.kind = call[c].kind /\ k.base = call[c].base /\ k.support = call[c].support
        /\ k.voter = call[c].voter /\ k.copy = Counted(call[c].copy, call[c].support)
    BY StrongFacts DEF Types
  <2>5. call[c].kind = "vote"
    BY <1>1 DEF Inv, TypeOK
  <2> HIDE DEF k, w
  <2>6. \A d \in Calls : call'[d] = IF d = c THEN k ELSE call[d]
    BY <2>3 DEF To, Inv, TypeOK
  <2>7. c \notin saved /\ \A x \in votes : x.by # c
    BY <1>1, StrongFacts DEF Own
  <2>8. VotesAreOwn'
    <3> SUFFICES ASSUME NEW d \in Calls PROVE Own(d, call'[d], votes', saved')
      BY DEF VotesAreOwn
    <3>1. CASE d = c
      <4>1. {x \in votes' : x.by = c} = {w}
        BY <2>1, <2>2, <2>7
      <4>2. w = [voter |-> k.voter, support |-> k.support, by |-> c]
        BY <2>1, <2>4
      <4>3. Own(c, k, votes', saved')
        BY <1>1, <2>4, <2>5, <2>7, <4>1, <4>2 DEF Own
      <4> QED
        BY <2>6, <3>1, <4>3
    <3>2. CASE d # c
      <4>1. Own(d, call[d], votes, saved)
        BY StrongFacts
      <4>2. {x \in votes' : x.by = d} = {x \in votes : x.by = d}
        BY <2>1, <2>2, <3>2
      <4>3. (\A x \in votes : x.by # d) => \A x \in votes' : x.by # d
        BY <2>1, <2>2, <3>2
      <4>4. Own(d, call[d], votes', saved')
        BY <1>1, <4>1, <4>2, <4>3 DEF Own
      <4> QED
        BY <2>6, <3>2, <4>4
    <3> QED
      BY <3>1, <3>2
  <2>9. ASSUME ~stale' PROVE FreshCopies'
    <3>1. Fresh(call[c], row)
      BY <1>1, <2>9, StrongFacts
    <3>2. Earlier(k.base, row) /\ MayProceed(k.kind, k.base) /\ call[c].copy = k.base
      BY <1>1, <2>4, <3>1 DEF Fresh
    <3>3. k.copy = Entity(k)
      BY <2>4, <2>5, <3>2 DEF Entity
    <3>4. Fresh(k, row)
      BY <2>4, <3>2, <3>3 DEF Fresh
    <3>5. Earlier(row, row') /\ row' \in Rows
      BY <1>1, Untouched, EarlierIsOrder
    <3>6. \A d \in Calls \ {c} : call'[d] = call[d]
      BY <2>6
    <3>7. /\ cache' # None => Earlier(cache', row')
          /\ \A d \in Calls \ {c} : Fresh(call'[d], row')
      <4>1. Calls \ {c} \in SUBSET Calls
        OBVIOUS
      <4> QED
        BY <1>1, <2>9, <3>5, <3>6, <4>1, OthersStayFresh
    <3>8. Fresh(call'[c], row')
      BY <1>1, <2>6, <3>4
    <3> QED
      BY <3>7, <3>8 DEF FreshCopies
  <2>10. CountsExactUnlessStale'
    <3>1. Of(saved)' = Of(saved)
      <4>1. Of(saved') = Of(saved)
        BY <1>1
      <4>2. {x \in votes' : x.by \in saved} = {x \in votes : x.by \in saved}
        BY <2>1, <2>2, <2>7
      <4> QED
        BY <1>1, <4>2 DEF Of
    <3>2. row' = row /\ stale' = stale
      BY <1>1
    <3> QED
      BY <3>1, <3>2 DEF CountStrong, CountsExactUnlessStale, Ayes, Noes
  <2> QED
    BY <2>8, <2>9, <2>10 DEF CountStrong
<1> QED
  BY <1>2, <1>3

\* A save that meets the row its call read writes the call's entity whole: the
\* row it was compared with lay between the two, so it was that row.
LEMMA SaveIsWhole ==
  ASSUME Inv, CountStrong, NEW c \in Calls, UpdateRow(c), ~stale'
  PROVE  /\ ~stale /\ call[c].base = row
         /\ row' = Entity(call[c]) /\ MayProceed(call[c].kind, row)
<1>1. ~stale /\ call[c].base = row /\ call[c].pc = "update"
  BY DEF UpdateRow
<1>2. /\ row' = Merge(call[c].copy, call[c].changes, row)
  BY DEF UpdateRow
<1>3. Fresh(call[c], row) /\ row \in Rows /\ call[c].copy \in Rows
  BY <1>1, StrongFacts DEF Types
<1>4. PICK s \in Rows : Earlier(row, s) /\ Earlier(s, row) /\ call[c].changes = Differing(call[c].copy, s)
  BY <1>1, <1>3 DEF Fresh
<1>5. s = row
  BY <1>3, <1>4, EarlierIsOrder
<1>6. Merge(call[c].copy, Differing(call[c].copy, row), row) = call[c].copy
  <2>1. DOMAIN New = {"status", "total", "yes", "no"}
    BY Columns
  <2>2. call[c].copy = [f \in DOMAIN New |-> call[c].copy[f]]
    BY <1>3, <2>1 DEF Rows
  <2>3. \A f \in DOMAIN New :
          (IF f \in Differing(call[c].copy, row) THEN call[c].copy[f] ELSE row[f]) = call[c].copy[f]
    BY DEF Differing
  <2> QED
    BY <2>2, <2>3 DEF Merge
<1>7. row' = call[c].copy
  BY <1>2, <1>4, <1>5, <1>6
<1> QED
  BY <1>1, <1>3, <1>7 DEF Fresh

\* What a save that writes its entity does to the row.
LEMMA EntityIsNext ==
  ASSUME NEW k \in Types, MayProceed(k.kind, k.base)
  PROVE  /\ Entity(k) \in Rows /\ Earlier(k.base, Entity(k))
         /\ k.kind # "vote" => /\ Entity(k).total = k.base.total
                               /\ Entity(k).yes = k.base.yes /\ Entity(k).no = k.base.no
         /\ k.kind = "vote" =>
              /\ Entity(k).total = k.base.total + 1
              /\ Entity(k).yes = IF k.support THEN k.base.yes + 1 ELSE k.base.yes
              /\ Entity(k).no = IF k.support THEN k.base.no ELSE k.base.no + 1
<1>1. k.base \in Rows /\ k.support \in BOOLEAN
  BY DEF Types
<1>2. CASE k.kind = "vote"
  <2> DEFINE yea == [k.base EXCEPT !.total = @ + 1, !.yes = @ + 1]
             nay == [k.base EXCEPT !.total = @ + 1, !.no = @ + 1]
  <2>1. /\ yea \in Rows /\ yea.status = k.base.status /\ yea.total = k.base.total + 1
        /\ yea.yes = k.base.yes + 1 /\ yea.no = k.base.no
    BY <1>1, CountedUp
  <2>2. /\ nay \in Rows /\ nay.status = k.base.status /\ nay.total = k.base.total + 1
        /\ nay.yes = k.base.yes /\ nay.no = k.base.no + 1
    BY <1>1, CountedUp
  <2>3. Entity(k) = IF k.support THEN yea ELSE nay
    BY <1>2 DEF Entity, Counted
  <2> HIDE DEF yea, nay
  <2>4. k.base.total \in Nat /\ k.base.yes \in Nat /\ k.base.no \in Nat
    BY <1>1 DEF Rows
  <2>5. CASE k.support
    BY <1>2, <2>1, <2>3, <2>4, <2>5 DEF Earlier, Follows
  <2>6. CASE ~k.support
    BY <1>2, <2>2, <2>3, <2>4, <2>6 DEF Earlier, Follows
  <2> QED
    BY <2>5, <2>6
<1>3. CASE k.kind # "vote"
  <2> DEFINE q == [k.base EXCEPT !.status = Written(k.kind)]
  <2>1. Written(k.kind) \in Statuses /\ Follows(k.base.status, Written(k.kind))
    <3>1. CASE k.kind = "activate" /\ k.base.status = "PENDING"
      BY <3>1 DEF Written, Statuses, Follows
    <3>2. CASE k.kind = "execute" /\ k.base.status = "PASSED"
      BY <3>2 DEF Written, Statuses, Follows, Terminal
    <3>3. CASE k.kind = "cancel" /\ k.base.status \notin {"EXECUTED", "CANCELLED"}
      BY <1>1, <3>3 DEF Written, Statuses, Follows, Terminal, Rows
    <3> QED
      BY <1>3, <3>1, <3>2, <3>3 DEF MayProceed, MayExecute, MayCancel
  <2>2. /\ q \in Rows /\ q.status = Written(k.kind)
        /\ q.total = k.base.total /\ q.yes = k.base.yes /\ q.no = k.base.no
    BY <1>1, <2>1 DEF Rows
  <2>3. Entity(k) = q
    BY <1>3 DEF Entity
  <2> HIDE DEF q
  <2> QED
    BY <1>1, <1>3, <2>1, <2>2, <2>3 DEF Earlier, Rows
<1> QED
  BY <1>2, <1>3

\* The votes of the calls that have updated the row, when call c joins them.
LEMMA OneCallMore ==
  ASSUME Inv, NEW c \in Calls, Own(c, call[c], votes, saved), call[c].pc = "update"
  PROVE  /\ call[c].kind # "vote" => Of(saved \union {c}) = Of(saved)
         /\ call[c].kind = "vote" =>
              /\ Cardinality(Of(saved \union {c})) = Cardinality(Of(saved)) + 1
              /\ Cardinality(Ayes(Of(saved \union {c}))) =
                   IF call[c].support THEN Cardinality(Ayes(Of(saved))) + 1 ELSE Cardinality(Ayes(Of(saved)))
              /\ Cardinality(Noes(Of(saved \union {c}))) =
                   IF call[c].support THEN Cardinality(Noes(Of(saved))) ELSE Cardinality(Noes(Of(saved))) + 1
<1>1. CASE call[c].kind # "vote"
  BY <1>1 DEF Own, Of
<1>2. CASE call[c].kind = "vote"
  <2>1. PICK w : w = [voter |-> call[c].voter, support |-> call[c].support, by |-> c]
    OBVIOUS
  <2>2. {x \in votes : x.by = c} = {w} /\ c \notin saved
    BY <1>2, <2>1 DEF Own
  <2>3. w \in votes /\ w.by = c /\ w.support = call[c].support
    BY <2>1, <2>2
  <2>4. Of(saved \union {c}) = Of(saved) \union {w}
    BY <2>2 DEF Of
  <2>5. w \notin Of(saved)
    BY <2>2, <2>3 DEF Of
  <2>6. IsFiniteSet(Of(saved)) /\ IsFiniteSet(Ayes(Of(saved))) /\ IsFiniteSet(Noes(Of(saved)))
    <3>1. IsFiniteSet(votes)
      BY Untouched
    <3>2. Of(saved) \in SUBSET votes /\ Ayes(Of(saved)) \in SUBSET votes /\ Noes(Of(saved)) \in SUBSET votes
      BY DEF Of, Ayes, Noes
    <3> QED
      BY <3>1, <3>2, FS_Subset
  <2>7. Cardinality(Of(saved \union {c})) = Cardinality(Of(saved)) + 1
    BY <2>4, <2>5, <2>6, FS_AddElement
  <2>8. w \notin Ayes(Of(saved)) /\ w \notin Noes(Of(saved))
    BY <2>5 DEF Ayes, Noes
  <2>9. CASE call[c].support
    <3>1. Ayes(Of(saved) \union {w}) = Ayes(Of(saved)) \union {w} /\ Noes(Of(saved) \union {w}) = Noes(Of(saved))
      BY <2>3, <2>9 DEF Ayes, Noes
    <3>2. Cardinality(Ayes(Of(saved)) \union {w}) = Cardinality(Ayes(Of(saved))) + 1
      BY <2>6, <2>8, FS_AddElement
    <3> QED
      BY <1>2, <2>4, <2>7, <2>9, <3>1, <3>2
  <2>10. CASE ~call[c].support
    <3>1. Ayes(Of(saved) \union {w}) = Ayes(Of(saved)) /\ Noes(Of(saved) \union {w}) = Noes(Of(saved)) \union {w}
      BY <2>3, <2>10 DEF Ayes, Noes
    <3>2. Cardinality(Noes(Of(saved)) \union {w}) = Cardinality(Noes(Of(saved))) + 1
      BY <2>6, <2>8, FS_AddElement
    <3> QED
      BY <1>2, <2>4, <2>7, <2>10, <3>1, <3>2
  <2> QED
    BY <2>9, <2>10
<1> QED
  BY <1>1, <1>2

LEMMA UpdateRowCounts ==
  ASSUME Inv, CountStrong, NEW c \in Calls, UpdateRow(c)
  PROVE  CountStrong'
<1>1. PICK k : k = [Done EXCEPT !.pc = "invalidate"]
  OBVIOUS
<1>2. UNCHANGED <<votes, cache>> /\ saved' = saved \union {c} /\ To(c, k) /\ call[c].pc = "update"
  BY <1>1 DEF UpdateRow
<1>3. k.pc = "invalidate"
  BY <1>1 DEF Done, Idle
<1>4. \A d \in Calls : call'[d] = IF d = c THEN k ELSE call[d]
  BY <1>2 DEF To, Inv, TypeOK
<1>5. VotesAreOwn'
  <2> SUFFICES ASSUME NEW d \in Calls PROVE Own(d, call'[d], votes', saved')
    BY DEF VotesAreOwn
  <2>1. CASE d = c
    BY <1>3, <1>4, <2>1, EndedIsFresh
  <2>2. CASE d # c
    <3>1. Own(d, call[d], votes, saved) /\ (d \in saved' <=> d \in saved)
      BY <1>2, <2>2, StrongFacts
    <3>2. call'[d] = call[d] /\ votes' = votes
      BY <1>2, <1>4, <2>2
    <3> QED
      BY <3>1, <3>2 DEF Own
  <2> QED
    BY <2>1, <2>2
<1>6. ASSUME ~stale' PROVE FreshCopies' /\ CountsExactUnlessStale'
  <2>1. ~stale /\ call[c].base = row /\ row' = Entity(call[c]) /\ MayProceed(call[c].kind, row)
    BY <1>6, SaveIsWhole
  <2>2. PICK q : q = call[c]
    OBVIOUS
  <2>3. q \in Types /\ q.base = row /\ MayProceed(q.kind, q.base) /\ row' = Entity(q)
    BY <2>1, <2>2, StrongFacts
  <2>4. /\ row' \in Rows /\ Earlier(row, row')
        /\ q.kind # "vote" => row'.total = row.total /\ row'.yes = row.yes /\ row'.no = row.no
        /\ q.kind = "vote" => /\ row'.total = row.total + 1
                              /\ row'.yes = IF q.support THEN row.yes + 1 ELSE row.yes
                              /\ row'.no = IF q.support THEN row.no ELSE row.no + 1
    BY <2>3, EntityIsNext
  <2>5. FreshCopies'
    <3>1. \A d \in Calls \ {c} : call'[d] = call[d]
      BY <1>4
    <3>2. /\ cache' # None => Earlier(cache', row')
          /\ \A d \in Calls \ {c} : Fresh(call'[d], row')
      <4>1. Calls \ {c} \in SUBSET Calls
        OBVIOUS
      <4> QED
        BY <1>2, <2>1, <2>4, <3>1, <4>1, OthersStayFresh
    <3>3. Fresh(call'[c], row')
      BY <1>3, <1>4, EndedIsFresh
    <3> QED
      BY <3>2, <3>3 DEF FreshCopies
  <2>6. /\ row.total = Cardinality(Of(saved))
        /\ row.yes = Cardinality(Ayes(Of(saved))) /\ row.no = Cardinality(Noes(Of(saved)))
    BY <2>1 DEF CountStrong, CountsExactUnlessStale
  <2>7. Own(c, call[c], votes, saved)
    BY StrongFacts
  <2>8. /\ Of(saved)' = Of(saved \union {c})
        /\ Ayes(Of(saved))' = Ayes(Of(saved \union {c})) /\ Noes(Of(saved))' = Noes(Of(saved \union {c}))
    BY <1>2 DEF Of, Ayes, Noes
  <2>9. CASE q.kind # "vote"
    <3>1. Of(saved \union {c}) = Of(saved)
      BY <1>2, <2>2, <2>7, <2>9, OneCallMore
    <3> QED
      BY <2>4, <2>5, <2>6, <2>8, <2>9, <3>1 DEF CountsExactUnlessStale
  <2>10. CASE q.kind = "vote"
    <3>1. /\ Cardinality(Of(saved \union {c})) = Cardinality(Of(saved)) + 1
          /\ Cardinality(Ayes(Of(saved \union {c}))) =
               IF q.support THEN Cardinality(Ayes(Of(saved))) + 1 ELSE Cardinality(Ayes(Of(saved)))
          /\ Cardinality(Noes(Of(saved \union {c}))) =
               IF q.support THEN Cardinality(Noes(Of(saved))) ELSE Cardinality(Noes(Of(saved))) + 1
      BY <1>2, <2>2, <2>7, <2>10, OneCallMore
    <3>2. /\ row'.total = Cardinality(Of(saved \union {c}))
          /\ row'.yes = Cardinality(Ayes(Of(saved \union {c})))
          /\ row'.no = Cardinality(Noes(Of(saved \union {c})))
      BY <2>4, <2>6, <2>10, <3>1
    <3> QED
      BY <2>5, <2>8, <3>2 DEF CountsExactUnlessStale
  <2> QED
    BY <2>9, <2>10
<1>7. CountsExactUnlessStale'
  BY <1>6 DEF CountsExactUnlessStale
<1> QED
  BY <1>5, <1>6, <1>7 DEF CountStrong

LEMMA ConcludeCounts == Inv /\ CountStrong /\ Conclude => CountStrong'
<1> SUFFICES ASSUME Inv, CountStrong, Conclude PROVE CountStrong'
  OBVIOUS
<1>1. PICK s \in {"PASSED", "REJECTED"} : row' = [row EXCEPT !.status = s]
  BY DEF Conclude
<1>2. row.status = "ACTIVE" /\ UNCHANGED <<votes, cache, call, saved, stale>>
  BY DEF Conclude
<1>3. row' \in Rows /\ row'.status = s /\ row'.total = row.total /\ row'.yes = row.yes /\ row'.no = row.no
  BY <1>1, Untouched DEF Rows, Statuses
<1>4. Earlier(row, row')
  BY <1>2, <1>3, Untouched DEF Earlier, Follows, Rows
<1>5. VotesAreOwn'
  BY <1>2 DEF CountStrong, VotesAreOwn
<1>6. ASSUME ~stale' PROVE FreshCopies'
  <2>1. ~stale /\ cache' = cache /\ \A d \in Calls : call'[d] = call[d]
    BY <1>2, <1>6
  <2>2. Calls \in SUBSET Calls
    OBVIOUS
  <2>3. /\ cache' # None => Earlier(cache', row')
        /\ \A d \in Calls : Fresh(call'[d], row')
    BY <1>3, <1>4, <2>1, <2>2, OthersStayFresh
  <2> QED
    BY <2>3 DEF FreshCopies
<1>7. CountsExactUnlessStale'
  <2>1. Of(saved)' = Of(saved) /\ Ayes(Of(saved))' = Ayes(Of(saved)) /\ Noes(Of(saved))' = Noes(Of(saved))
    BY <1>2 DEF Of, Ayes, Noes
  <2> QED
    BY <1>2, <1>3, <2>1 DEF CountStrong, CountsExactUnlessStale
<1> QED
  BY <1>5, <1>6, <1>7 DEF CountStrong

LEMMA NextStrong == Inv /\ CountStrong /\ [Next]_vars => CountStrong'
<1> SUFFICES ASSUME Inv, CountStrong, [Next]_vars PROVE CountStrong'
  OBVIOUS
<1>1. ASSUME NEW c \in Calls, Begin(c) PROVE CountStrong'
  BY <1>1, StartCounts DEF Begin
<1>2. ASSUME NEW c \in Calls, Invalidate(c) \/ Fail(c) PROVE CountStrong'
  BY <1>2, EndCounts DEF Invalidate, Fail, history
<1>3. CASE Expire \/ UNCHANGED vars
  <2>1. UNCHANGED <<row, votes, call, saved, stale>> /\ cache' \in {cache, None}
    BY <1>3 DEF Expire, vars, history
  <2>2. VotesAreOwn' /\ (FreshCopies => FreshCopies')
    BY <2>1 DEF CountStrong, VotesAreOwn, FreshCopies
  <2>3. CountsExactUnlessStale'
    BY <2>1 DEF CountStrong, CountsExactUnlessStale, Of, Ayes, Noes
  <2> QED
    BY <2>1, <2>2, <2>3 DEF CountStrong
<1> QED
  BY <1>1, <1>2, <1>3, ReadCacheCounts, LoadRowCounts, FillCacheCounts, CheckVoteCounts, InsertVoteCounts,
     CompareRowCounts, UpdateRowCounts, ConcludeCounts DEF Next

\* castVote's counts are those of the votes whose calls updated the proposal, as
\* long as each update met the row that its call had read, from whichever of the
\* cache and the table, and whatever failed or expired in between.
THEOREM GovernanceCountsExact == Spec => []CountsExactUnlessStale
<1>1. CountStrong => CountsExactUnlessStale
  BY DEF CountStrong
<1>2. Inv /\ CountStrong /\ [Next]_vars => (Inv /\ CountStrong)'
  BY NextInv, NextStrong
<1>3. Init => Inv /\ CountStrong
  BY InitInv, InitStrong
<1> QED
  BY <1>1, <1>2, <1>3, PTL DEF Spec

-----------------------------------------------------------------------------
(* Disputes.                                                               *)

Transitions == {"review", "resolve", "reject", "expire"}

DisputeRows == [status : {"OPEN", "REVIEWING", "RESOLVED", "REJECTED"}, outcome : {"CONFIRMED", "OVERTURNED", None},
         started : BOOLEAN, ended : BOOLEAN, reasons : SUBSET {"rejected", "expired"}]

DisputeColumns == {"status", "outcome", "started", "ended", "reasons"}

NoneApart == None \notin DisputeRows \union {"CONFIRMED", "OVERTURNED"}

DisputeCalls == [kind : Transitions \union {"none", "create"}, of : Disputes \union {None},
             pc : {"idle", "check", "insert", "compare", "update", "done"},
             asked : SUBSET {"open", "recent"}, refused : BOOLEAN,
             base : DisputeRows, copy : DisputeRows, changes : SUBSET DisputeColumns]

\* A coherent row whose review has not started while it is OPEN.
Told(r) == Dispute!Coherent(r) /\ (r.status = "OPEN" => ~r.started)

\* The row s may follow the row r: nothing that r records is taken back.
Later(r, s) ==
  /\ r.started => s.started
  /\ r.ended => s.ended
  /\ r.reasons \subseteq s.reasons
  /\ s.status = "OPEN" => r.status = "OPEN"
  /\ r.status \in {"RESOLVED", "REJECTED"} => s = r
  /\ s.outcome # r.outcome => s.status = "RESOLVED" /\ r.status # "RESOLVED"

\* A transition under way has read a row that allowed it, and the rows of its
\* dispute only went on from there, unless somebody wrote over another's work.
SeesDispute(q) ==
  /\ q.pc \in {"compare", "update"} =>
       /\ q.kind \in Transitions /\ q.of \in Dispute!Stored
       /\ Dispute!MayWrite(q.kind, q.base) /\ q.copy \in Dispute!Written(q.kind, q.base)
       /\ q.of \notin overlaid => Told(q.base) /\ Later(q.base, dispute[q.of])
  /\ q.pc = "update" => \E x \in DisputeRows :
       /\ q.changes = Dispute!Differing(q.kind, q.copy, x)
       /\ q.of \notin overlaid => Later(q.base, x) /\ Later(x, dispute[q.of])

\* A creation that nothing has refused is right so far if it is alone.
CreatesDispute(q) ==
  /\ q.pc \in {"check", "insert"} => q.kind = "create"
  /\ ~crowded /\ q.pc = "check" /\ ~q.refused => \A query \in q.asked : ~Dispute!Conflicts(query)
  /\ ~crowded /\ q.pc = "insert" => ~Dispute!Conflicts("open") /\ ~Dispute!Conflicts("recent")

AtMostOne(S) == \A d, e \in S : d = e
OpenDisputes == {d \in Dispute!Stored : dispute[d].status = "OPEN"}

\* The inductive invariant.
DisputeInv ==
  /\ dispute \in [Disputes -> DisputeRows \union {None}] /\ disputeCall \in [Calls -> DisputeCalls]
  /\ recent \subseteq Dispute!Stored /\ overlaid \subseteq Dispute!Stored /\ crowded \in BOOLEAN
  /\ \A d \in Dispute!Stored \ overlaid : Told(dispute[d])
  /\ \A c \in Calls : SeesDispute(disputeCall[c]) /\ CreatesDispute(disputeCall[c]) /\ disputeCall[c].of \in Dispute!Stored \union {None}
  /\ ~crowded => AtMostOne(Dispute!Creating) /\ AtMostOne(recent) /\ AtMostOne(OpenDisputes)

-----------------------------------------------------------------------------
(* Rows.                                                                   *)

LEMMA OpenedIsARow == Dispute!Opened \in DisputeRows /\ DOMAIN Dispute!Opened = DisputeColumns /\ (NoneApart => Told(Dispute!Opened))
  /\ Dispute!Opened.status = "OPEN"
BY DEF Dispute!Opened, DisputeRows, DisputeColumns, Told, Dispute!Coherent, NoneApart

\* A transition takes a coherent row on to a coherent row.
LEMMA WrittenIsLater ==
  ASSUME NoneApart, NEW r \in DisputeRows, NEW kind \in Transitions, Dispute!MayWrite(kind, r), NEW e \in Dispute!Written(kind, r)
  PROVE  /\ e \in DisputeRows
         /\ kind # "expire" => e.status # "OPEN"
         /\ kind = "expire" => e.status = r.status
         /\ Told(r) => Told(e) /\ Later(r, e)
<1>1. CASE kind = "review"
  <2>1. e = [r EXCEPT !.status = "REVIEWING", !.started = TRUE] /\ r.status = "OPEN"
    BY <1>1 DEF Dispute!Written, Dispute!MayWrite
  <2>2. /\ e \in DisputeRows /\ e.status = "REVIEWING" /\ e.started /\ e.ended = r.ended
        /\ e.outcome = r.outcome /\ e.reasons = r.reasons
    BY <2>1 DEF DisputeRows
  <2> QED
    BY <1>1, <2>1, <2>2 DEF Told, Dispute!Coherent, Later, DisputeRows
<1>2. CASE kind = "resolve"
  <2>1. PICK o \in {"CONFIRMED", "OVERTURNED"} :
          e = [r EXCEPT !.status = "RESOLVED", !.outcome = o, !.ended = TRUE]
    BY <1>2 DEF Dispute!Written
  <2>2. r.status \in {"OPEN", "REVIEWING"}
    BY <1>2 DEF Dispute!MayWrite
  <2>3. /\ e \in DisputeRows /\ e.status = "RESOLVED" /\ e.outcome = o /\ e.ended
        /\ e.started = r.started /\ e.reasons = r.reasons
    BY <2>1 DEF DisputeRows
  <2> QED
    BY <1>2, <2>2, <2>3 DEF Told, Dispute!Coherent, Later, DisputeRows, NoneApart
<1>3. CASE kind = "reject"
  <2>1. e = [r EXCEPT !.status = "REJECTED", !.ended = TRUE, !.reasons = @ \union {"rejected"}]
        /\ r.status = "OPEN"
    BY <1>3 DEF Dispute!Written, Dispute!MayWrite
  <2>2. /\ e \in DisputeRows /\ e.status = "REJECTED" /\ e.ended /\ e.outcome = r.outcome
        /\ e.started = r.started /\ e.reasons = r.reasons \union {"rejected"}
    BY <2>1 DEF DisputeRows
  <2> QED
    BY <1>3, <2>1, <2>2 DEF Told, Dispute!Coherent, Later, DisputeRows
<1>4. CASE kind = "expire"
  <2>1. e = [r EXCEPT !.ended = TRUE, !.reasons = @ \union {"expired"}]
        /\ r.status \in {"OPEN", "REVIEWING"}
    BY <1>4 DEF Dispute!Written, Dispute!MayWrite
  <2>2. /\ e \in DisputeRows /\ e.status = r.status /\ e.ended /\ e.outcome = r.outcome
        /\ e.started = r.started /\ e.reasons = r.reasons \union {"expired"}
    BY <2>1 DEF DisputeRows
  <2> QED
    BY <1>4, <2>1, <2>2 DEF Told, Dispute!Coherent, Later, DisputeRows
<1> QED
  BY <1>1, <1>2, <1>3, <1>4 DEF Transitions

LEMMA LaterIsTransitive ==
  ASSUME NEW r \in DisputeRows, NEW s \in DisputeRows, NEW t \in DisputeRows, Later(r, s), Later(s, t)
  PROVE  Later(r, t)
BY DEF Later, DisputeRows

LEMMA LaterIsReflexive ==
  ASSUME NEW r \in DisputeRows
  PROVE  Later(r, r)
BY DEF Later

\* Two rows each of which may follow the other are the same.
LEMMA LaterIsAntisymmetric ==
  ASSUME NEW r \in DisputeRows, NEW s \in DisputeRows, Later(r, s), Later(s, r)
  PROVE  r = s
<1>1. CASE r.status \in {"RESOLVED", "REJECTED"} \/ s.status \in {"RESOLVED", "REJECTED"}
  BY <1>1 DEF Later
<1>2. CASE r.status \in {"OPEN", "REVIEWING"} /\ s.status \in {"OPEN", "REVIEWING"}
  <2>1. /\ r.status = s.status /\ r.outcome = s.outcome /\ r.reasons = s.reasons
        /\ r.started = s.started /\ r.ended = s.ended
    BY <1>2 DEF Later, DisputeRows
  <2> QED
    BY <2>1 DEF DisputeRows
<1> QED
  BY <1>1, <1>2 DEF DisputeRows

\* What save makes of a row.
LEMMA MergeIsARow ==
  ASSUME NEW e \in DisputeRows, NEW fields, NEW r \in DisputeRows, NEW m, m = Dispute!Merge(e, fields, r)
  PROVE  m \in DisputeRows /\ m.status = IF "status" \in fields THEN e.status ELSE r.status
<1>1. m = [f \in DisputeColumns |-> IF f \in fields THEN e[f] ELSE r[f]]
  BY OpenedIsARow DEF Dispute!Merge
<1>2. m \in DisputeRows
  BY <1>1 DEF DisputeRows, DisputeColumns
<1>3. m.status = IF "status" \in fields THEN e.status ELSE r.status
  BY <1>1 DEF DisputeColumns
<1> QED
  BY <1>2, <1>3

LEMMA MergeIsTheEntity ==
  ASSUME NEW e \in DisputeRows, NEW r \in DisputeRows, NEW kind \in Transitions, kind = "expire" => e.status = r.status
  PROVE  Dispute!Merge(e, Dispute!Differing(kind, e, r), r) = e
<1>1. \A f \in DisputeColumns : (IF f \in Dispute!Differing(kind, e, r) THEN e[f] ELSE r[f]) = e[f]
  BY OpenedIsARow DEF Dispute!Differing, DisputeColumns
<1>2. Dispute!Merge(e, Dispute!Differing(kind, e, r), r) = [f \in DisputeColumns |-> e[f]]
  BY <1>1, OpenedIsARow DEF Dispute!Merge
<1> QED
  BY <1>2 DEF DisputeRows, DisputeColumns

-----------------------------------------------------------------------------
(* The steps.                                                              *)

\* A step of c that leaves the rows alone and c the request q.
LEMMA DisputeCallStep ==
  ASSUME DisputeInv, NEW c \in Calls, NEW q \in DisputeCalls, disputeCall' = [disputeCall EXCEPT ![c] = q],
         UNCHANGED <<dispute, overlaid, crowded>>, recent' = recent,
         SeesDispute(q), CreatesDispute(q), q.of \in Dispute!Stored \union {None},
         q.kind = "create" /\ q.pc \notin {"idle", "done"} => c \in Dispute!Creating
  PROVE  DisputeInv'
<1>1. disputeCall' \in [Calls -> DisputeCalls] /\ disputeCall'[c] = q /\ \A d \in Calls \ {c} : disputeCall'[d] = disputeCall[d]
  BY DEF DisputeInv
<1>2. Dispute!Stored' = Dispute!Stored /\ OpenDisputes' = OpenDisputes /\ \A query : Dispute!Conflicts(query)' <=> Dispute!Conflicts(query)
  BY DEF Dispute!Stored, OpenDisputes, Dispute!Conflicts
<1>3. ASSUME NEW d \in Calls
      PROVE  (SeesDispute(disputeCall[d]) /\ CreatesDispute(disputeCall[d]) /\ disputeCall[d].of \in Dispute!Stored \union {None})'
  <2>1. PICK p \in DisputeCalls : p = disputeCall'[d] /\ SeesDispute(p) /\ CreatesDispute(p) /\ p.of \in Dispute!Stored \union {None}
    BY <1>1 DEF DisputeInv
  <2>2. SeesDispute(p)'
    BY <1>2, <2>1 DEF SeesDispute
  <2>3. CreatesDispute(p)'
    BY <1>2, <2>1 DEF CreatesDispute
  <2> QED
    BY <1>2, <2>1, <2>2, <2>3
<1>4. Dispute!Creating' \subseteq Dispute!Creating
  BY <1>1 DEF Dispute!Creating
<1> QED
  BY <1>1, <1>2, <1>3, <1>4 DEF DisputeInv, AtMostOne

LEMMA DoneIsACall ==
  /\ Dispute!Idle \in DisputeCalls /\ Dispute!Done \in DisputeCalls
  /\ Dispute!Idle.pc = "idle" /\ Dispute!Done.pc = "done" /\ Dispute!Idle.kind = "none" /\ Dispute!Done.kind = "none"
  /\ Dispute!Idle.of = None /\ Dispute!Done.of = None /\ Dispute!Idle.asked = {} /\ ~Dispute!Idle.refused
BY OpenedIsARow DEF Dispute!Idle, Dispute!Done, DisputeCalls, Transitions

\* A call that is over, or breaks off.
LEMMA DisputeOverStep ==
  ASSUME DisputeInv, NEW c \in Calls, Dispute!To(c, Dispute!Done), UNCHANGED <<dispute, recent, overlaid, crowded>>
  PROVE  DisputeInv'
<1>1. PICK q \in DisputeCalls : q = Dispute!Done /\ q.pc = "done" /\ q.kind = "none" /\ q.of = None
  BY DoneIsACall
<1>2. SeesDispute(q) /\ CreatesDispute(q)
  BY <1>1 DEF SeesDispute, CreatesDispute
<1> QED
  BY <1>1, <1>2, DisputeCallStep DEF Dispute!To

LEMMA BeginCreateStep ==
  ASSUME DisputeInv, NEW c \in Calls, Dispute!BeginCreate(c)
  PROVE  DisputeInv'
<1> DEFINE k == [Dispute!Idle EXCEPT !.kind = "create", !.pc = "check"]
<1>1. k \in DisputeCalls /\ k.pc = "check" /\ k.kind = "create" /\ k.of = None /\ k.asked = {} /\ ~k.refused
  BY DoneIsACall DEF DisputeCalls
<1>2. disputeCall' = [disputeCall EXCEPT ![c] = k]
  BY DEF Dispute!BeginCreate, Dispute!To
<1> HIDE DEF k
<1>3. disputeCall' \in [Calls -> DisputeCalls] /\ disputeCall'[c] = k /\ \A d \in Calls \ {c} : disputeCall'[d] = disputeCall[d]
  BY <1>1, <1>2 DEF DisputeInv
<1>4. /\ UNCHANGED <<dispute, recent, overlaid>> /\ crowded' = (crowded \/ Dispute!Creating # {})
      /\ crowded' \in BOOLEAN /\ (~crowded' => ~crowded /\ Dispute!Creating = {})
  BY DEF Dispute!BeginCreate, DisputeInv
<1>5. Dispute!Stored' = Dispute!Stored /\ OpenDisputes' = OpenDisputes /\ \A query : Dispute!Conflicts(query)' <=> Dispute!Conflicts(query)
  BY <1>4 DEF Dispute!Stored, OpenDisputes, Dispute!Conflicts
<1>6. ASSUME NEW d \in Calls
      PROVE  (SeesDispute(disputeCall[d]) /\ CreatesDispute(disputeCall[d]) /\ disputeCall[d].of \in Dispute!Stored \union {None})'
  <2>1. CASE d = c
    BY <1>1, <1>3, <1>4, <1>5, <2>1 DEF SeesDispute, CreatesDispute
  <2>2. CASE d # c
    <3>1. PICK p \in DisputeCalls : p = disputeCall'[d] /\ p = disputeCall[d] /\ SeesDispute(p) /\ CreatesDispute(p) /\ p.of \in Dispute!Stored \union {None}
      BY <1>3, <2>2 DEF DisputeInv
    <3>2. SeesDispute(p)'
      BY <1>4, <1>5, <3>1 DEF SeesDispute
    <3>3. CreatesDispute(p)'
      BY <1>4, <1>5, <3>1 DEF CreatesDispute
    <3> QED
      BY <1>5, <3>1, <3>2, <3>3
  <2> QED
    BY <2>1, <2>2
<1>7. ~crowded' => Dispute!Creating' \subseteq {c}
  BY <1>3, <1>4 DEF Dispute!Creating
<1> QED
  BY <1>3, <1>4, <1>5, <1>6, <1>7 DEF DisputeInv, AtMostOne

LEMMA SearchStep ==
  ASSUME DisputeInv, NEW c \in Calls, NEW query \in {"open", "recent"}, Dispute!Search(c, query)
  PROVE  DisputeInv'
<1> DEFINE k == [disputeCall[c] EXCEPT !.asked = @ \union {query}, !.refused = @ \/ Dispute!Conflicts(query)]
<1>1. /\ disputeCall[c] \in DisputeCalls /\ disputeCall[c].pc = "check" /\ disputeCall[c].kind = "create"
      /\ CreatesDispute(disputeCall[c]) /\ disputeCall[c].of \in Dispute!Stored \union {None}
  BY DEF Dispute!Search, DisputeInv, CreatesDispute
<1>2. Dispute!Conflicts(query) \in BOOLEAN
  BY DEF Dispute!Conflicts
<1>3. /\ k \in DisputeCalls /\ k.pc = "check" /\ k.kind = "create" /\ k.of = disputeCall[c].of
      /\ k.asked = disputeCall[c].asked \union {query} /\ (k.refused <=> disputeCall[c].refused \/ Dispute!Conflicts(query))
  BY <1>1, <1>2 DEF DisputeCalls
<1>4. Dispute!To(c, IF k.asked # {"open", "recent"} THEN k
            ELSE IF k.refused THEN Dispute!Done ELSE [k EXCEPT !.pc = "insert"])
  BY DEF Dispute!Search
<1>5. UNCHANGED <<dispute, recent, overlaid, crowded>> /\ c \in Dispute!Creating
  BY <1>1 DEF Dispute!Search, Dispute!Creating
<1> HIDE DEF k
<1>6. ~crowded /\ ~k.refused => \A other \in k.asked : ~Dispute!Conflicts(other)
  BY <1>1, <1>3 DEF CreatesDispute
<1>7. CASE k.asked # {"open", "recent"}
  <2>1. SeesDispute(k) /\ CreatesDispute(k)
    BY <1>3, <1>6 DEF SeesDispute, CreatesDispute
  <2>2. disputeCall' = [disputeCall EXCEPT ![c] = k]
    BY <1>4, <1>7 DEF Dispute!To
  <2> QED
    BY <1>1, <1>3, <1>5, <2>1, <2>2, DisputeCallStep
<1>8. CASE k.asked = {"open", "recent"} /\ k.refused
  BY <1>4, <1>5, <1>8, DisputeOverStep
<1>9. CASE k.asked = {"open", "recent"} /\ ~k.refused
  <2> DEFINE q == [k EXCEPT !.pc = "insert"]
  <2>1. q \in DisputeCalls /\ q.pc = "insert" /\ q.kind = "create" /\ q.of = disputeCall[c].of
    BY <1>3 DEF DisputeCalls
  <2>2. disputeCall' = [disputeCall EXCEPT ![c] = q]
    BY <1>4, <1>9 DEF Dispute!To
  <2> HIDE DEF q
  <2>3. SeesDispute(q) /\ CreatesDispute(q)
    BY <1>6, <1>9, <2>1 DEF SeesDispute, CreatesDispute
  <2> QED
    BY <1>1, <1>5, <2>1, <2>2, <2>3, DisputeCallStep
<1> QED
  BY <1>7, <1>8, <1>9

\* The searches of a creation that was alone found nothing, so the dispute it
\* inserts is the only open one and the only recent one.
LEMMA InsertDisputeStep ==
  ASSUME NoneApart, DisputeInv, NEW c \in Calls, Dispute!Insert(c)
  PROVE  DisputeInv'
<1>1. PICK d \in Disputes : /\ d \notin Dispute!Stored
                            /\ dispute' = [dispute EXCEPT ![d] = Dispute!Opened]
                            /\ recent' = recent \union {d}
  BY DEF Dispute!Insert, Dispute!NextId
<1>2. Dispute!Opened \in DisputeRows /\ Dispute!Opened # None /\ Dispute!Opened.status = "OPEN" /\ Told(Dispute!Opened)
  BY OpenedIsARow DEF NoneApart
<1>3. disputeCall' = [disputeCall EXCEPT ![c] = Dispute!Done] /\ UNCHANGED <<overlaid, crowded>> /\ disputeCall[c].pc = "insert"
  BY DEF Dispute!Insert, Dispute!To
<1>4. disputeCall' \in [Calls -> DisputeCalls] /\ disputeCall'[c] = Dispute!Done /\ \A f \in Calls \ {c} : disputeCall'[f] = disputeCall[f]
  BY <1>3, DoneIsACall DEF DisputeInv
<1>5. /\ dispute' \in [Disputes -> DisputeRows \union {None}]
      /\ dispute'[d] = Dispute!Opened /\ \A e \in Disputes \ {d} : dispute'[e] = dispute[e]
  BY <1>1, <1>2 DEF DisputeInv
<1>6. Dispute!Stored' = Dispute!Stored \union {d} /\ OpenDisputes' = OpenDisputes \union {d}
  BY <1>2, <1>5 DEF Dispute!Stored, OpenDisputes
<1>7. CreatesDispute(disputeCall[c]) /\ c \in Dispute!Creating
  BY <1>3 DEF DisputeInv, CreatesDispute, Dispute!Creating
<1>8. ~crowded => recent = {} /\ OpenDisputes = {}
  BY <1>3, <1>7 DEF CreatesDispute, Dispute!Conflicts, OpenDisputes
<1>9. ~crowded => AtMostOne(Dispute!Creating)' /\ AtMostOne(recent)' /\ AtMostOne(OpenDisputes)'
  <2>1. ~crowded => recent' = {d} /\ OpenDisputes' = {d}
    BY <1>1, <1>6, <1>8
  <2>2. Dispute!Creating' \subseteq Dispute!Creating
    BY <1>4, DoneIsACall DEF Dispute!Creating
  <2> QED
    BY <2>1, <2>2 DEF DisputeInv, AtMostOne
<1>10. ASSUME NEW f \in Calls
       PROVE  (SeesDispute(disputeCall[f]) /\ CreatesDispute(disputeCall[f]) /\ disputeCall[f].of \in Dispute!Stored \union {None})'
  <2>1. CASE f = c
    BY <1>4, <2>1, DoneIsACall DEF SeesDispute, CreatesDispute
  <2>2. CASE f # c
    <3>1. PICK p \in DisputeCalls : p = disputeCall'[f] /\ p = disputeCall[f] /\ SeesDispute(p) /\ CreatesDispute(p) /\ p.of \in Dispute!Stored \union {None}
      BY <1>4, <2>2 DEF DisputeInv
    <3>2. SeesDispute(p)'
      BY <1>1, <1>3, <1>5, <1>6, <3>1 DEF SeesDispute, Dispute!Stored
    <3>3. ~crowded => p.pc \notin {"check", "insert"}
      BY <1>7, <2>2, <3>1 DEF DisputeInv, AtMostOne, Dispute!Creating, CreatesDispute
    <3>4. CreatesDispute(p)'
      BY <1>3, <3>1, <3>3 DEF CreatesDispute
    <3> QED
      BY <1>6, <3>1, <3>2, <3>4
  <2> QED
    BY <2>1, <2>2
<1>11. \A e \in (Dispute!Stored \ overlaid)' : Told(dispute'[e])
  BY <1>2, <1>3, <1>5, <1>6 DEF DisputeInv, Dispute!Stored
<1> QED
  BY <1>1, <1>3, <1>4, <1>5, <1>6, <1>9, <1>10, <1>11 DEF DisputeInv

LEMMA FindDisputeStep ==
  ASSUME NoneApart, DisputeInv, NEW c \in Calls, NEW kind \in Transitions, NEW d \in Disputes, Dispute!Find(c, kind, d)
  PROVE  DisputeInv'
<1>1. UNCHANGED <<dispute, recent, overlaid, crowded>> /\ d \in Dispute!Stored /\ dispute[d] \in DisputeRows
  BY DEF Dispute!Find, DisputeInv, Dispute!Stored
<1>2. CASE ~Dispute!MayWrite(kind, dispute[d])
  BY <1>1, <1>2, DisputeOverStep DEF Dispute!Find
<1>3. CASE Dispute!MayWrite(kind, dispute[d])
  <2>1. PICK e \in Dispute!Written(kind, dispute[d]) :
          Dispute!To(c, [Dispute!Idle EXCEPT !.kind = kind, !.of = d, !.pc = "compare", !.base = dispute[d], !.copy = e])
    BY <1>3 DEF Dispute!Find
  <2>2. e \in DisputeRows
    BY <1>1, <1>3, WrittenIsLater
  <2> DEFINE q == [Dispute!Idle EXCEPT !.kind = kind, !.of = d, !.pc = "compare", !.base = dispute[d], !.copy = e]
  <2>3. /\ q \in DisputeCalls /\ q.kind = kind /\ q.of = d /\ q.pc = "compare"
        /\ q.base = dispute[d] /\ q.copy = e
    BY <1>1, <2>2, DoneIsACall DEF DisputeCalls
  <2>4. disputeCall' = [disputeCall EXCEPT ![c] = q]
    BY <2>1 DEF Dispute!To
  <2> HIDE DEF q
  <2>5. SeesDispute(q)
    BY <1>1, <1>3, <2>1, <2>3, LaterIsReflexive DEF SeesDispute, DisputeInv
  <2>6. CreatesDispute(q) /\ q.kind # "create"
    BY <2>3 DEF CreatesDispute, Transitions
  <2> QED
    BY <1>1, <2>3, <2>4, <2>5, <2>6, DisputeCallStep
<1> QED
  BY <1>2, <1>3

LEMMA CompareDisputeStep ==
  ASSUME DisputeInv, NEW c \in Calls, Dispute!Compare(c)
  PROVE  DisputeInv'
<1>1. /\ UNCHANGED <<dispute, recent, overlaid, crowded>> /\ disputeCall[c] \in DisputeCalls /\ disputeCall[c].pc = "compare"
      /\ SeesDispute(disputeCall[c]) /\ CreatesDispute(disputeCall[c])
  BY DEF Dispute!Compare, DisputeInv
<1>2. PICK x \in DisputeRows : x = dispute[disputeCall[c].of] /\ disputeCall[c].of \in Dispute!Stored /\ disputeCall[c].kind \in Transitions
  BY <1>1 DEF SeesDispute, DisputeInv, Dispute!Stored
<1> DEFINE q == [disputeCall[c] EXCEPT !.changes = Dispute!Differing(disputeCall[c].kind, disputeCall[c].copy, x), !.pc = "update"]
<1>3. Dispute!Differing(disputeCall[c].kind, disputeCall[c].copy, x) \subseteq DisputeColumns
  BY OpenedIsARow DEF Dispute!Differing
<1>4. /\ q \in DisputeCalls /\ q.kind = disputeCall[c].kind /\ q.of = disputeCall[c].of /\ q.pc = "update"
      /\ q.base = disputeCall[c].base /\ q.copy = disputeCall[c].copy
      /\ q.changes = Dispute!Differing(disputeCall[c].kind, disputeCall[c].copy, x)
  BY <1>1, <1>3 DEF DisputeCalls
<1>5. disputeCall' = [disputeCall EXCEPT ![c] = q]
  BY <1>2 DEF Dispute!Compare, Dispute!To
<1> HIDE DEF q
<1>6. SeesDispute(q)
  BY <1>1, <1>2, <1>4, LaterIsReflexive DEF SeesDispute
<1>7. CreatesDispute(q) /\ q.kind # "create"
  BY <1>2, <1>4 DEF CreatesDispute, Transitions
<1> QED
  BY <1>1, <1>2, <1>4, <1>5, <1>6, <1>7, DisputeCallStep

\* What an UPDATE does to its row: typed, it never opens it again, and where
\* nobody wrote over another's work it takes the row on.
LEMMA UpdateDisputeWrites ==
  ASSUME NoneApart, DisputeInv, NEW c \in Calls, Dispute!Update(c)
  PROVE  LET d == disputeCall[c].of
         IN  /\ d \in Dispute!Stored /\ dispute[d] \in DisputeRows /\ overlaid' \subseteq overlaid \union {d}
             /\ overlaid \subseteq overlaid'
             /\ dispute' = [dispute EXCEPT ![d] = dispute'[d]] /\ dispute'[d] \in DisputeRows
             /\ dispute'[d].status = "OPEN" => dispute[d].status = "OPEN"
             /\ d \notin overlaid' =>
                  /\ Told(dispute'[d]) /\ Later(dispute[d], dispute'[d])
                  /\ dispute[d].status \in {"OPEN", "REVIEWING"}
<1> DEFINE d == disputeCall[c].of
           kind == disputeCall[c].kind
           e == disputeCall[c].copy
           b == disputeCall[c].base
<1>1. disputeCall[c] \in DisputeCalls /\ disputeCall[c].pc = "update" /\ SeesDispute(disputeCall[c])
  BY DEF Dispute!Update, DisputeInv
<1>2. /\ kind \in Transitions /\ d \in Dispute!Stored /\ d \in Disputes /\ b \in DisputeRows /\ dispute[d] \in DisputeRows
      /\ Dispute!MayWrite(kind, b) /\ e \in Dispute!Written(kind, b)
  BY <1>1 DEF SeesDispute, DisputeInv, Dispute!Stored, DisputeCalls
<1>3. PICK x \in DisputeRows :
        /\ disputeCall[c].changes = Dispute!Differing(kind, e, x)
        /\ d \notin overlaid => Later(b, x) /\ Later(x, dispute[d])
  BY <1>1 DEF SeesDispute
<1>4. /\ e \in DisputeRows
      /\ kind # "expire" => e.status # "OPEN"
      /\ kind = "expire" => e.status = b.status
      /\ Told(b) => Told(e) /\ Later(b, e)
  BY <1>2, WrittenIsLater
<1>5. /\ dispute' = [dispute EXCEPT ![d] = Dispute!Merge(e, Dispute!Differing(kind, e, x), dispute[d])]
      /\ overlaid' = IF dispute[d] # b THEN overlaid \union {d} ELSE overlaid
  BY <1>3 DEF Dispute!Update
<1>6. dispute'[d] = Dispute!Merge(e, Dispute!Differing(kind, e, x), dispute[d])
  BY <1>2, <1>5 DEF DisputeInv
<1>7. dispute'[d] \in DisputeRows /\ (dispute'[d].status = "OPEN" => dispute[d].status = "OPEN")
  <2>0. PICK r \in DisputeRows : r = dispute[d]
    BY <1>2
  <2>1. PICK m, fields : m = dispute'[d] /\ fields = Dispute!Differing(kind, e, x)
    OBVIOUS
  <2>2. m = Dispute!Merge(e, fields, r)
    BY <1>6, <2>0, <2>1
  <2>3. m \in DisputeRows /\ m.status = IF "status" \in fields THEN e.status ELSE r.status
    BY <1>4, <2>2, MergeIsARow
  <2>4. "status" \in fields => kind # "expire"
    BY <2>1 DEF Dispute!Differing
  <2> QED
    BY <1>4, <2>0, <2>1, <2>3, <2>4
<1>8. ASSUME d \notin overlaid'
      PROVE  /\ Told(dispute'[d]) /\ Later(dispute[d], dispute'[d])
             /\ dispute[d].status \in {"OPEN", "REVIEWING"}
  <2>1. dispute[d] = b /\ d \notin overlaid
    BY <1>5, <1>8
  <2>2. x = b
    BY <1>2, <1>3, <2>1, LaterIsAntisymmetric
  <2>3. dispute'[d] = e
    BY <1>2, <1>4, <1>6, <2>1, <2>2, MergeIsTheEntity
  <2>4. Told(b)
    BY <1>1, <2>1 DEF SeesDispute
  <2>5. b.status \in {"OPEN", "REVIEWING"}
    BY <1>2 DEF Dispute!MayWrite
  <2> QED
    BY <1>4, <2>1, <2>3, <2>4, <2>5
<1> QED
  BY <1>2, <1>5, <1>6, <1>7, <1>8

LEMMA UpdateDisputeStep ==
  ASSUME NoneApart, DisputeInv, NEW c \in Calls, Dispute!Update(c)
  PROVE  DisputeInv'
<1>1. PICK d \in Dispute!Stored : d = disputeCall[c].of
  BY UpdateDisputeWrites
<1>2. /\ dispute[d] \in DisputeRows /\ overlaid' \subseteq overlaid \union {d} /\ overlaid \subseteq overlaid'
      /\ dispute' = [dispute EXCEPT ![d] = dispute'[d]] /\ dispute'[d] \in DisputeRows
      /\ dispute'[d].status = "OPEN" => dispute[d].status = "OPEN"
      /\ d \notin overlaid' => Told(dispute'[d]) /\ Later(dispute[d], dispute'[d])
  BY <1>1, UpdateDisputeWrites
<1>3. UNCHANGED <<recent, crowded>> /\ disputeCall' = [disputeCall EXCEPT ![c] = Dispute!Done]
  BY DEF Dispute!Update, Dispute!To
<1>4. disputeCall' \in [Calls -> DisputeCalls] /\ disputeCall'[c] = Dispute!Done /\ \A f \in Calls \ {c} : disputeCall'[f] = disputeCall[f]
  BY <1>3, DoneIsACall DEF DisputeInv
<1>5. /\ dispute' \in [Disputes -> DisputeRows \union {None}] /\ \A f \in Disputes \ {d} : dispute'[f] = dispute[f]
      /\ d \in Disputes
  BY <1>1, <1>2 DEF DisputeInv, Dispute!Stored
<1>6. Dispute!Stored' = Dispute!Stored /\ OpenDisputes' \subseteq OpenDisputes
  <2>1. Dispute!Stored' = Dispute!Stored
    BY <1>1, <1>2, <1>5 DEF Dispute!Stored, NoneApart
  <2> QED
    BY <1>1, <1>2, <1>5, <2>1 DEF OpenDisputes, Dispute!Stored
<1>7. \A query : Dispute!Conflicts(query)' => Dispute!Conflicts(query)
  BY <1>3, <1>6 DEF Dispute!Conflicts, OpenDisputes
<1>8. ASSUME NEW f \in Calls
      PROVE  (SeesDispute(disputeCall[f]) /\ CreatesDispute(disputeCall[f]) /\ disputeCall[f].of \in Dispute!Stored \union {None})'
  <2>1. CASE f = c
    BY <1>4, <2>1, DoneIsACall DEF SeesDispute, CreatesDispute
  <2>2. CASE f # c
    <3>1. PICK p \in DisputeCalls : p = disputeCall'[f] /\ p = disputeCall[f] /\ SeesDispute(p) /\ CreatesDispute(p) /\ p.of \in Dispute!Stored \union {None}
      BY <1>4, <2>2 DEF DisputeInv
    <3>2. ASSUME NEW x \in DisputeRows, p.of \in Dispute!Stored, p.of \notin overlaid', Later(x, dispute[p.of])
          PROVE  Later(x, dispute'[p.of])
      <4>1. CASE p.of = d
        BY <1>2, <3>2, <4>1, LaterIsTransitive
      <4>2. CASE p.of # d
        BY <1>5, <3>2, <4>2 DEF Dispute!Stored
      <4> QED
        BY <4>1, <4>2
    <3>3. p.base \in DisputeRows
      BY DEF DisputeCalls
    <3>4. SeesDispute(p)'
      BY <1>2, <1>6, <3>1, <3>2, <3>3 DEF SeesDispute
    <3>5. CreatesDispute(p)'
      BY <1>3, <1>7, <3>1 DEF CreatesDispute
    <3> QED
      BY <1>6, <3>1, <3>4, <3>5
  <2> QED
    BY <2>1, <2>2
<1>9. \A f \in (Dispute!Stored \ overlaid)' : Told(dispute'[f])
  BY <1>2, <1>5, <1>6 DEF DisputeInv, Dispute!Stored
<1>10. Dispute!Creating' \subseteq Dispute!Creating
  BY <1>4, DoneIsACall DEF Dispute!Creating
<1>11. overlaid' \subseteq Dispute!Stored
  BY <1>1, <1>2 DEF DisputeInv
<1> QED
  BY <1>3, <1>4, <1>5, <1>6, <1>8, <1>9, <1>10, <1>11 DEF DisputeInv, AtMostOne

LEMMA CoolStep ==
  ASSUME DisputeInv, NEW d \in Disputes, Dispute!Cool(d)
  PROVE  DisputeInv'
<1>1. UNCHANGED <<dispute, disputeCall, overlaid, crowded>> /\ recent' \subseteq recent
  BY DEF Dispute!Cool
<1>2. Dispute!Stored' = Dispute!Stored /\ OpenDisputes' = OpenDisputes /\ Dispute!Creating' = Dispute!Creating /\ \A query : Dispute!Conflicts(query)' => Dispute!Conflicts(query)
  BY <1>1 DEF Dispute!Stored, OpenDisputes, Dispute!Conflicts, Dispute!Creating
<1>3. ASSUME NEW c \in Calls
      PROVE  (SeesDispute(disputeCall[c]) /\ CreatesDispute(disputeCall[c]) /\ disputeCall[c].of \in Dispute!Stored \union {None})'
  <2>1. PICK p \in DisputeCalls : p = disputeCall'[c] /\ p = disputeCall[c] /\ SeesDispute(p) /\ CreatesDispute(p) /\ p.of \in Dispute!Stored \union {None}
    BY <1>1 DEF DisputeInv
  <2>2. SeesDispute(p)' /\ CreatesDispute(p)'
    BY <1>1, <1>2, <2>1 DEF SeesDispute, CreatesDispute
  <2> QED
    BY <1>2, <2>1, <2>2
<1> QED
  BY <1>1, <1>2, <1>3 DEF DisputeInv, AtMostOne

-----------------------------------------------------------------------------
(* A behaviour of the services is one of each service.                     *)

LEMMA EachStarts ==
  ServicesInit => /\ Init /\ Dispute!Init /\ Config!ConfigInit /\ Admin!AdminInit /\ Identity!IdentityInit
                  /\ Records!RecordsInit /\ Jobs!JobsInit /\ Rpc!RpcInit
BY DEF ServicesInit

LEMMA EachSteps ==
  [ServicesNext]_<<scope, governanceVars, disputeVars, configVars, adminVars, identityVars, recordVars, jobsVars, rpcVars>> =>
    /\ [Next]_vars /\ [Dispute!Next]_disputeVars /\ [Config!ConfigNext]_configVars /\ [Admin!AdminNext]_adminVars
    /\ [Identity!IdentityNext]_identityVars /\ [Records!RecordsNext]_recordVars
    /\ [Jobs!JobsNext]_jobsVars /\ [Rpc!RpcNext]_rpcVars
BY DEF ServicesNext, Identity!IdentityNext, governanceVars

\* Whichever service runs, the proposal and its calls do what GovernanceVoting
\* allows.
THEOREM ServicesImplementGovernance == ServicesSpec => Spec
BY EachStarts, EachSteps, PTL DEF ServicesSpec, Spec

\* All that is proved of governance holds where its run checks it, next to the
\* other services.
THEOREM ServicesKeepGovernance ==
  ServicesSpec => []Inv /\ []NeverOvercounted /\ []ExecutedWasPassed /\ []CountsExactUnlessStale
                  /\ TerminalUnlessStale
BY ServicesImplementGovernance, GovernanceInvariant, GovernanceNeverOvercounts, GovernanceExecutesPassed,
   GovernanceCountsExact, GovernanceTerminal, PTL

-----------------------------------------------------------------------------
(* The theorems.                                                           *)

LEMMA DisputeInit ==
  ASSUME Dispute!Init
  PROVE  DisputeInv
<1>1. Dispute!Stored = {} /\ recent = {} /\ overlaid = {} /\ crowded = FALSE
  BY DEF Dispute!Init, Dispute!Stored
<1>2. Dispute!Creating = {} /\ OpenDisputes = {}
  BY <1>1, DoneIsACall DEF Dispute!Init, Dispute!Creating, OpenDisputes
<1>3. dispute \in [Disputes -> DisputeRows \union {None}] /\ disputeCall \in [Calls -> DisputeCalls]
  BY DoneIsACall DEF Dispute!Init
<1>4. \A c \in Calls : SeesDispute(disputeCall[c]) /\ CreatesDispute(disputeCall[c]) /\ disputeCall[c].of = None
  BY DoneIsACall DEF Dispute!Init, SeesDispute, CreatesDispute
<1> QED
  BY <1>1, <1>2, <1>3, <1>4 DEF DisputeInv, AtMostOne

LEMMA DisputeStep ==
  ASSUME NoneApart, DisputeInv, [Dispute!Next]_disputeVars
  PROVE  DisputeInv'
<1>1. ASSUME NEW c \in Calls, Dispute!Fail(c) PROVE DisputeInv'
  BY <1>1, DisputeOverStep DEF Dispute!Fail
<1>2. ASSUME NEW c \in Calls,
             \/ Dispute!BeginCreate(c) \/ Dispute!Insert(c) \/ Dispute!Compare(c) \/ Dispute!Update(c) \/ Dispute!Fail(c)
             \/ \E query \in {"open", "recent"} : Dispute!Search(c, query)
             \/ \E kind \in Transitions, d \in Disputes : Dispute!Find(c, kind, d)
      PROVE  DisputeInv'
  BY <1>1, <1>2, BeginCreateStep, InsertDisputeStep, CompareDisputeStep, UpdateDisputeStep, SearchStep, FindDisputeStep
<1>3. CASE \E d \in Disputes : Dispute!Cool(d)
  BY <1>3, CoolStep
<1>4. CASE UNCHANGED disputeVars
  <2>1. UNCHANGED <<Dispute!Stored, OpenDisputes, Dispute!Creating>> /\ \A query : Dispute!Conflicts(query)' <=> Dispute!Conflicts(query)
    BY <1>4 DEF disputeVars, Dispute!Stored, OpenDisputes, Dispute!Creating, Dispute!Conflicts
  <2>2. ASSUME NEW c \in Calls PROVE (SeesDispute(disputeCall[c]) /\ CreatesDispute(disputeCall[c]))'
    <3>1. PICK p \in DisputeCalls : p = disputeCall'[c] /\ SeesDispute(p) /\ CreatesDispute(p)
      BY <1>4 DEF DisputeInv, disputeVars
    <3>2. SeesDispute(p)' /\ CreatesDispute(p)'
      BY <1>4, <2>1, <3>1 DEF SeesDispute, CreatesDispute, disputeVars
    <3> QED
      BY <3>1, <3>2
  <2> QED
    BY <1>4, <2>1, <2>2 DEF DisputeInv, AtMostOne, disputeVars
<1> QED
  BY <1>2, <1>3, <1>4 DEF Dispute!Next, Transitions

LEMMA DisputeAlways ==
  ASSUME NoneApart
  PROVE  ServicesSpec => []DisputeInv
<1>1. Dispute!Init => DisputeInv
  BY DisputeInit
<1>2. DisputeInv /\ [Dispute!Next]_disputeVars => DisputeInv'
  BY DisputeStep
<1> QED
  BY <1>1, <1>2, EachStarts, EachSteps, PTL DEF ServicesSpec

\* The instance counts as its user does.
LEMMA SameCount == ASSUME NEW S PROVE Dispute!Cardinality(S) = Cardinality(S)
BY DEF Dispute!Cardinality, Cardinality

LEMMA AtMostOneCounts ==
  ASSUME NEW S, AtMostOne(S)
  PROVE  Dispute!Cardinality(S) <= 1
<1>1. CASE S = {}
  BY <1>1, FS_EmptySet, SameCount
<1>2. CASE S # {}
  <2>1. PICK d \in S : S = {d}
    BY <1>2 DEF AtMostOne
  <2> QED
    BY <2>1, FS_Singleton, SameCount
<1> QED
  BY <1>1, <1>2

\* However many creations, reviews, decisions and expiries of DisputeService
\* overlap and break off, the columns of a dispute tell one story unless a call
\* wrote over another's work, and a claim has one open and one recent dispute
\* unless two creations were under way at once.
THEOREM DisputesKeepInvariant ==
  ASSUME NoneApart
  PROVE  ServicesSpec => []DisputesCoherent
<1>1. DisputeInv => DisputesCoherent
  <2> SUFFICES ASSUME DisputeInv PROVE Dispute!Inv
    BY DEF DisputesCoherent
  <2>1. Dispute!TypeOK
    BY OpenedIsARow DEF DisputeInv, Dispute!TypeOK, DisputeRows, DisputeCalls, Dispute!Stored
  <2>2. Dispute!CoherentUnlessOverlaid
    BY DEF DisputeInv, Dispute!CoherentUnlessOverlaid, Told
  <2>3. Dispute!OneAtATimeUnlessCrowded
    BY AtMostOneCounts DEF DisputeInv, Dispute!OneAtATimeUnlessCrowded, OpenDisputes
  <2> QED
    BY <2>1, <2>2, <2>3 DEF Dispute!Inv
<1> QED
  BY <1>1, DisputeAlways, PTL

\* A dispute never opens again, and a decision changes only when a call writes
\* over another's work.
THEOREM DecisionsStand ==
  ASSUME NoneApart
  PROVE  ServicesSpec => DecisionStands
<1> DEFINE Stands == \A d \in Dispute!Stored :
             /\ dispute'[d].status = "OPEN" => dispute[d].status = "OPEN"
             /\ dispute[d].status \in {"RESOLVED", "REJECTED"} /\ dispute'[d] # dispute[d] => d \in overlaid'
<1>1. ASSUME DisputeInv, [Dispute!Next]_disputeVars PROVE [Stands]_disputeVars
  <2>1. CASE dispute' = dispute
    BY <2>1
  <2>2. CASE \E c \in Calls : Dispute!Insert(c)
    <3>1. PICK d \in Disputes : d \notin Dispute!Stored /\ dispute' = [dispute EXCEPT ![d] = Dispute!Opened]
      BY <2>2 DEF Dispute!Insert, Dispute!NextId
    <3> QED
      BY <1>1, <3>1 DEF DisputeInv, Dispute!Stored
  <2>3. CASE \E c \in Calls : Dispute!Update(c)
    <3>1. PICK c \in Calls : Dispute!Update(c)
      BY <2>3
    <3>2. PICK d \in Dispute!Stored : d = disputeCall[c].of
      BY <1>1, <3>1, UpdateDisputeWrites
    <3>3. /\ dispute' = [dispute EXCEPT ![d] = dispute'[d]]
          /\ dispute'[d].status = "OPEN" => dispute[d].status = "OPEN"
          /\ d \notin overlaid' => dispute[d].status \in {"OPEN", "REVIEWING"}
      BY <1>1, <3>1, <3>2, UpdateDisputeWrites
    <3>4. \A e \in Dispute!Stored : e # d => dispute'[e] = dispute[e]
      BY <1>1, <3>3 DEF DisputeInv, Dispute!Stored
    <3> QED
      BY <3>3, <3>4
  <2> QED
    BY <1>1, <2>1, <2>2, <2>3 DEF Dispute!Next, disputeVars, Dispute!BeginCreate, Dispute!Search, Dispute!Find, Dispute!Compare, Dispute!Fail, Dispute!Cool
<1>2. DisputeInv /\ [Dispute!Next]_disputeVars => [Stands]_disputeVars
  BY <1>1
<1> QED
  <2>1. ServicesSpec => [][Stands]_disputeVars
    BY <1>2, EachSteps, DisputeAlways, PTL DEF ServicesSpec
  <2> QED
    BY <2>1 DEF DecisionStands, Dispute!DecisionStands, Dispute!vars, disputeVars

-----------------------------------------------------------------------------
(* Configuration.                                                          *)

Settled == Values \union {Off}
Entries == [id : 1 .. made, version : 1 .. MaxVersion, value : Settled]
ConfigCalls == [kind : {"none", "set", "rollback", "delete", "get"},
                pc : {"idle", "lookup", "find", "update", "create", "record", "delete", "invalidate", "load", "fill", "done"},
                id : Nat, version : Nat, value : Settled \union {None}]

\* There is at least one version, and no value nor row is the absent one.
ConfigApart == MaxVersion \in Nat \ {0} /\ None \notin Settled /\ \A n \in Nat : None \notin [id : 1 .. n, version : 1 .. MaxVersion, value : Settled]

\* What a request knows of the row it is about; a writer that is alone knows
\* its version.
Knows(q) ==
  /\ q.pc \in {"lookup", "find", "update", "create", "record"} => q.kind \in {"set", "rollback"}
  /\ q.pc \in {"find", "update", "create", "record", "fill"} => q.value \in Settled
  /\ q.pc = "update" => q.id \in 1 .. made /\ q.version >= 1
  /\ q.pc = "create" => q.version = 1
  /\ q.pc = "record" => q.id \in 1 .. made /\ q.version \in 1 .. MaxVersion /\ table = "config"
  /\ ~overlap /\ setting # None /\ q.id = setting.id =>
       /\ q.pc = "update" => q.version = setting.version + 1
       /\ q.pc = "record" => setting = Config!Entry(q)

Writes(q) == q.kind \in {"set", "rollback"} /\ q.pc \notin {"idle", "done"}
RecordsFor(q, i) == q.pc = "record" /\ q.id = i
Had(i, v) == \E h \in past : h.id = i /\ h.version = v

\* The row's versions are in the history, without the one being recorded.
InHistory(r) ==
  IF \E c \in Calls : RecordsFor(request[c], r.id)
  THEN \A v \in Nat \ {0} : Had(r.id, v) <=> v < r.version
  ELSE r \in past /\ \A v \in Nat \ {0} : Had(r.id, v) <=> v <= r.version

ConfigTyped ==
  /\ made \in Nat /\ setting \in Entries \union {None} /\ past \subseteq Entries
  /\ cached \in Settled \union {None} /\ request \in [Calls -> ConfigCalls]
  /\ overlap \in BOOLEAN /\ torn \in BOOLEAN /\ missed \in BOOLEAN
EachKnows == \A c \in Calls : Knows(request[c])
AloneUnlessOverlap == ~overlap => \A c, d \in Calls : Writes(request[c]) /\ Writes(request[d]) => c = d
Complete == table = "config" /\ setting # None /\ ~overlap /\ ~torn => InHistory(setting)
CachedFresh == cached # None /\ ~missed /\ (\A c \in Calls : request[c].pc \notin {"record", "invalidate"}) =>
           setting # None /\ cached = setting.value

\* The inductive invariant.
ConfigStrong == ConfigTyped /\ EachKnows /\ AloneUnlessOverlap /\ Complete /\ CachedFresh

-----------------------------------------------------------------------------

LEMMA NoRequestIsOne ==
  /\ Config!NoRequest \in ConfigCalls /\ Config!NoRequest.pc = "idle" /\ Config!NoRequest.kind = "none"
  /\ Config!Answered \in ConfigCalls /\ Config!Answered.pc = "done"
BY DEF Config!NoRequest, Config!Answered, ConfigCalls

\* A request goes on, and nothing is recorded or invalidated by it.
LEMMA RequestGoesOn ==
  ASSUME ConfigStrong, NEW c \in Calls, NEW q \in ConfigCalls,
         request' = [request EXCEPT ![c] = q], UNCHANGED <<table, made, setting, past, torn>>,
         overlap' \in BOOLEAN, overlap => overlap',
         Knows(q)',
         q.pc # "record", request[c].pc # "record",
         ~overlap' => (Writes(q) => Writes(request[c]) \/ \A d \in Calls : ~Writes(request[d])),
         cached' \in Settled \union {None}, missed' \in BOOLEAN,
         cached' # None /\ ~missed' /\ (\A d \in Calls : request'[d].pc \notin {"record", "invalidate"}) =>
           setting # None /\ cached' = setting.value
  PROVE  ConfigStrong'
<1> USE DEF ConfigStrong
<1>1. ConfigTyped'
  BY DEF ConfigTyped, Entries
<1>2. \A d \in Calls : request'[d] = IF d = c THEN q ELSE request[d]
  BY DEF ConfigTyped
<1>3. EachKnows'
  BY <1>2 DEF EachKnows, Knows, Entries
<1>4. AloneUnlessOverlap'
  BY <1>2 DEF AloneUnlessOverlap, Writes
<1>5. Complete'
  BY <1>2 DEF Complete, InHistory, RecordsFor, Had
<1>6. CachedFresh'
  BY DEF CachedFresh
<1> QED
  BY <1>1, <1>3, <1>4, <1>5, <1>6

\* The same without a change of the cache.
LEMMA RequestGoesOnQuietly ==
  ASSUME ConfigStrong, NEW c \in Calls, NEW q \in ConfigCalls,
         request' = [request EXCEPT ![c] = q], UNCHANGED <<table, made, setting, past, torn, cached, missed>>,
         overlap' \in BOOLEAN, overlap => overlap',
         Knows(q)',
         q.pc # "record", request[c].pc \notin {"record", "invalidate"},
         ~overlap' => (Writes(q) => Writes(request[c]) \/ \A d \in Calls : ~Writes(request[d]))
  PROVE  ConfigStrong'
<1>1. \A d \in Calls : request'[d] = IF d = c THEN q ELSE request[d]
  BY DEF ConfigStrong, ConfigTyped
<1>2. cached' \in Settled \union {None} /\ missed' \in BOOLEAN
  BY DEF ConfigStrong, ConfigTyped
<1>3. cached' # None /\ ~missed' /\ (\A d \in Calls : request'[d].pc \notin {"record", "invalidate"}) =>
           setting # None /\ cached' = setting.value
  BY <1>1 DEF ConfigStrong, CachedFresh
<1> QED
  BY <1>2, <1>3, RequestGoesOn

\* What a writer does with the row it found.
LEMMA PlanStep ==
  ASSUME ConfigApart, ConfigStrong, NEW c \in Calls, NEW kind \in {"set", "rollback"}, NEW value \in Settled,
         request' = [request EXCEPT ![c] = Config!Plan(kind, value, setting)],
         UNCHANGED <<table, made, setting, past, torn, cached, missed>>,
         overlap' \in BOOLEAN, overlap => overlap',
         request[c].pc \notin {"record", "invalidate"},
         ~overlap' => Writes(request[c]) \/ \A d \in Calls : ~Writes(request[d])
  PROVE  ConfigStrong'
<1>1. Config!Plan(kind, value, setting) \in ConfigCalls
  BY DEF Config!Plan, ConfigCalls, ConfigStrong, ConfigTyped, Entries, ConfigApart
<1>2. Config!Plan(kind, value, setting).pc \in {"update", "create"} /\ Config!Plan(kind, value, setting).kind = kind
  BY DEF Config!Plan
<1>3. PICK q \in ConfigCalls : q = Config!Plan(kind, value, setting)
  BY <1>1
<1>4. Knows(q)'
  BY <1>2, <1>3 DEF Config!Plan, Knows, ConfigStrong, ConfigTyped, Entries, ConfigApart
<1> QED
  BY <1>2, <1>3, <1>4, RequestGoesOnQuietly

LEMMA FindToSetStep ==
  ASSUME ConfigApart, ConfigStrong, NEW c \in Calls, NEW v \in Values, Config!FindToSet(c, v)
  PROVE  ConfigStrong'
<1>1. /\ request' = [request EXCEPT ![c] = Config!Plan("set", v, setting)]
      /\ UNCHANGED <<table, made, setting, past, torn, cached, missed>>
      /\ request[c] = Config!NoRequest
      /\ overlap' = (overlap \/ Config!Writers # {})
  BY DEF Config!FindToSet, Config!Proceed, Config!Joined
<1>2. overlap' \in BOOLEAN /\ (overlap => overlap') /\ (~overlap' => \A d \in Calls : ~Writes(request[d]))
  BY <1>1 DEF Config!Writers, Writes
<1> QED
  BY <1>1, <1>2, PlanStep, NoRequestIsOne DEF Settled

LEMMA FindToRollBackStep ==
  ASSUME ConfigApart, ConfigStrong, NEW c \in Calls, Config!FindToRollBack(c)
  PROVE  ConfigStrong'
<1>1. /\ request' = [request EXCEPT ![c] = Config!Plan("rollback", request[c].value, setting)]
      /\ UNCHANGED <<table, made, setting, past, torn, cached, missed, overlap>>
      /\ request[c].pc = "find" /\ request[c].value \in Settled /\ request[c].kind \in {"set", "rollback"}
  BY DEF Config!FindToRollBack, Config!Proceed, ConfigStrong, EachKnows, Knows
<1>2. Writes(request[c]) /\ overlap' \in BOOLEAN
  BY <1>1 DEF Writes, ConfigStrong, ConfigTyped
<1> QED
  BY <1>1, <1>2, PlanStep

LEMMA BeginRollbackStep ==
  ASSUME ConfigApart, ConfigStrong, NEW c \in Calls, NEW n \in 1 .. MaxVersion, Config!BeginRollback(c, n)
  PROVE  ConfigStrong'
<1>1. PICK q : /\ q = [kind |-> "rollback", pc |-> IF table = "flag" THEN "find" ELSE "lookup",
                        id |-> setting.id, version |-> n, value |-> Off]
               /\ request' = [request EXCEPT ![c] = q]
      /\ UNCHANGED <<table, made, setting, past, torn, cached, missed>>
      /\ request[c] = Config!NoRequest /\ setting # None
      /\ overlap' = (overlap \/ Config!Writers # {})
  BY DEF Config!BeginRollback, Config!Proceed, Config!Joined
<1>2. overlap' \in BOOLEAN /\ (overlap => overlap') /\ (~overlap' => \A d \in Calls : ~Writes(request[d]))
  BY <1>1 DEF Config!Writers, Writes
<1>3. q \in ConfigCalls /\ q.pc \in {"find", "lookup"} /\ q.kind = "rollback" /\ q.value \in Settled
  BY <1>1 DEF ConfigCalls, ConfigStrong, ConfigTyped, Entries, ConfigApart, Settled
<1>4. Knows(q)'
  BY <1>1, <1>3 DEF Knows
<1> QED
  BY <1>1, <1>2, <1>3, <1>4, RequestGoesOnQuietly, NoRequestIsOne

LEMMA LookUpVersionStep ==
  ASSUME ConfigStrong, NEW c \in Calls, Config!LookUpVersion(c)
  PROVE  ConfigStrong'
<1>1. PICK q : /\ request' = [request EXCEPT ![c] = q]
               /\ q = Config!Answered \/ \E h \in past : q = [request[c] EXCEPT !.pc = "find", !.value = h.value]
  BY DEF Config!LookUpVersion, Config!Proceed
<1>2. UNCHANGED <<table, made, setting, past, torn, cached, missed, overlap>> /\ request[c].pc = "lookup"
  BY DEF Config!LookUpVersion
<1>3. request[c] \in ConfigCalls /\ request[c].kind \in {"set", "rollback"}
  BY <1>2 DEF ConfigStrong, ConfigTyped, EachKnows, Knows
<1>4. /\ q \in ConfigCalls /\ q.pc \in {"find", "done"}
      /\ q.pc = "find" => q.kind = request[c].kind /\ q.value \in Settled
  BY <1>1, <1>3, NoRequestIsOne DEF ConfigCalls, ConfigStrong, ConfigTyped, Entries
<1>5. Knows(q)' /\ overlap' \in BOOLEAN /\ Writes(request[c])
  BY <1>2, <1>3, <1>4 DEF Knows, ConfigStrong, ConfigTyped, Writes
<1> QED
  BY <1>1, <1>2, <1>3, <1>4, <1>5, RequestGoesOnQuietly

\* A row is written: by its writer, which goes on to record or to invalidate.
LEMMA UpdateSettingStep ==
  ASSUME ConfigApart, ConfigStrong, NEW c \in Calls, Config!UpdateSetting(c)
  PROVE  ConfigStrong'
<1> USE DEF ConfigStrong
<1>1. PICK q : /\ q = Config!AfterWrite(request[c]) /\ request' = [request EXCEPT ![c] = q]
               /\ setting' = IF setting # None /\ setting.id = request[c].id THEN Config!Entry(request[c]) ELSE setting
  BY DEF Config!UpdateSetting, Config!Proceed
<1>2. /\ UNCHANGED <<table, made, past, cached, overlap, torn, missed>>
      /\ request[c].pc = "update" /\ request[c].version <= MaxVersion
  BY DEF Config!UpdateSetting
<1>3. /\ request[c] \in ConfigCalls /\ request[c].kind \in {"set", "rollback"} /\ request[c].value \in Settled
      /\ request[c].id \in 1 .. made /\ request[c].version >= 1 /\ request[c].version \in 1 .. MaxVersion
      /\ ~overlap /\ setting # None /\ request[c].id = setting.id => request[c].version = setting.version + 1
      /\ Writes(request[c])
  BY <1>2 DEF ConfigTyped, EachKnows, Knows, ConfigCalls, ConfigApart, Writes
<1>4. /\ q \in ConfigCalls /\ q.pc = IF table = "config" THEN "record" ELSE "invalidate"
      /\ q.kind = request[c].kind /\ q.value = request[c].value /\ q.id = request[c].id
      /\ q.version = request[c].version
  BY <1>1, <1>3 DEF Config!AfterWrite, ConfigCalls
<1>5. Config!Entry(request[c]) \in Entries /\ Config!Entry(q) = Config!Entry(request[c])
  BY <1>3, <1>4 DEF Config!Entry, Entries
<1>6. /\ Config!Entry(q).id = q.id /\ Config!Entry(q).version = q.version
  BY DEF Config!Entry
<1>7. \A d \in Calls : request'[d] = IF d = c THEN q ELSE request[d]
  BY <1>1 DEF ConfigTyped
<1>8. setting' = None <=> setting = None
  BY <1>1, <1>5 DEF ConfigApart, Entries, ConfigTyped
<1>9. setting # None => setting.id \in 1 .. made /\ setting'.id = setting.id
  BY <1>1, <1>5, <1>6, <1>4, <1>8 DEF ConfigTyped, Entries
<1>10. ConfigTyped'
  BY <1>1, <1>2, <1>4, <1>5 DEF ConfigTyped, Entries
<1>11. AloneUnlessOverlap'
  BY <1>2, <1>3, <1>4, <1>7 DEF AloneUnlessOverlap, Writes
<1>12. EachKnows'
  <2>1. Knows(q)'
    BY <1>1, <1>2, <1>3, <1>4, <1>5, <1>8, <1>9 DEF Knows
  <2>2. ASSUME NEW d \in Calls, d # c PROVE Knows(request[d])'
    <3>1. Knows(request[d]) /\ (~overlap => request[d].pc \notin {"update", "record"})
      BY <1>3, <2>2 DEF EachKnows, AloneUnlessOverlap, Knows, Writes
    <3> QED
      BY <3>1, <1>2, <1>7, <1>8, <1>9, <2>2 DEF Knows
  <2> QED
    BY <2>1, <2>2, <1>7 DEF EachKnows
<1>13. Complete'
  <2> SUFFICES ASSUME table = "config", setting' # None, ~overlap, ~torn PROVE InHistory(setting)'
    BY <1>2 DEF Complete
  <2>1. \A d \in Calls : request[d].pc # "record"
    BY <1>2, <1>3 DEF AloneUnlessOverlap, EachKnows, Knows, Writes
  <2>2. InHistory(setting) /\ setting \in past /\ \A v \in Nat \ {0} : Had(setting.id, v) <=> v <= setting.version
    BY <2>1, <1>8 DEF Complete, InHistory, RecordsFor
  <2>3. CASE setting.id = request[c].id
    <3>1. setting' = Config!Entry(q) /\ setting'.version = setting.version + 1 /\ setting'.id = setting.id
      BY <2>3, <1>1, <1>3, <1>4, <1>5, <1>6, <1>8
    <3>2. \A v \in Nat \ {0} : v <= setting.version <=> v < setting'.version
      BY <3>1, <1>8 DEF ConfigTyped, Entries
    <3>3. RecordsFor(request'[c], setting'.id)
      BY <3>1, <1>4, <1>7, <2>3 DEF RecordsFor
    <3> QED
      BY <3>1, <3>2, <3>3, <2>2, <1>2 DEF InHistory, Had
  <2>4. CASE setting.id # request[c].id
    <3>1. setting' = setting /\ \A d \in Calls : ~RecordsFor(request'[d], setting.id)
      BY <2>1, <2>4, <1>1, <1>4, <1>7 DEF RecordsFor
    <3> QED
      BY <3>1, <2>2, <1>2 DEF InHistory, Had
  <2> QED
    BY <2>3, <2>4
<1>14. CachedFresh'
  BY <1>4, <1>7 DEF CachedFresh
<1> QED
  BY <1>10, <1>11, <1>12, <1>13, <1>14

LEMMA CreateSettingStep ==
  ASSUME ConfigApart, ConfigStrong, NEW c \in Calls, Config!CreateSetting(c)
  PROVE  ConfigStrong'
<1> USE DEF ConfigStrong
<1>1. /\ UNCHANGED <<table, past, cached, overlap, torn, missed>> /\ request[c].pc = "create"
      /\ request[c] \in ConfigCalls /\ request[c].kind \in {"set", "rollback"} /\ request[c].value \in Settled
      /\ request[c].version = 1 /\ Writes(request[c]) /\ made \in Nat
  BY DEF Config!CreateSetting, ConfigTyped, EachKnows, Knows, Writes
<1>2. CASE setting # None
  <2>1. request' = [request EXCEPT ![c] = Config!Answered] /\ UNCHANGED <<setting, made>>
    BY <1>2 DEF Config!CreateSetting, Config!Proceed
  <2>2. PICK q \in ConfigCalls : q = Config!Answered /\ q.pc = "done"
    BY NoRequestIsOne
  <2>3. Knows(q)' /\ ~Writes(q) /\ overlap' \in BOOLEAN
    BY <1>1, <2>2 DEF Knows, Writes, ConfigTyped
  <2> QED
    BY <1>1, <2>1, <2>2, <2>3, RequestGoesOnQuietly
<1>3. CASE setting = None
  <2>1. PICK q : /\ q = Config!AfterWrite([request[c] EXCEPT !.id = made + 1])
                 /\ request' = [request EXCEPT ![c] = q]
    BY <1>3 DEF Config!CreateSetting, Config!Proceed
  <2>2. setting' = [id |-> made + 1, version |-> 1, value |-> request[c].value] /\ made' = made + 1
    BY <1>3 DEF Config!CreateSetting
  <2>3. /\ q \in ConfigCalls /\ q.pc = IF table = "config" THEN "record" ELSE "invalidate"
        /\ q.kind = request[c].kind /\ q.value = request[c].value /\ q.id = made + 1
        /\ q.version = 1
    <3> DEFINE r == [request[c] EXCEPT !.id = made + 1]
    <3>1. /\ r \in ConfigCalls /\ r.id = made + 1
          /\ r.kind = request[c].kind /\ r.value = request[c].value /\ r.version = 1
      BY <1>1 DEF ConfigCalls
    <3> HIDE DEF r
    <3>2. q = Config!AfterWrite(r)
      BY <2>1 DEF r
    <3> QED
      BY <3>1, <3>2 DEF Config!AfterWrite, ConfigCalls
  <2>4. setting' \in Entries' /\ setting'.id = made + 1 /\ setting'.version = 1 /\ Config!Entry(q) = setting'
    BY <2>2, <2>3, <1>1 DEF Entries, ConfigApart, Config!Entry
  <2>5. setting' # None
    BY <2>4, <2>2, <1>1 DEF ConfigApart, Entries
  <2>6. \A d \in Calls : request'[d] = IF d = c THEN q ELSE request[d]
    BY <2>1 DEF ConfigTyped
  <2>7. past \subseteq Entries'
    BY <1>1, <2>2 DEF ConfigTyped, Entries
  <2>8. ConfigTyped'
    BY <1>1, <2>1, <2>2, <2>3, <2>4, <2>7 DEF ConfigTyped
  <2>9. AloneUnlessOverlap'
    BY <1>1, <2>3, <2>6 DEF AloneUnlessOverlap, Writes
  <2>10. EachKnows'
    <3>1. Knows(q)'
      BY <1>1, <2>2, <2>3, <2>4 DEF Knows, ConfigApart
    <3>2. ASSUME NEW d \in Calls, d # c PROVE Knows(request[d])'
      <4>1. Knows(request[d]) /\ (~overlap => request[d].pc \notin {"update", "record"})
        BY <1>1, <3>2 DEF EachKnows, AloneUnlessOverlap, Knows, Writes
      <4> QED
        BY <4>1, <1>1, <2>2, <2>6, <3>2 DEF Knows
    <3> QED
      BY <3>1, <3>2, <2>6 DEF EachKnows
  <2>11. Complete'
    <3> SUFFICES ASSUME table = "config", setting' # None, ~overlap, ~torn PROVE InHistory(setting)'
      BY <1>1 DEF Complete
    <3>1. RecordsFor(request'[c], setting'.id)
      BY <2>3, <2>4, <2>6 DEF RecordsFor
    <3>2. (\A h \in past' : h.id # setting'.id) /\ \A v \in Nat \ {0} : ~(v < setting'.version)
      BY <1>1, <2>4 DEF ConfigTyped, Entries
    <3> QED
      BY <3>1, <3>2 DEF InHistory, Had
  <2>12. CachedFresh'
    BY <2>3, <2>6 DEF CachedFresh
  <2> QED
    BY <2>8, <2>9, <2>10, <2>11, <2>12
<1> QED
  BY <1>2, <1>3

\* The entry of a writer that is alone is the next one.
LEMMA RecordVersionStep ==
  ASSUME ConfigApart, ConfigStrong, NEW c \in Calls, Config!RecordVersion(c)
  PROVE  ConfigStrong'
<1> USE DEF ConfigStrong
<1>1. /\ UNCHANGED <<table, made, setting, cached, overlap, torn>> /\ request[c].pc = "record"
      /\ request[c] \in ConfigCalls /\ Knows(request[c]) /\ Writes(request[c])
  BY DEF Config!RecordVersion, ConfigTyped, EachKnows, Knows, Writes
<1>2. PICK q \in ConfigCalls :
        /\ request' = [request EXCEPT ![c] = q] /\ q.pc \in {"invalidate", "done"}
        /\ q.pc = "done" => Had(request[c].id, request[c].version) /\ missed' = TRUE /\ past' = past
        /\ q.pc = "invalidate" => /\ ~Had(request[c].id, request[c].version) /\ missed' = missed
                                  /\ past' = past \union {Config!Entry(request[c])}
  <2>1. CASE Had(request[c].id, request[c].version)
    BY <2>1, NoRequestIsOne DEF Config!RecordVersion, Config!Proceed, Had
  <2>2. CASE ~Had(request[c].id, request[c].version)
    <3>1. [request[c] EXCEPT !.pc = "invalidate"] \in ConfigCalls /\ [request[c] EXCEPT !.pc = "invalidate"].pc = "invalidate"
      BY <1>1 DEF ConfigCalls
    <3> QED
      BY <2>2, <3>1 DEF Config!RecordVersion, Config!Proceed, Had
  <2> QED
    BY <2>1, <2>2
<1>3. \A d \in Calls : request'[d] = IF d = c THEN q ELSE request[d]
  BY <1>2 DEF ConfigTyped
<1>4. PICK e \in Entries : e = Config!Entry(request[c]) /\ e.id = request[c].id /\ e.version = request[c].version
  <2>1. request[c].id \in 1 .. made /\ request[c].version \in 1 .. MaxVersion /\ request[c].value \in Settled
    BY <1>1 DEF Knows
  <2>2. /\ Config!Entry(request[c]) \in Entries /\ Config!Entry(request[c]).id = request[c].id
        /\ Config!Entry(request[c]).version = request[c].version
    BY <2>1 DEF Config!Entry, Entries
  <2> QED
    BY <2>2
<1>5. past \subseteq past' /\ past' \subseteq past \union {e}
  BY <1>2, <1>4
<1>6. ConfigTyped'
  BY <1>1, <1>2, <1>4, <1>5 DEF ConfigTyped, Entries
<1>7. AloneUnlessOverlap'
  BY <1>1, <1>3 DEF AloneUnlessOverlap, Writes
<1>8. EachKnows'
  BY <1>1, <1>2, <1>3 DEF EachKnows, Knows
<1>9. Complete'
  <2> SUFFICES ASSUME table = "config", setting # None, ~overlap, ~torn PROVE InHistory(setting)'
    BY <1>1 DEF Complete
  <2>1. \A d \in Calls \ {c} : ~RecordsFor(request[d], setting.id)
    BY <1>1 DEF AloneUnlessOverlap, EachKnows, Knows, Writes, RecordsFor
  <2>2. \A d \in Calls : ~RecordsFor(request'[d], setting.id)
    BY <2>1, <1>2, <1>3 DEF RecordsFor
  <2>3. CASE request[c].id = setting.id
    <3>1. RecordsFor(request[c], setting.id) /\ setting = e
      BY <1>1, <1>4, <2>3 DEF RecordsFor, Knows
    <3>2. \A v \in Nat \ {0} : Had(setting.id, v) <=> v < setting.version
      BY <3>1 DEF Complete, InHistory
    <3>3. setting.version \in Nat \ {0} /\ ~Had(request[c].id, request[c].version)
      BY <3>1, <3>2, <1>4 DEF Entries
    <3>4. past' = past \union {setting}
      BY <3>1, <3>3, <1>2, <1>4
    <3>5. \A v \in Nat \ {0} : Had(setting.id, v)' <=> v <= setting.version
      BY <3>2, <3>3, <3>4, <1>1 DEF Had
    <3> QED
      BY <2>2, <3>4, <3>5, <1>1 DEF InHistory
  <2>4. CASE request[c].id # setting.id
    <3>1. setting \in past /\ \A v \in Nat \ {0} : Had(setting.id, v) <=> v <= setting.version
      BY <2>1, <2>4 DEF Complete, InHistory, RecordsFor
    <3>2. \A v \in Nat \ {0} : Had(setting.id, v)' <=> Had(setting.id, v)
      BY <1>1, <1>4, <1>5, <2>4 DEF Had
    <3> QED
      BY <2>2, <3>1, <3>2, <1>1, <1>5 DEF InHistory
  <2> QED
    BY <2>3, <2>4
<1>10. CachedFresh'
  BY <1>2, <1>3 DEF CachedFresh
<1> QED
  BY <1>6, <1>7, <1>8, <1>9, <1>10

LEMMA DeleteSettingStep ==
  ASSUME ConfigApart, ConfigStrong, NEW c \in Calls, Config!DeleteSetting(c)
  PROVE  ConfigStrong'
<1> USE DEF ConfigStrong
<1>1. /\ UNCHANGED <<table, made, past, cached, overlap, torn, missed>> /\ request[c].pc = "delete"
      /\ request[c] \in ConfigCalls /\ Knows(request[c])
      /\ setting' = IF setting # None /\ setting.id = request[c].id THEN None ELSE setting
  BY DEF Config!DeleteSetting, ConfigTyped, EachKnows
<1>2. PICK q \in ConfigCalls : /\ request' = [request EXCEPT ![c] = q]
                               /\ q.kind = request[c].kind /\ q.pc = "invalidate"
  <2>1. /\ [request[c] EXCEPT !.pc = "invalidate"] \in ConfigCalls
        /\ [request[c] EXCEPT !.pc = "invalidate"].kind = request[c].kind
        /\ [request[c] EXCEPT !.pc = "invalidate"].pc = "invalidate"
    BY <1>1 DEF ConfigCalls
  <2> QED
    BY <2>1 DEF Config!DeleteSetting, Config!Proceed
<1>3. \A d \in Calls : request'[d] = IF d = c THEN q ELSE request[d]
  BY <1>2 DEF ConfigTyped
<1>4. ConfigTyped'
  BY <1>1, <1>2 DEF ConfigTyped, Entries
<1>5. AloneUnlessOverlap'
  BY <1>1, <1>2, <1>3 DEF AloneUnlessOverlap, Writes
<1>6. EachKnows'
  BY <1>1, <1>2, <1>3 DEF EachKnows, Knows
<1>7. Complete'
  <2>1. CASE setting' = None
    BY <2>1 DEF Complete
  <2>2. CASE setting' = setting
    BY <2>2, <1>1, <1>2, <1>3 DEF Complete, InHistory, RecordsFor, Had
  <2> QED
    BY <1>1, <2>1, <2>2
<1>8. CachedFresh'
  BY <1>2, <1>3 DEF CachedFresh
<1> QED
  BY <1>4, <1>5, <1>6, <1>7, <1>8

LEMMA FindToDeleteStep ==
  ASSUME ConfigApart, ConfigStrong, NEW c \in Calls, Config!FindToDelete(c)
  PROVE  ConfigStrong'
<1>1. PICK q : /\ q = [kind |-> "delete", pc |-> "delete", id |-> setting.id, version |-> 0, value |-> None]
               /\ request' = [request EXCEPT ![c] = q]
  BY DEF Config!FindToDelete, Config!Proceed
<1>2. /\ UNCHANGED <<table, made, setting, past, torn, cached, missed, overlap>>
      /\ request[c] = Config!NoRequest /\ setting # None
  BY DEF Config!FindToDelete
<1>3. q \in ConfigCalls /\ q.pc = "delete" /\ q.kind = "delete" /\ overlap' \in BOOLEAN
  BY <1>1, <1>2 DEF ConfigCalls, ConfigStrong, ConfigTyped, Entries
<1>4. Knows(q)' /\ ~Writes(q)
  BY <1>3 DEF Knows, Writes
<1> QED
  BY <1>1, <1>2, <1>3, <1>4, RequestGoesOnQuietly, NoRequestIsOne

\* get, up to the row it loads, and the searches that end at once.
LEMMA ReadStep ==
  ASSUME ConfigApart, ConfigStrong, NEW c \in Calls, Config!ReadCached(c) \/ Config!LoadSetting(c)
  PROVE  ConfigStrong'
<1>1. PICK q : /\ request' = [request EXCEPT ![c] = q]
               /\ \/ q = Config!Answered
                  \/ q = [Config!NoRequest EXCEPT !.kind = "get", !.pc = "load"]
                  \/ request[c].pc = "load" /\ setting # None /\ q = [request[c] EXCEPT !.pc = "fill", !.value = setting.value]
  BY DEF Config!ReadCached, Config!LoadSetting, Config!Proceed
<1>2. /\ UNCHANGED <<table, made, setting, past, torn, cached, missed, overlap>>
      /\ request[c] \in ConfigCalls
      /\ request[c] = Config!NoRequest \/ request[c].pc = "load"
  BY DEF Config!ReadCached, Config!LoadSetting, ConfigStrong, ConfigTyped
<1>3. /\ q \in ConfigCalls /\ q.pc \in {"load", "fill", "done"} /\ overlap' \in BOOLEAN
      /\ q.pc = "fill" => q.value \in Settled /\ q.kind = request[c].kind /\ request[c].pc = "load"
      /\ q.pc = "load" => q.kind = "get"
  BY <1>1, <1>2, NoRequestIsOne DEF ConfigCalls, ConfigStrong, ConfigTyped, Entries, Config!NoRequest
<1>4. Knows(q)' /\ (Writes(q) => Writes(request[c]))
  BY <1>3 DEF Knows, Writes
<1> QED
  BY <1>1, <1>2, <1>3, <1>4, RequestGoesOnQuietly, NoRequestIsOne

\* A request is over: its last step, or a failure.
LEMMA RequestEnds ==
  ASSUME ConfigApart, ConfigStrong, NEW c \in Calls,
         Config!FillCached(c) \/ Config!InvalidateSetting(c) \/ Config!FailRequest(c)
  PROVE  ConfigStrong'
<1> USE DEF ConfigStrong
<1>1. /\ request' = [request EXCEPT ![c] = Config!Answered]
      /\ UNCHANGED <<table, made, setting, past, overlap>> /\ torn' \in BOOLEAN /\ (torn => torn')
      /\ request[c].pc = "record" => torn'
  BY DEF Config!FillCached, Config!InvalidateSetting, Config!FailRequest, Config!Proceed, ConfigTyped
<1>2. PICK q \in ConfigCalls : q = Config!Answered /\ q.pc = "done"
  BY NoRequestIsOne
<1>3. \A d \in Calls : request'[d] = IF d = c THEN q ELSE request[d]
  BY <1>1, <1>2 DEF ConfigTyped
<1>4. cached' \in Settled \union {None} /\ missed' \in BOOLEAN /\ CachedFresh'
  <2>1. CASE Config!FillCached(c)
    <3>1. Knows(request[c]) /\ request[c].pc = "fill" /\ request[c].value \in Settled
      BY <2>1 DEF Config!FillCached, EachKnows, Knows
    <3>2. CASE UNCHANGED <<cached, missed>>
      BY <3>2, <3>1, <1>1, <1>3 DEF ConfigTyped, CachedFresh
    <3>3. CASE cached' = request[c].value /\ missed' = (setting = None \/ setting.value # request[c].value)
      BY <3>3, <3>1, <1>1, <1>3 DEF ConfigTyped, CachedFresh
    <3> QED
      BY <2>1, <3>2, <3>3 DEF Config!FillCached
  <2>2. CASE Config!InvalidateSetting(c)
    BY <2>2, <1>1, <1>3 DEF Config!InvalidateSetting, ConfigTyped, CachedFresh
  <2>3. CASE Config!FailRequest(c)
    BY <2>3, <1>1, <1>3 DEF Config!FailRequest, ConfigTyped, CachedFresh
  <2> QED
    BY <2>1, <2>2, <2>3
<1>5. ConfigTyped'
  BY <1>1, <1>2, <1>4 DEF ConfigTyped, Entries
<1>6. AloneUnlessOverlap'
  BY <1>1, <1>2, <1>3 DEF AloneUnlessOverlap, Writes
<1>7. EachKnows'
  BY <1>1, <1>2, <1>3 DEF EachKnows, Knows
<1>8. Complete'
  <2>1. CASE torn'
    BY <2>1 DEF Complete
  <2>2. CASE ~torn'
    BY <2>2, <1>1, <1>2, <1>3 DEF Complete, InHistory, RecordsFor, Had
  <2> QED
    BY <2>1, <2>2
<1> QED
  BY <1>4, <1>5, <1>6, <1>7, <1>8

LEMMA ExpireCachedStep ==
  ASSUME ConfigStrong, Config!ExpireCached
  PROVE  ConfigStrong'
<1>1. UNCHANGED <<table, made, setting, past, request, overlap, torn>> /\ cached' = None /\ missed' = FALSE
  BY DEF Config!ExpireCached
<1> QED
  BY <1>1 DEF ConfigStrong, ConfigTyped, EachKnows, Knows, AloneUnlessOverlap, Writes, Complete, InHistory, RecordsFor, Had, CachedFresh, Entries

LEMMA ConfigStutters ==
  ASSUME ConfigStrong, UNCHANGED configVars
  PROVE  ConfigStrong'
BY DEF configVars, ConfigStrong, ConfigTyped, EachKnows, Knows, AloneUnlessOverlap, Writes, Complete, InHistory, RecordsFor, Had, CachedFresh, Entries

LEMMA ConfigStarts ==
  ASSUME Config!ConfigInit
  PROVE  ConfigStrong
<1>1. /\ made = 0 /\ setting = None /\ past = {} /\ cached = None /\ request = [c \in Calls |-> Config!NoRequest]
      /\ overlap = FALSE /\ torn = FALSE /\ missed = FALSE
  BY DEF Config!ConfigInit
<1>2. ConfigTyped
  BY <1>1, NoRequestIsOne DEF ConfigTyped
<1>3. \A c \in Calls : request[c] = Config!NoRequest
  BY <1>1
<1>4. EachKnows /\ AloneUnlessOverlap
  BY <1>3, <1>1, NoRequestIsOne DEF EachKnows, Knows, AloneUnlessOverlap, Writes
<1> QED
  BY <1>1, <1>2, <1>4 DEF ConfigStrong, Complete, CachedFresh

LEMMA ConfigStep ==
  ASSUME ConfigApart, ConfigStrong, [Config!ConfigNext]_configVars
  PROVE  ConfigStrong'
<1>1. CASE UNCHANGED configVars
  BY <1>1, ConfigStutters
<1>2. CASE Config!ExpireCached
  BY <1>2, ExpireCachedStep
<1>3. ASSUME NEW c \in Calls,
             \/ \E v \in Values : Config!FindToSet(c, v)
             \/ \E n \in 1 .. MaxVersion : Config!BeginRollback(c, n)
             \/ Config!LookUpVersion(c) \/ Config!FindToRollBack(c) \/ Config!UpdateSetting(c)
             \/ Config!CreateSetting(c) \/ Config!RecordVersion(c)
             \/ Config!FindToDelete(c) \/ Config!DeleteSetting(c) \/ Config!InvalidateSetting(c)
             \/ Config!ReadCached(c) \/ Config!LoadSetting(c) \/ Config!FillCached(c) \/ Config!FailRequest(c)
      PROVE  ConfigStrong'
  BY <1>3, FindToSetStep, BeginRollbackStep, LookUpVersionStep, FindToRollBackStep, UpdateSettingStep,
     CreateSettingStep, RecordVersionStep, FindToDeleteStep, DeleteSettingStep, ReadStep, RequestEnds
<1> QED
  BY <1>1, <1>2, <1>3 DEF Config!ConfigNext

LEMMA ConfigAlways ==
  ASSUME ConfigApart
  PROVE  ServicesSpec => []ConfigStrong
<1>1. Config!ConfigInit => ConfigStrong
  BY ConfigStarts
<1>2. ConfigStrong /\ [Config!ConfigNext]_configVars => ConfigStrong'
  BY ConfigStep
<1> QED
  BY <1>1, <1>2, EachStarts, EachSteps, PTL DEF ServicesSpec

\* The history of a configuration row has every version of it, the present
\* value under the present number, unless writers overlapped or one failed
\* between the row and the history; and the cached value is the row's unless
\* somebody left it behind.
THEOREM ConfigurationKeepsInvariant ==
  ASSUME ConfigApart
  PROVE  ServicesSpec => []ConfigurationCoherent
<1>1. ASSUME ConfigStrong PROVE Config!ConfigInv
  <2>1. Config!ConfigTypeOK
    BY <1>1 DEF ConfigStrong, ConfigTyped, Entries, Settled, Config!ConfigTypeOK
  <2>2. Config!CacheFreshUnlessMissed
    BY <1>1 DEF ConfigStrong, CachedFresh, Config!CacheFreshUnlessMissed
  <2>3. Config!HistoryComplete
    <3> SUFFICES ASSUME table = "config", setting # None, ~overlap, ~torn
                 PROVE  LET entries == {h \in past : h.id = setting.id} IN
                   \/ Config!Writing(setting.id) # {} /\ {h.version : h \in entries} = 1 .. setting.version - 1
                   \/ {h.version : h \in entries} = 1 .. setting.version /\ Config!Entry(setting) \in entries
      BY DEF Config!HistoryComplete
    <3> DEFINE entries == {h \in past : h.id = setting.id}
               versions == {h.version : h \in entries}
    <3>1. /\ InHistory(setting) /\ setting \in Entries /\ setting.version \in Nat \ {0}
          /\ \A h \in past : h.version \in Nat \ {0}
      BY <1>1 DEF ConfigStrong, ConfigTyped, Complete, Entries
    <3>2. \A v : v \in versions <=> v \in Nat \ {0} /\ Had(setting.id, v)
      BY <3>1 DEF Had
    <3>3. Config!Writing(setting.id) # {} <=> \E c \in Calls : RecordsFor(request[c], setting.id)
      BY DEF Config!Writing, RecordsFor
    <3>4. Config!Entry(setting) = setting
      BY <3>1 DEF Config!Entry, Entries
    <3> HIDE DEF versions
    <3>5. CASE Config!Writing(setting.id) # {}
      <4>1. \A v \in Nat \ {0} : Had(setting.id, v) <=> v < setting.version
        BY <3>1, <3>3, <3>5 DEF InHistory
      <4>2. \A v : v \in versions <=> v \in 1 .. setting.version - 1
        BY <3>1, <3>2, <4>1
      <4>3. versions = 1 .. setting.version - 1
        BY <4>2
      <4> QED
        BY <4>3, <3>5 DEF versions
    <3>6. CASE Config!Writing(setting.id) = {}
      <4>1. setting \in past /\ \A v \in Nat \ {0} : Had(setting.id, v) <=> v <= setting.version
        BY <3>1, <3>3, <3>6 DEF InHistory
      <4>2. \A v : v \in versions <=> v \in 1 .. setting.version
        BY <3>1, <3>2, <4>1
      <4>3. versions = 1 .. setting.version
        BY <4>2
      <4> QED
        BY <4>1, <4>3, <3>4 DEF versions
    <3> QED
      BY <3>5, <3>6
  <2> QED
    BY <2>1, <2>2, <2>3 DEF Config!ConfigInv
<1>2. ConfigStrong => ConfigurationCoherent
  BY <1>1 DEF ConfigurationCoherent
<1> QED
  BY <1>2, ConfigAlways, PTL

=============================================================================
