-------------------------- MODULE GovernanceVoting --------------------------
(***************************************************************************)
(* One governance proposal: GovernanceService, its proposals and votes     *)
(* tables and the proposal's key in GovernanceCache (src/src/governance).  *)
(*                                                                         *)
(* Every await is a step.  A call works on the copy it read, from Redis or *)
(* from the row, and saves that copy whole: repository.save accepts the    *)
(* parsed JSON of a cache hit, so a stale copy is written back.            *)
(***************************************************************************)
EXTENDS Integers, FiniteSets

CONSTANTS Calls,   \* calls made to the service
          Voters,  \* wallets
          None     \* no copy of the proposal in Redis

Statuses == {"PENDING", "ACTIVE", "PASSED", "REJECTED", "EXECUTED", "CANCELLED"}

VARIABLES
  row,      \* the proposal's row: [status, total, yes, no]
  votes,    \* the votes table: [voter, support, by], by being the call that cast it
  cache,    \* the proposal's key in Redis: a row, or None
  call,     \* each call: [kind, voter, support, pc, base, copy, changes]
  saved,    \* calls that have updated the row
  stale,    \* whether a call has updated a row other than the one it read
  outcomes  \* outcomes written by something other than the service

vars == <<row, votes, cache, call, saved, stale, outcomes>>
history == <<saved, stale, outcomes>>

New  == [status |-> "PENDING", total |-> 0, yes |-> 0, no |-> 0]
Idle == [kind |-> "none", voter |-> None, support |-> FALSE, pc |-> "idle",
         base |-> New, copy |-> New, changes |-> {}]
Done == [Idle EXCEPT !.pc = "done"]

\* create has stored the proposal; it leaves the proposal's own key alone.
Init ==
  /\ row = New /\ votes = {} /\ cache = None
  /\ call = [c \in Calls |-> Idle]
  /\ saved = {} /\ stale = FALSE /\ outcomes = {}

-----------------------------------------------------------------------------
(* What a call checks on the copy it read, and what it writes to it.       *)

\* Fault: an executed proposal is not refused.
FaultMayCancel(p) == p.status # "CANCELLED"

MayCancel(p) == p.status \notin {"EXECUTED", "CANCELLED"}

MayExecute(p) == p.status = "PASSED"

MayProceed(kind, p) ==
  \/ kind = "activate" /\ p.status = "PENDING"
  \/ kind = "execute" /\ MayExecute(p)
  \/ kind = "cancel" /\ MayCancel(p)
  \/ kind = "vote" /\ p.status = "ACTIVE"

\* The status that activate, execute and cancel give the copy.
Written(kind) ==
  CASE kind = "activate" -> "ACTIVE" [] kind = "execute" -> "EXECUTED" [] kind = "cancel" -> "CANCELLED"

\* Fault: only the votes in favour are counted in the total.
FaultCounted(p, support) ==
  IF support THEN [p EXCEPT !.total = @ + 1, !.yes = @ + 1] ELSE [p EXCEPT !.no = @ + 1]

\* The counts castVote writes to the copy; the vote's weight is not used.
Counted(p, support) ==
  IF support THEN [p EXCEPT !.total = @ + 1, !.yes = @ + 1]
             ELSE [p EXCEPT !.total = @ + 1, !.no = @ + 1]

\* The call once it has its copy: refused, looking for an earlier vote, or
\* about to save.
WithCopy(k, p) ==
  IF ~MayProceed(k.kind, p) THEN Done
  ELSE IF k.kind = "vote" THEN [k EXCEPT !.base = p, !.copy = p, !.pc = "check"]
  ELSE [k EXCEPT !.base = p, !.copy = [p EXCEPT !.status = Written(k.kind)], !.pc = "compare"]

\* TypeORM's save: the columns in which the entity differs from the row.
Differing(entity, r) == {f \in DOMAIN New : entity[f] # r[f]}
Merge(entity, fields, r) == [f \in DOMAIN New |-> IF f \in fields THEN entity[f] ELSE r[f]]

-----------------------------------------------------------------------------
(* The steps.                                                              *)

To(c, k) == call' = [call EXCEPT ![c] = k]
At(c, pc) == To(c, [call[c] EXCEPT !.pc = pc])

Start(c, kind, v, s) ==
  /\ call[c] = Idle
  /\ To(c, [Idle EXCEPT !.kind = kind, !.voter = v, !.support = s, !.pc = "cache"])
  /\ UNCHANGED <<row, votes, cache, history>>

Begin(c) ==
  \/ \E kind \in {"find", "activate", "execute", "cancel"} : Start(c, kind, None, FALSE)
  \/ \E v \in Voters, s \in BOOLEAN : Start(c, "vote", v, s)

\* findOne, the cache.  Redis answers null when it is unavailable.
ReadCache(c) ==
  /\ call[c].pc = "cache"
  /\ \/ cache # None /\ To(c, WithCopy(call[c], cache))
     \/ At(c, "load")
  /\ UNCHANGED <<row, votes, cache, history>>

LoadRow(c) ==
  /\ call[c].pc = "load"
  /\ To(c, [call[c] EXCEPT !.copy = row, !.pc = "fill"])
  /\ UNCHANGED <<row, votes, cache, history>>

\* setProposal, which Redis may drop.
FillCache(c) ==
  /\ call[c].pc = "fill"
  /\ cache' \in {cache, call[c].copy}
  /\ To(c, WithCopy(call[c], call[c].copy))
  /\ UNCHANGED <<row, votes, history>>

Has(v) == \E w \in votes : w.voter = v

CheckVote(c) ==
  /\ call[c].pc = "check"
  /\ IF Has(call[c].voter) THEN To(c, Done) ELSE At(c, "insert")
  /\ UNCHANGED <<row, votes, cache, history>>

Vote(c) == [voter |-> call[c].voter, support |-> call[c].support, by |-> c]

\* The votes table after the INSERT: the unique index refuses a second vote.
Stored(c) == IF Has(call[c].voter) THEN votes ELSE votes \union {Vote(c)}

\* Fault: a refused vote is counted all the same.
FaultInsertVote(c) ==
  /\ call[c].pc = "insert"
  /\ votes' = Stored(c)
  /\ To(c, [call[c] EXCEPT !.copy = Counted(@, call[c].support), !.pc = "compare"])
  /\ UNCHANGED <<row, cache, history>>

InsertVote(c) ==
  /\ call[c].pc = "insert"
  /\ votes' = Stored(c)
  /\ IF votes' = votes THEN To(c, Done)
     ELSE To(c, [call[c] EXCEPT !.copy = Counted(@, call[c].support), !.pc = "compare"])
  /\ UNCHANGED <<row, cache, history>>

CompareRow(c) ==
  /\ call[c].pc = "compare"
  /\ To(c, [call[c] EXCEPT !.changes = Differing(call[c].copy, row), !.pc = "update"])
  /\ UNCHANGED <<row, votes, cache, history>>

UpdateRow(c) ==
  /\ call[c].pc = "update"
  /\ row' = Merge(call[c].copy, call[c].changes, row)
  /\ stale' = (stale \/ call[c].base # row)
  /\ saved' = saved \union {c}
  /\ To(c, [Done EXCEPT !.pc = "invalidate"])
  /\ UNCHANGED <<votes, cache, outcomes>>

\* invalidateProposal: del answers false when Redis is unavailable.
Invalidate(c) ==
  /\ call[c].pc = "invalidate"
  /\ cache' \in {cache, None}
  /\ To(c, Done)
  /\ UNCHANGED <<row, votes, history>>

\* A database error, or the loss of the process.
Fail(c) ==
  /\ call[c].pc \notin {"idle", "done"}
  /\ To(c, Done)
  /\ UNCHANGED <<row, votes, cache, history>>

\* The key outlives its time to live.
Expire ==
  /\ cache # None
  /\ cache' = None
  /\ UNCHANGED <<row, votes, call, history>>

\* The end of voting: the service reads PASSED and REJECTED and never writes
\* them.
Conclude ==
  /\ row.status = "ACTIVE"
  /\ \E s \in {"PASSED", "REJECTED"} :
       row' = [row EXCEPT !.status = s] /\ outcomes' = outcomes \union {s}
  /\ UNCHANGED <<votes, cache, call, saved, stale>>

Next ==
  \/ \E c \in Calls :
       \/ Begin(c) \/ ReadCache(c) \/ LoadRow(c) \/ FillCache(c) \/ CheckVote(c) \/ InsertVote(c)
       \/ CompareRow(c) \/ UpdateRow(c) \/ Invalidate(c) \/ Fail(c)
  \/ Expire \/ Conclude

Spec == Init /\ [][Next]_vars

-----------------------------------------------------------------------------
(* The properties.                                                         *)

Kinds == {"none", "find", "activate", "execute", "cancel", "vote"}
Stages == {"idle", "cache", "load", "fill", "check", "insert", "compare", "update", "invalidate", "done"}
Rows == [status : Statuses, total : Nat, yes : Nat, no : Nat]
Of(c) == {w \in votes : w.by \in c}
Ayes(ws) == {w \in ws : w.support}
Noes(ws) == {w \in ws : ~w.support}

\* The row, its cached copy and the calls are well typed, and whoever is about
\* to vote is a voter.
TypeOK ==
  /\ row \in Rows /\ cache \in Rows \union {None}
  /\ IsFiniteSet(votes) /\ votes \subseteq [voter : Voters, support : BOOLEAN, by : Calls]
  /\ call \in [Calls -> [kind : Kinds, voter : Voters \union {None}, support : BOOLEAN, pc : Stages,
                         base : Rows, copy : Rows, changes : SUBSET DOMAIN New]]
  /\ \A c \in Calls : /\ call[c].kind = "vote" => call[c].voter \in Voters
                      /\ call[c].pc \in {"check", "insert"} => call[c].kind = "vote"

\* A wallet has at most one vote, however the look-ups and inserts of its
\* calls interleave.
OneVotePerVoter == \A w1, w2 \in votes : w1.voter = w2.voter => w1 = w2

\* Lost updates, stale copies and failures lose counts; none counts a vote
\* that was not cast, or one twice.
Counts(p) ==
  /\ p.total <= Cardinality(votes)
  /\ p.yes <= Cardinality(Ayes(votes)) /\ p.no <= Cardinality(Noes(votes))

NeverOvercounted == Counts(row)

\* As long as every update was made to the row its call had read, the counts
\* are those of the votes whose call got as far as updating it.
CountsExactUnlessStale ==
  ~stale => /\ row.total = Cardinality(Of(saved))
            /\ row.yes = Cardinality(Ayes(Of(saved))) /\ row.no = Cardinality(Noes(Of(saved)))

Terminal == {"EXECUTED", "CANCELLED"}

\* An executed or cancelled proposal changes status only when a call writes
\* back a copy read before another update.
TerminalUnlessStale ==
  [][row.status \in Terminal /\ row'.status # row.status => stale']_vars

\* A proposal is executed only if it has passed, even by a call that works on
\* an old copy.
Passed(p) == p.status \in {"PASSED", "EXECUTED"} => "PASSED" \in outcomes

ExecutedWasPassed == row.status = "EXECUTED" => "PASSED" \in outcomes

\* What holds of the row holds of every copy that may be written back to it.
CopiesHold ==
  /\ Counts(row) /\ Passed(row)
  /\ cache # None => Counts(cache) /\ Passed(cache)
  /\ \A c \in Calls : Counts(call[c].copy) /\ Passed(call[c].copy)

\* A call that is going to write has read a proposal that was not over.
WritersReadOpen ==
  \A c \in Calls : call[c].pc \in {"check", "insert", "compare", "update"} => call[c].base.status \notin Terminal

\* What every state of the proposal and its votes keeps: the inductive
\* invariant, which ExecutedWasPassed and NeverOvercounted follow from.
Inv == TypeOK /\ OneVotePerVoter /\ CopiesHold /\ WritersReadOpen

=============================================================================
