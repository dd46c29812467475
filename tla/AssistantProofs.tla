-------------------------- MODULE AssistantProofs --------------------------
(***************************************************************************)
(* AssistantConversation for any number of requests: what its run checks,  *)
(* for every instance.                                                     *)
(*                                                                         *)
(* A call saves the columns in which its entity differs from a row that it *)
(* reads just before.  That the row it had is still there when it writes   *)
(* does not say that it was there in between: what does is that rows only  *)
(* move forward as long as nobody writes over another's work.              *)
(***************************************************************************)
EXTENDS AssistantConversation, FiniteSetTheorems, TLAPS

Kinds == {"none", "send", "stage", "archive", "remove", "stream"}
Stages == {"idle", "marker", "find", "user", "check", "window", "recent", "fill", "provider", "reply",
           "compare", "update", "invalidate", "usage", "mark", "clear", "done", "failed"}
Columns == {"status", "titled", "total"}
Records == [kind : Kinds, of : Calls \union {None}, pc : Stages, live : BOOLEAN, base : Rows, copy : Rows,
            changes : SUBSET Columns, tokens : {0, 1}, seen : Nat]
Texts == [role : {"user", "assistant"}, by : Calls, tokens : {0, 1}]

\* The absent value is no request, and no size of a window.
NoneApart == None \notin Calls \union Nat

\* The stages at which a request prepares its reply, those before them, and
\* those at which a request has a row that it is going to write.
Preparing == {"check", "window", "recent", "fill", "provider", "reply"}
Unanswered == {"idle", "marker", "find", "user", "mark"} \union Preparing
Holding == {"user", "compare", "update"} \union Preparing

Repliers == {c \in Calls : Replied(c)}

\* What a request with record k is to make of the row it had, when r says
\* whether it has stored its reply.
Entity(k, r) ==
  IF r THEN [k.base EXCEPT !.total = @ + k.tokens]
  ELSE CASE k.kind = "archive" -> [k.base EXCEPT !.status = "archived"]
         [] k.kind = "remove"  -> [k.base EXCEPT !.status = "deleted"]
         [] OTHER              -> [k.base EXCEPT !.titled = TRUE]

\* Request c is as far as the sets A of those that have stored a reply and S of
\* those that have added its tokens to the row say.
Fits(c, k, A, S) ==
  /\ k.pc \in {"marker", "clear"} => k.kind = "stream"
  /\ k.pc \in {"user", "mark"} => k.kind \in {"send", "stage"}
  /\ k.pc \in Preparing => k.kind \in {"send", "stream"}
  /\ k.kind = "none" <=> k.pc = "idle"
  /\ IF k.kind = "stream" THEN k.of \in Calls ELSE k.of = None
  /\ c \in A => k.pc \notin Unanswered /\ k.kind \in {"send", "stream"}
  /\ c \in S => c \in A /\ k.pc \notin {"compare", "update"}
  /\ k.pc \in {"invalidate", "usage"} => c \in S
  /\ k.pc \in {"compare", "update"} /\ k.kind = "stream" => c \in A
  /\ k.pc \in Preparing \union {"user"} => k.copy = k.base
  /\ k.pc \in {"compare", "update"} =>
       /\ k.copy = Entity(k, c \in A)
       /\ k.kind = "archive" => k.base.status # "deleted"

\* A stream is of a message whose staging is over.
Staged(k) == k.kind = "stream" => call[k.of].kind = "stage" /\ call[k.of].pc = "done"

\* No request has two replies, and one that has yet to add the tokens of its
\* reply to the row knows them.
RepliesOwn ==
  /\ \A i, j \in Of("assistant") : messages[i].by = messages[j].by => i = j
  /\ \A i \in Of("assistant") :
       call[messages[i].by].pc \in {"compare", "update"} => messages[i].tokens = call[messages[i].by].tokens

\* The streams that answer the staged message s, or have.
Answers(k, r) == k.pc \in Preparing \union {"find", "compare", "update", "invalidate", "usage"} \/ r
Answering(s) == {c \in Calls : call[c].kind = "stream" /\ call[c].of = s /\ Answers(call[c], Replied(c))}

\* One stream at most answers a message, and one that is over has taken the
\* marker away.
OneAnswer ==
  \A s \in Calls \ reused :
    /\ \A c, d \in Answering(s) : c = d
    /\ \A c \in Answering(s) : call[c].pc \in {"done", "failed"} => s \notin pending

\* A conversation may go from row p to row q.
Earlier(p, q) ==
  /\ p.status = q.status \/ p.status = "active" \/ q.status = "deleted"
  /\ p.titled => q.titled
  /\ p.total <= q.total

\* The row a request had came before r, and the row it compared its entity with
\* came between the two.
Fresh(k, r) ==
  /\ k.pc \in Holding => Earlier(k.base, r)
  /\ k.pc = "update" =>
       \E s \in Rows : Earlier(k.base, s) /\ Earlier(s, r) /\ k.changes = Differing(k.copy, s)

Typed ==
  /\ row \in Rows /\ messages \in Seq(Texts)
  /\ window \in Nat \union {None} /\ pending \subseteq Calls
  /\ call \in [Calls -> Records] /\ saved \subseteq Calls /\ stale \in BOOLEAN
  /\ usage \subseteq saved

\* The inductive invariant.
AssistantStrong ==
  /\ Typed
  /\ \A c \in Calls : Fits(c, call[c], Repliers, saved) /\ Staged(call[c])
  /\ RepliesOwn /\ OneAnswer /\ MemoryRefreshed
  /\ ~stale => \A c \in Calls : Fresh(call[c], row)
  /\ TotalExactUnlessStale

-----------------------------------------------------------------------------
(* Records and rows by themselves.                                         *)

LEMMA Blank ==
  /\ New \in Rows /\ DOMAIN New = Columns
  /\ Idle \in Records /\ Idle.kind = "none" /\ Idle.of = None /\ Idle.pc = "idle"
BY DEF New, Rows, Columns, Idle, Records, Kinds, Stages

\* A request that is over.
LEMMA OverIsRecord ==
  ASSUME NEW k \in Records, NEW pc \in {"done", "failed"}
  PROVE  /\ Over(k, pc) \in Records
         /\ Over(k, pc).kind = k.kind /\ Over(k, pc).of = k.of /\ Over(k, pc).pc = pc
BY DEF Over, Idle, Records, New, Rows, Columns, Kinds, Stages

LEMMA EarlierIsOrder ==
  /\ \A p \in Rows : Earlier(p, p)
  /\ \A p, q, r \in Rows : Earlier(p, q) /\ Earlier(q, r) => Earlier(p, r)
  /\ \A p, q \in Rows : Earlier(p, q) /\ Earlier(q, p) => p = q
<1>1. \A p \in Rows : Earlier(p, p)
  BY DEF Rows, Earlier
<1>2. ASSUME NEW p \in Rows, NEW q \in Rows, NEW r \in Rows, Earlier(p, q), Earlier(q, r)
      PROVE  Earlier(p, r)
  BY <1>2 DEF Rows, Earlier
<1>3. ASSUME NEW p \in Rows, NEW q \in Rows, Earlier(p, q), Earlier(q, p)
      PROVE  p = q
  <2>1. p.status = q.status /\ p.titled = q.titled /\ p.total = q.total
    BY <1>3 DEF Rows, Earlier
  <2> QED
    BY <2>1 DEF Rows
<1> QED
  BY <1>1, <1>2, <1>3

\* What a request makes of its row comes after it.
LEMMA EntityIsLater ==
  ASSUME NEW k \in Records, NEW r \in BOOLEAN, k.kind = "archive" /\ ~r => k.base.status # "deleted"
  PROVE  Entity(k, r) \in Rows /\ Earlier(k.base, Entity(k, r))
<1>1. k.base \in Rows /\ k.tokens \in {0, 1}
  BY DEF Records
<1>2. CASE r
  <2>1. Entity(k, r) = [k.base EXCEPT !.total = @ + k.tokens]
    BY <1>2 DEF Entity
  <2> QED
    BY <1>1, <2>1 DEF Rows, Earlier
<1>3. CASE ~r /\ k.kind = "archive"
  <2>1. Entity(k, r) = [k.base EXCEPT !.status = "archived"]
    BY <1>3 DEF Entity
  <2> QED
    BY <1>1, <1>3, <2>1 DEF Rows, Earlier
<1>4. CASE ~r /\ k.kind = "remove"
  <2>1. Entity(k, r) = [k.base EXCEPT !.status = "deleted"]
    BY <1>4 DEF Entity
  <2> QED
    BY <1>1, <2>1 DEF Rows, Earlier
<1>5. CASE ~r /\ k.kind \notin {"archive", "remove"}
  <2>1. Entity(k, r) = [k.base EXCEPT !.titled = TRUE]
    BY <1>5 DEF Entity
  <2>2. Entity(k, r) = [status |-> k.base.status, titled |-> TRUE, total |-> k.base.total]
    BY <1>1, <2>1 DEF Rows
  <2>3. Entity(k, r) \in Rows
    BY <1>1, <2>2 DEF Rows
  <2> QED
    BY <1>1, <2>2, <2>3 DEF Rows, Earlier
<1> QED
  BY <1>2, <1>3, <1>4, <1>5

\* save over the row its columns were compared with writes the whole entity.
LEMMA SaveIsWhole ==
  ASSUME NEW x \in Rows, NEW r \in Rows
  PROVE  Merge(x, Differing(x, r), r) = x
<1>1. \A f \in Columns : (IF f \in Differing(x, r) THEN x[f] ELSE r[f]) = x[f]
  BY Blank DEF Differing
<1>2. Merge(x, Differing(x, r), r) = [f \in Columns |-> x[f]]
  BY <1>1, Blank DEF Merge
<1> QED
  BY <1>2 DEF Rows, Columns

LEMMA MergeIsRow ==
  ASSUME NEW x \in Rows, NEW fs, NEW r \in Rows
  PROVE  Merge(x, fs, r) \in Rows
<1>1. Merge(x, fs, r) = [status |-> IF "status" \in fs THEN x.status ELSE r.status,
                         titled |-> IF "titled" \in fs THEN x.titled ELSE r.titled,
                         total |-> IF "total" \in fs THEN x.total ELSE r.total]
  BY Blank DEF Merge, Columns
<1> QED
  BY <1>1 DEF Rows

LEMMA TextsTyped ==
  ASSUME messages \in Seq(Texts), NEW i \in DOMAIN messages
  PROVE  /\ messages[i] \in Texts /\ messages[i].by \in Calls /\ messages[i].tokens \in {0, 1}
         /\ i \in 1..Len(messages)
<1>1. messages[i] \in Texts /\ i \in 1..Len(messages)
  OBVIOUS
<1> QED
  BY <1>1 DEF Texts

\* The table of messages only grows.
LEMMA MessageAdded ==
  ASSUME messages \in Seq(Texts), NEW m \in Texts, messages' = Append(messages, m)
  PROVE  /\ messages' \in Seq(Texts)
         /\ \A i \in DOMAIN messages : messages'[i] = messages[i]
         /\ Len(messages) + 1 \notin DOMAIN messages /\ messages'[Len(messages) + 1] = m
         /\ DOMAIN messages' = DOMAIN messages \union {Len(messages) + 1}
OBVIOUS

\* The replies are what they were.
SameReplies ==
  /\ Of("assistant")' = Of("assistant")
  /\ \A i \in Of("assistant") : messages'[i] = messages[i]

LEMMA RepliersStay ==
  ASSUME SameReplies
  PROVE  (\A c \in Calls : Replied(c)' <=> Replied(c)) /\ Repliers' = Repliers
<1>1. \A c \in Calls : Replied(c)' <=> Replied(c)
  BY DEF SameReplies, Replied
<1> QED
  BY <1>1 DEF Repliers

LEMMA UnchangedReplies == messages' = messages => SameReplies
BY DEF SameReplies, Of

-----------------------------------------------------------------------------
(* A step of one request.                                                  *)

\* Request c of record k has used the memory, or stored a reply it lacks, and
\* has yet to invalidate it.
WillReread(k, r) == k.pc \in {"provider", "reply", "invalidate"} \/ (k.pc \in {"compare", "update"} /\ r)

LEMMA MemoryStays ==
  ASSUME AssistantStrong, NEW c \in Calls, NEW k, call' = [call EXCEPT ![c] = k], SameReplies,
         lost => lost',
         \/ lost' \/ window' = None \/ WillReread(k, Replied(c))
         \/ window' = window /\ ~WillReread(call[c], Replied(c))
  PROVE  MemoryRefreshed'
<1> SUFFICES ASSUME window' # None, NEW i \in Of("assistant"), i > window', ~lost'
             PROVE  \E d \in Calls : Rereads(d)'
  BY DEF MemoryRefreshed, SameReplies
<1>1. \A d \in Calls : call'[d] = IF d = c THEN k ELSE call[d]
  BY DEF AssistantStrong, Typed
<1>2. CASE WillReread(k, Replied(c))
  BY <1>1, <1>2, RepliersStay DEF WillReread, Rereads
<1>3. CASE ~WillReread(k, Replied(c))
  <2>1. window' = window /\ ~WillReread(call[c], Replied(c)) /\ ~lost
    BY <1>3
  <2>2. PICK d \in Calls : Rereads(d)
    BY <2>1 DEF AssistantStrong, MemoryRefreshed
  <2>3. d # c
    BY <2>1, <2>2 DEF Rereads, WillReread
  <2> QED
    BY <1>1, <2>2, <2>3, RepliersStay DEF Rereads
<1> QED
  BY <1>2, <1>3

LEMMA AnswersStay ==
  ASSUME AssistantStrong, NEW c \in Calls, NEW k, call' = [call EXCEPT ![c] = k], SameReplies,
         reused \subseteq reused',
         \A s \in pending' \ pending : \A d \in Calls : call[d].kind = "stream" => call[d].of # s,
         k.kind = "stream" /\ Answers(k, Replied(c)) /\ k.of \notin reused' =>
           /\ k.pc \in {"done", "failed"} => k.of \notin pending'
           /\ \/ Answering(k.of) = {}
              \/ call[c].kind = "stream" /\ call[c].of = k.of /\ Answers(call[c], Replied(c))
  PROVE  OneAnswer'
<1> SUFFICES ASSUME NEW s \in Calls, s \notin reused'
             PROVE  /\ \A d, e \in Answering(s)' : d = e
                    /\ \A d \in Answering(s)' : call'[d].pc \in {"done", "failed"} => s \notin pending'
  BY DEF OneAnswer
<1>1. \A d \in Calls : call'[d] = IF d = c THEN k ELSE call[d]
  BY DEF AssistantStrong, Typed
<1>2. /\ \A d, e \in Answering(s) : d = e
      /\ \A d \in Answering(s) : call[d].pc \in {"done", "failed"} => s \notin pending
  BY DEF AssistantStrong, OneAnswer
<1>3. ASSUME NEW d \in Answering(s)'
      PROVE  /\ d \in Answering(s) \/ (d = c /\ Answering(s) = {})
             /\ call'[d].pc \in {"done", "failed"} => s \notin pending'
  <2>1. d \in Calls /\ call'[d].kind = "stream" /\ call'[d].of = s /\ Answers(call'[d], Replied(d))
    BY <1>3, RepliersStay DEF Answering, Answers
  <2>2. call[d].kind = "stream" /\ call[d].of = s /\ Answers(call[d], Replied(d)) => d \in Answering(s)
    BY <2>1 DEF Answering
  <2>3. CASE d = c
    <3>1. call'[d] = k /\ k.of = s
      BY <1>1, <2>1, <2>3
    <3> QED
      BY <2>1, <2>2, <2>3, <3>1
  <2>4. CASE d # c
    <3>1. call'[d] = call[d]
      BY <1>1, <2>1, <2>4
    <3> QED
      BY <1>2, <2>1, <2>2, <3>1
  <2> QED
    BY <2>3, <2>4
<1> QED
  BY <1>2, <1>3

\* What a step of request c, at k then, leaves to the others.
LEMMA CallStep ==
  ASSUME NoneApart, AssistantStrong, NEW c \in Calls, NEW k \in Records, call' = [call EXCEPT ![c] = k],
         UNCHANGED <<row, saved, stale>>, messages' \in Seq(Texts), SameReplies, usage' \subseteq saved,
         window' \in Nat \union {None}, pending' \subseteq Calls,
         call[c].pc # "done",
         Fits(c, k, Repliers, saved), Staged(k),
         c \in Repliers /\ k.pc \in {"compare", "update"} =>
           call[c].pc \in {"compare", "update"} /\ k.tokens = call[c].tokens,
         ~stale => Fresh(k, row),
         OneAnswer', MemoryRefreshed'
  PROVE  AssistantStrong'
<1>1. \A d \in Calls : call'[d] = IF d = c THEN k ELSE call[d]
  BY DEF AssistantStrong, Typed
<1>2. Typed'
  BY DEF AssistantStrong, Typed
<1>3. \A d \in Calls : Fits(d, call[d], Repliers, saved)'
  <2>1. \A d \in Calls : Fits(d, call'[d], Repliers, saved)
    BY <1>1 DEF AssistantStrong
  <2> QED
    BY <2>1, RepliersStay
<1>4. \A d \in Calls : Staged(call[d])'
  BY <1>1 DEF AssistantStrong, Staged, Fits
<1>5. RepliesOwn'
  <2>1. ASSUME NEW i \in Of("assistant"), call'[messages[i].by].pc \in {"compare", "update"}
        PROVE  messages[i].tokens = call'[messages[i].by].tokens
    <3>1. messages[i].by \in Calls
      BY TextsTyped DEF AssistantStrong, Typed, Of
    <3>2. messages[i].by \in Repliers
      BY <2>1, <3>1 DEF Repliers, Replied
    <3> QED
      BY <1>1, <2>1, <3>1, <3>2 DEF AssistantStrong, RepliesOwn
  <2> QED
    BY <2>1 DEF AssistantStrong, RepliesOwn, SameReplies
<1>6. (~stale => \A d \in Calls : Fresh(call[d], row))'
  <2>1. ~stale => \A d \in Calls : Fresh(call'[d], row)
    BY <1>1 DEF AssistantStrong
  <2> QED
    BY <2>1 DEF Fresh
<1>7. TotalExactUnlessStale'
  <2>1. Counted' = Counted
    BY DEF Counted, SameReplies
  <2> QED
    BY <2>1 DEF AssistantStrong, TotalExactUnlessStale
<1> QED
  BY <1>2, <1>3, <1>4, <1>5, <1>6, <1>7 DEF AssistantStrong

\* What holds of request c.
LEMMA CallFacts ==
  ASSUME AssistantStrong, NEW c \in Calls
  PROVE  /\ call[c] \in Records /\ Fits(c, call[c], Repliers, saved) /\ Staged(call[c])
         /\ ~stale => Fresh(call[c], row)
         /\ row \in Rows /\ messages \in Seq(Texts) /\ usage \subseteq saved
         /\ window \in Nat \union {None} /\ pending \subseteq Calls
         /\ Replied(c) <=> c \in Repliers
BY DEF AssistantStrong, Typed, Repliers

LEMMA Moved ==
  ASSUME NEW k \in Records, NEW pc \in Stages, NEW m, m = [k EXCEPT !.pc = pc]
  PROVE  /\ m \in Records /\ m.pc = pc /\ m.kind = k.kind /\ m.of = k.of /\ m.base = k.base
         /\ m.copy = k.copy /\ m.changes = k.changes /\ m.tokens = k.tokens /\ m.live = k.live
BY DEF Records

LEMMA Unheld ==
  ASSUME NEW k, NEW r, k.pc \notin Holding
  PROVE  Fresh(k, r)
BY DEF Fresh, Holding

LEMMA HeldOn ==
  ASSUME NEW k, NEW m, NEW r, Fresh(k, r), k.pc \in Holding, m.base = k.base, m.pc # "update"
  PROVE  Fresh(m, r)
BY DEF Fresh

\* A step of request c that neither stores a reply nor writes the row, and
\* after which c serves the same staged message.
LEMMA PlainStep ==
  ASSUME NoneApart, AssistantStrong, NEW c \in Calls, NEW k \in Records, call' = [call EXCEPT ![c] = k],
         UNCHANGED <<row, saved, stale>>, messages' \in Seq(Texts), SameReplies, usage' \subseteq saved,
         window' \in Nat \union {None}, pending' \subseteq pending, reused \subseteq reused', lost => lost',
         call[c].pc # "done", k.kind = call[c].kind, k.of = call[c].of,
         Fits(c, k, Repliers, saved),
         c \in Repliers /\ k.pc \in {"compare", "update"} =>
           call[c].pc \in {"compare", "update"} /\ k.tokens = call[c].tokens,
         ~stale => Fresh(k, row),
         k.kind = "stream" /\ Answers(k, Replied(c)) /\ k.of \notin reused' =>
           /\ Answers(call[c], Replied(c))
           /\ k.pc \in {"done", "failed"} => k.of \notin pending',
         \/ lost' \/ window' = None \/ WillReread(k, Replied(c))
         \/ window' = window /\ ~WillReread(call[c], Replied(c))
  PROVE  AssistantStrong'
<1>1. Staged(k)
  BY CallFacts DEF Staged
<1>2. MemoryRefreshed'
  BY MemoryStays
<1>3. OneAnswer'
  BY AnswersStay
<1>4. pending' \subseteq Calls
  BY CallFacts
<1> QED
  BY <1>1, <1>2, <1>3, <1>4, CallStep

LEMMA BeginKeeps ==
  ASSUME NoneApart, AssistantStrong, NEW c \in Calls, Begin(c)
  PROVE  AssistantStrong'
<1>1. /\ call[c] = Idle /\ call[c].pc = "idle" /\ c \notin Repliers /\ c \notin saved /\ ~Replied(c)
      /\ ~WillReread(call[c], Replied(c))
  BY CallFacts, Blank DEF Begin, Fits, Unanswered, WillReread
<1>2. UNCHANGED <<row, messages, usage, window, pending, saved, stale, reused, lost>> /\ SameReplies
  BY UnchangedReplies DEF Begin, store, redis, history
<1>3. ASSUME NEW k \in Records, call' = [call EXCEPT ![c] = k], Staged(k), Fits(c, k, Repliers, saved),
             k.pc \in {"find", "marker"}, k.kind = "stream" => k.pc = "marker"
      PROVE  AssistantStrong'
  <2>1. MemoryRefreshed'
    BY <1>1, <1>2, <1>3, MemoryStays
  <2>2. ~(k.kind = "stream" /\ Answers(k, Replied(c)))
    BY <1>1, <1>3 DEF Answers, Preparing
  <2>3. OneAnswer'
    BY <1>2, <1>3, <2>2, AnswersStay
  <2>4. Fresh(k, row)
    BY <1>3, Unheld DEF Holding, Preparing
  <2> QED
    BY <1>1, <1>2, <1>3, <2>1, <2>3, <2>4, CallFacts, CallStep
<1>4. ASSUME NEW kind \in {"send", "stage", "archive", "remove"}, To(c, [Idle EXCEPT !.kind = kind, !.pc = "find"])
      PROVE  AssistantStrong'
  <2> DEFINE k == [Idle EXCEPT !.kind = kind, !.pc = "find"]
  <2>1. k \in Records /\ k.kind = kind /\ k.pc = "find" /\ k.of = None
    BY Blank DEF Records, Kinds, Stages
  <2>2. call' = [call EXCEPT ![c] = k]
    BY <1>4 DEF To
  <2> HIDE DEF k
  <2>3. Staged(k) /\ Fits(c, k, Repliers, saved)
    BY <1>1, <2>1 DEF Staged, Fits, Preparing, Unanswered
  <2> QED
    BY <1>3, <2>1, <2>2, <2>3
<1>5. ASSUME NEW s \in Calls, call[s].kind = "stage", call[s].pc = "done",
             To(c, [Idle EXCEPT !.kind = "stream", !.of = s, !.pc = "marker"])
      PROVE  AssistantStrong'
  <2> DEFINE k == [Idle EXCEPT !.kind = "stream", !.of = s, !.pc = "marker"]
  <2>1. k \in Records /\ k.kind = "stream" /\ k.pc = "marker" /\ k.of = s
    BY Blank DEF Records, Kinds, Stages
  <2>2. call' = [call EXCEPT ![c] = k]
    BY <1>5 DEF To
  <2> HIDE DEF k
  <2>3. Staged(k) /\ Fits(c, k, Repliers, saved)
    BY <1>1, <1>5, <2>1 DEF Staged, Fits, Preparing, Unanswered
  <2> QED
    BY <1>3, <2>1, <2>2, <2>3
<1> QED
  BY <1>4, <1>5 DEF Begin

LEMMA ReadMarkerKeeps ==
  ASSUME NoneApart, AssistantStrong, NEW c \in Calls, ReadMarker(c)
  PROVE  AssistantStrong'
<1>1. /\ call[c].pc = "marker" /\ call[c].kind = "stream" /\ c \notin Repliers /\ c \notin saved /\ ~Replied(c)
      /\ ~WillReread(call[c], Replied(c)) /\ call[c] \in Records /\ call[c].of \in Calls
  BY CallFacts DEF ReadMarker, Fits, Unanswered, WillReread
<1>2. UNCHANGED <<row, messages, usage, window, pending, saved, stale, lost>> /\ SameReplies
  BY UnchangedReplies DEF ReadMarker, store, redis
<1>3. ASSUME NEW pc \in {"find", "clear"}, At(c, pc), reused \subseteq reused',
             pc = "find" /\ call[c].of \notin reused' => Answering(call[c].of) = {}
      PROVE  AssistantStrong'
  <2> DEFINE k == [call[c] EXCEPT !.pc = pc]
  <2>1. /\ k \in Records /\ k.pc = pc /\ k.kind = "stream" /\ k.of = call[c].of
    BY <1>1, Moved DEF Stages
  <2>2. call' = [call EXCEPT ![c] = k]
    BY <1>3 DEF To, At
  <2> HIDE DEF k
  <2>3. Staged(k)
    BY <1>1, <2>1, CallFacts DEF Staged
  <2>4. Fits(c, k, Repliers, saved)
    BY <1>1, <1>3, <2>1 DEF Fits, Preparing
  <2>5. MemoryRefreshed'
    BY <1>1, <1>2, <2>2, MemoryStays
  <2>6. Answers(k, Replied(c)) => pc = "find"
    BY <1>1, <1>3, <2>1 DEF Answers, Preparing
  <2>7. OneAnswer'
    BY <1>2, <1>3, <2>1, <2>2, <2>6, AnswersStay
  <2>8. Fresh(k, row)
    BY <1>3, <2>1, Unheld DEF Holding, Preparing
  <2> QED
    BY <1>1, <1>2, <2>1, <2>2, <2>3, <2>4, <2>5, <2>7, <2>8, CallFacts, CallStep
<1>4. ASSUME call[c].of \in pending, Streaming(call[c].of) = {}, call[c].of \notin reused
      PROVE  Answering(call[c].of) = {}
  <2> SUFFICES ASSUME NEW d \in Answering(call[c].of)
               PROVE  FALSE
    OBVIOUS
  <2>1. d \in Calls /\ call[d].kind = "stream" /\ call[d].of = call[c].of /\ Answers(call[d], Replied(d))
    BY DEF Answering
  <2>2. call[d].pc \in {"marker"} \union Ended
    BY <1>4, <2>1 DEF Streaming
  <2>3. call[d].pc \in {"done", "failed"} /\ Replied(d)
    BY <2>1, <2>2, CallFacts DEF Fits, Unanswered, Answers, Preparing, Ended
  <2> QED
    BY <1>1, <1>4, <2>3 DEF AssistantStrong, OneAnswer
<1> QED
  BY <1>1, <1>3, <1>4 DEF ReadMarker

LEMMA FindOwnedKeeps ==
  ASSUME NoneApart, AssistantStrong, NEW c \in Calls, FindOwned(c)
  PROVE  AssistantStrong'
<1>1. /\ call[c].pc = "find" /\ c \notin Repliers /\ c \notin saved /\ ~Replied(c)
      /\ ~WillReread(call[c], Replied(c)) /\ call[c] \in Records /\ row \in Rows
      /\ call[c].kind \in {"send", "stage", "archive", "remove", "stream"}
      /\ IF call[c].kind = "stream" THEN call[c].of \in Calls ELSE call[c].of = None
  BY CallFacts DEF FindOwned, Fits, Unanswered, WillReread, Records, Kinds
<1>2. UNCHANGED <<row, messages, usage, window, pending, saved, stale, reused, lost>> /\ SameReplies
  BY UnchangedReplies DEF FindOwned, store, redis, history
<1>3. ASSUME NEW k \in Records, call' = [call EXCEPT ![c] = k], k.kind = call[c].kind, k.of = call[c].of,
             Fits(c, k, Repliers, saved), Fresh(k, row), k.kind = "stream" => k.pc \in {"check", "clear"}
      PROVE  AssistantStrong'
  <2>1. Answers(call[c], Replied(c))
    BY <1>1 DEF Answers
  <2> QED
    BY <1>1, <1>2, <1>3, <2>1, CallFacts, PlainStep
<1>4. CASE MayFind(row)
  <2> DEFINE k == WithCopy(call[c], row)
  <2>1. CASE call[c].kind \in {"send", "stage", "stream"}
    <3>1. k = [call[c] EXCEPT !.base = row, !.copy = row, !.pc = IF call[c].kind = "stream" THEN "check" ELSE "user"]
      BY <2>1 DEF WithCopy
    <3>2. /\ k \in Records /\ k.kind = call[c].kind /\ k.of = call[c].of /\ k.base = row /\ k.copy = row
          /\ k.pc = IF call[c].kind = "stream" THEN "check" ELSE "user"
      BY <1>1, <3>1 DEF Records, Stages
    <3>3. call' = [call EXCEPT ![c] = k]
      BY <1>4 DEF FindOwned, To
    <3> HIDE DEF k
    <3>4. Fits(c, k, Repliers, saved)
      BY <1>1, <2>1, <3>2 DEF Fits, Preparing
    <3>5. Fresh(k, row)
      BY <1>1, <3>2, EarlierIsOrder DEF Fresh
    <3> QED
      BY <1>3, <3>2, <3>3, <3>4, <3>5
  <2>2. CASE call[c].kind \in {"archive", "remove"}
    <3> DEFINE x == [row EXCEPT !.status = IF call[c].kind = "archive" THEN "archived" ELSE "deleted"]
    <3>1. k = [call[c] EXCEPT !.base = row, !.copy = x, !.pc = "compare"]
      BY <2>2 DEF WithCopy
    <3>2. x \in Rows
      BY <1>1 DEF Rows
    <3>3. /\ k \in Records /\ k.kind = call[c].kind /\ k.of = call[c].of /\ k.base = row /\ k.pc = "compare"
          /\ k.copy = x
      BY <1>1, <3>1, <3>2 DEF Records, Stages
    <3>4. call' = [call EXCEPT ![c] = k]
      BY <1>4 DEF FindOwned, To
    <3> HIDE DEF k
    <3>5. k.copy = Entity(k, c \in Repliers)
      BY <1>1, <2>2, <3>3 DEF Entity
    <3> HIDE DEF x
    <3>6. Fits(c, k, Repliers, saved)
      BY <1>1, <1>4, <2>2, <3>3, <3>5 DEF Fits, Preparing, MayFind
    <3>7. Fresh(k, row)
      BY <1>1, <3>3, EarlierIsOrder DEF Fresh
    <3> QED
      BY <1>3, <2>2, <3>3, <3>4, <3>6, <3>7
  <2> QED
    BY <1>1, <2>1, <2>2
<1>5. CASE ~MayFind(row) /\ call[c].kind = "stream"
  <2> DEFINE k == [call[c] EXCEPT !.pc = "clear"]
  <2>1. /\ k \in Records /\ k.pc = "clear" /\ k.kind = "stream" /\ k.of = call[c].of
    BY <1>1, <1>5, Moved DEF Stages
  <2>2. call' = [call EXCEPT ![c] = k]
    BY <1>5 DEF FindOwned, Throws, To, At
  <2> HIDE DEF k
  <2>3. Fits(c, k, Repliers, saved) /\ Fresh(k, row)
    BY <1>1, <1>5, <2>1 DEF Fits, Preparing, Fresh, Holding
  <2> QED
    BY <1>3, <1>5, <2>1, <2>2, <2>3
<1>6. CASE ~MayFind(row) /\ call[c].kind # "stream"
  <2> DEFINE k == Over(call[c], "failed")
  <2>1. /\ k \in Records /\ k.pc = "failed" /\ k.kind = call[c].kind /\ k.of = call[c].of
    BY <1>1, OverIsRecord
  <2>2. call' = [call EXCEPT ![c] = k]
    BY <1>6 DEF FindOwned, Throws, To
  <2> HIDE DEF k
  <2>3. Fits(c, k, Repliers, saved) /\ Fresh(k, row)
    BY <1>1, <1>6, <2>1 DEF Fits, Preparing, Fresh, Holding
  <2> QED
    BY <1>3, <1>6, <2>1, <2>2, <2>3
<1> QED
  BY <1>4, <1>5, <1>6

LEMMA InsertUserKeeps ==
  ASSUME NoneApart, AssistantStrong, NEW c \in Calls, InsertUser(c)
  PROVE  AssistantStrong'
<1>1. /\ call[c].pc = "user" /\ c \notin Repliers /\ c \notin saved /\ ~Replied(c)
      /\ ~WillReread(call[c], Replied(c)) /\ call[c] \in Records
      /\ call[c].kind \in {"send", "stage"} /\ call[c].of = None /\ call[c].copy = call[c].base
  BY CallFacts DEF InsertUser, Fits, Unanswered, WillReread
<1>2. UNCHANGED <<row, usage, window, pending, saved, stale, reused, lost>>
  BY DEF InsertUser, redis, history
<1>3. messages' \in Seq(Texts) /\ SameReplies
  <2> DEFINE m == [role |-> "user", by |-> c, tokens |-> 0]
  <2>1. m \in Texts /\ messages' = Append(messages, m) /\ messages \in Seq(Texts) /\ m.role = "user"
    BY CallFacts DEF Texts, InsertUser, Stored
  <2> HIDE DEF m
  <2>2. /\ messages' \in Seq(Texts)
        /\ \A i \in DOMAIN messages : messages'[i] = messages[i]
        /\ Len(messages) + 1 \notin DOMAIN messages /\ messages'[Len(messages) + 1] = m
        /\ DOMAIN messages' = DOMAIN messages \union {Len(messages) + 1}
    BY <2>1, MessageAdded
  <2>3. Of("assistant")' = Of("assistant")
    BY <2>1, <2>2 DEF Of
  <2> QED
    BY <2>2, <2>3 DEF SameReplies, Of
<1>4. ASSUME NEW k \in Records, call' = [call EXCEPT ![c] = k], k.kind = call[c].kind, k.of = call[c].of,
             Fits(c, k, Repliers, saved), ~stale => Fresh(k, row)
      PROVE  AssistantStrong'
  BY <1>1, <1>2, <1>3, <1>4, CallFacts, PlainStep
<1>5. CASE call[c].copy.titled
  <2> DEFINE pc == AfterUser(call[c].kind)
             k == [call[c] EXCEPT !.pc = pc]
  <2>1. pc \in {"check", "mark"} /\ (pc = "mark" => call[c].kind = "stage") /\ (pc = "check" => call[c].kind = "send")
    BY <1>1 DEF AfterUser
  <2>2. call' = [call EXCEPT ![c] = k]
    BY <1>5 DEF InsertUser, At, To
  <2> HIDE DEF pc
  <2>3. /\ k \in Records /\ k.pc = pc /\ k.kind = call[c].kind /\ k.of = call[c].of /\ k.base = call[c].base
        /\ k.copy = call[c].copy
    BY <1>1, <2>1, Moved DEF Stages
  <2> HIDE DEF k
  <2>4. Fits(c, k, Repliers, saved)
    BY <1>1, <2>1, <2>3 DEF Fits, Preparing
  <2>5. ~stale => Fresh(k, row)
    BY <1>1, <2>1, <2>3, CallFacts, HeldOn DEF Holding
  <2> QED
    BY <1>4, <2>2, <2>3, <2>4, <2>5
<1>6. CASE ~call[c].copy.titled
  <2> DEFINE x == [call[c].copy EXCEPT !.titled = TRUE]
             k == [call[c] EXCEPT !.copy = x, !.pc = "compare"]
  <2>1. x \in Rows
    BY <1>1 DEF Rows, Records
  <2>2. [call[c] EXCEPT !.copy.titled = TRUE, !.pc = "compare"] = k
    BY <1>1 DEF Records
  <2>3. call' = [call EXCEPT ![c] = k]
    BY <1>6, <2>2 DEF InsertUser, To
  <2>4. x = [call[c].base EXCEPT !.titled = TRUE]
    BY <1>1
  <2> HIDE DEF x
  <2>5. /\ k \in Records /\ k.pc = "compare" /\ k.kind = call[c].kind /\ k.of = call[c].of /\ k.base = call[c].base
        /\ k.copy = x
    BY <1>1, <2>1 DEF Records, Stages
  <2> HIDE DEF k
  <2>6. k.copy = Entity(k, c \in Repliers)
    BY <1>1, <2>4, <2>5 DEF Entity
  <2>7. Fits(c, k, Repliers, saved)
    BY <1>1, <2>5, <2>6 DEF Fits, Preparing
  <2>8. ~stale => Fresh(k, row)
    BY <1>1, <2>5, CallFacts, HeldOn DEF Holding
  <2> QED
    BY <1>4, <2>3, <2>5, <2>7, <2>8
<1> QED
  BY <1>5, <1>6

\* A step of a request that is preparing its reply.
LEMMA PreparingStep ==
  ASSUME NoneApart, AssistantStrong, NEW c \in Calls, NEW k \in Records, call' = [call EXCEPT ![c] = k],
         UNCHANGED <<row, saved, stale, messages, usage, pending, reused>>,
         window' \in Nat \union {None}, lost => lost', call[c].pc \in Preparing,
         k.kind = call[c].kind, k.of = call[c].of, k.base = call[c].base, k.copy = call[c].copy,
         k.pc \in Preparing,
         \/ lost' \/ k.pc \in {"provider", "reply"}
         \/ window' = window /\ call[c].pc \notin {"provider", "reply"}
  PROVE  AssistantStrong'
<1>1. c \notin Repliers /\ c \notin saved /\ ~Replied(c) /\ call[c] \in Records /\ call[c].copy = call[c].base
      /\ call[c].kind \in {"send", "stream"} /\ Fits(c, call[c], Repliers, saved)
  BY CallFacts DEF Fits, Unanswered
<1>2. Fits(c, k, Repliers, saved)
  BY <1>1 DEF Fits, Preparing
<1>3. ~stale => Fresh(k, row)
  BY CallFacts, HeldOn DEF Holding, Preparing
<1>4. SameReplies
  BY UnchangedReplies
<1>5. \/ lost' \/ window' = None \/ WillReread(k, Replied(c))
      \/ window' = window /\ ~WillReread(call[c], Replied(c))
  BY <1>1 DEF WillReread, Preparing
<1>6. Answers(call[c], Replied(c)) /\ k.pc \notin {"compare", "update", "done", "failed"} /\ call[c].pc # "done"
  BY DEF Answers, Preparing
<1> QED
  BY <1>1, <1>2, <1>3, <1>4, <1>5, <1>6, CallFacts, PlainStep

\* A step by which a request comes to an end, or to the clearing of its marker.
LEMMA LeavingStep ==
  ASSUME NoneApart, AssistantStrong, NEW c \in Calls, NEW k \in Records, call' = [call EXCEPT ![c] = k],
         UNCHANGED <<row, saved, stale, messages, window>>, usage' \subseteq saved,
         pending' \subseteq pending, reused \subseteq reused', lost => lost',
         call[c].pc \notin {"idle", "done"}, k.kind = call[c].kind, k.of = call[c].of,
         k.pc \in {"done", "failed"} \/ (k.pc = "clear" /\ k.kind = "stream"),
         k.kind = "stream" /\ Replied(c) /\ k.of \notin reused' =>
           k.pc = "clear" \/ k.of \notin pending',
         lost' \/ ~WillReread(call[c], Replied(c))
  PROVE  AssistantStrong'
<1>1. Fits(c, k, Repliers, saved)
  <2>1. Fits(c, call[c], Repliers, saved) /\ call[c].kind # "none"
    BY CallFacts DEF Fits
  <2> QED
    BY <2>1 DEF Fits, Preparing, Unanswered
<1>2. Fresh(k, row)
  BY Unheld DEF Holding, Preparing
<1>3. SameReplies
  BY UnchangedReplies
<1>4. Answers(k, Replied(c)) => Replied(c)
  BY DEF Answers, Preparing
<1>5. Replied(c) => Answers(call[c], Replied(c))
  BY DEF Answers
<1> QED
  BY <1>1, <1>2, <1>3, <1>4, <1>5, CallFacts, PlainStep

LEMMA CheckContentKeeps ==
  ASSUME NoneApart, AssistantStrong, NEW c \in Calls, CheckContent(c)
  PROVE  AssistantStrong'
<1>1. PICK pc \in {"window", "reply"} : At(c, pc)
  BY DEF CheckContent
<1> DEFINE k == [call[c] EXCEPT !.pc = pc]
<1>2. k \in Records /\ k.pc = pc /\ k.kind = call[c].kind /\ k.of = call[c].of /\ k.base = call[c].base /\ k.copy = call[c].copy
  BY CallFacts, Moved DEF Stages
<1>3. call' = [call EXCEPT ![c] = k]
  BY <1>1 DEF At, To
<1> HIDE DEF k
<1> QED
  BY <1>2, <1>3, CallFacts, PreparingStep DEF CheckContent, Preparing, store, redis, history

LEMMA ReadWindowKeeps ==
  ASSUME NoneApart, AssistantStrong, NEW c \in Calls, ReadWindow(c)
  PROVE  AssistantStrong'
<1>1. PICK pc \in {"provider", "recent"} : At(c, pc)
  BY DEF ReadWindow, At
<1> DEFINE k == [call[c] EXCEPT !.pc = pc]
<1>2. k \in Records /\ k.pc = pc /\ k.kind = call[c].kind /\ k.of = call[c].of /\ k.base = call[c].base /\ k.copy = call[c].copy
  BY CallFacts, Moved DEF Stages
<1>3. call' = [call EXCEPT ![c] = k]
  BY <1>1 DEF At, To
<1> HIDE DEF k
<1> QED
  BY <1>2, <1>3, CallFacts, PreparingStep DEF ReadWindow, Preparing, store, redis, history

LEMMA FindRecentKeeps ==
  ASSUME NoneApart, AssistantStrong, NEW c \in Calls, FindRecent(c)
  PROVE  AssistantStrong'
<1> DEFINE k == [call[c] EXCEPT !.seen = Len(messages), !.pc = "fill"]
<1>1. Len(messages) \in Nat
  BY CallFacts
<1>2. k \in Records /\ k.pc = "fill" /\ k.kind = call[c].kind /\ k.of = call[c].of /\ k.base = call[c].base /\ k.copy = call[c].copy
  BY <1>1, CallFacts DEF Records, Stages
<1>3. call' = [call EXCEPT ![c] = k]
  BY DEF FindRecent, To
<1> HIDE DEF k
<1> QED
  BY <1>2, <1>3, CallFacts, PreparingStep DEF FindRecent, Preparing, store, redis, history

LEMMA FillWindowKeeps ==
  ASSUME NoneApart, AssistantStrong, NEW c \in Calls, FillWindow(c)
  PROVE  AssistantStrong'
<1> DEFINE k == [call[c] EXCEPT !.seen = 0, !.pc = "provider"]
<1>1. k \in Records /\ k.pc = "provider" /\ k.kind = call[c].kind /\ k.of = call[c].of /\ k.base = call[c].base /\ k.copy = call[c].copy
  BY CallFacts DEF Records, Stages
<1>2. call' = [call EXCEPT ![c] = k]
  BY DEF FillWindow, To
<1> HIDE DEF k
<1>3. window' \in Nat \union {None}
  BY CallFacts DEF FillWindow, Records
<1> QED
  BY <1>1, <1>2, <1>3, CallFacts, PreparingStep DEF FillWindow, Preparing, store, history

LEMMA ProviderKeeps ==
  ASSUME NoneApart, AssistantStrong, NEW c \in Calls, Provider(c)
  PROVE  AssistantStrong'
<1>1. call[c].pc = "provider" /\ call[c] \in Records /\ window \in Nat \union {None}
  BY CallFacts DEF Provider
<1>2. UNCHANGED <<row, messages, usage, window, pending, saved, stale, reused>>
  BY DEF Provider, store, redis
<1>3. ASSUME NEW n \in {0, 1}, To(c, [call[c] EXCEPT !.live = TRUE, !.pc = "reply", !.tokens = n]), UNCHANGED lost
      PROVE  AssistantStrong'
  <2> DEFINE k == [call[c] EXCEPT !.live = TRUE, !.pc = "reply", !.tokens = n]
  <2>1. k \in Records /\ k.pc = "reply" /\ k.kind = call[c].kind /\ k.of = call[c].of /\ k.base = call[c].base /\ k.copy = call[c].copy
    BY <1>1 DEF Records, Stages
  <2>2. call' = [call EXCEPT ![c] = k]
    BY <1>3 DEF To
  <2> HIDE DEF k
  <2> QED
    BY <1>1, <1>2, <1>3, <2>1, <2>2, PreparingStep DEF Preparing
<1>4. ASSUME To(c, [call[c] EXCEPT !.live = TRUE, !.pc = "reply"]), UNCHANGED lost
      PROVE  AssistantStrong'
  <2>1. [call[c] EXCEPT !.live = TRUE, !.pc = "reply"] =
          [call[c] EXCEPT !.live = TRUE, !.pc = "reply", !.tokens = call[c].tokens]
    BY <1>1 DEF Records
  <2>2. call[c].tokens \in {0, 1}
    BY <1>1 DEF Records
  <2> QED
    BY <1>3, <1>4, <2>1, <2>2
<1>5. ASSUME call[c].kind = "send", Throws(c), lost' = TRUE
      PROVE  AssistantStrong'
  <2> DEFINE k == Over(call[c], "failed")
  <2>1. k \in Records /\ k.pc = "failed" /\ k.kind = call[c].kind /\ k.of = call[c].of
    BY <1>1, OverIsRecord
  <2>2. call' = [call EXCEPT ![c] = k]
    BY <1>5 DEF Throws, To
  <2> HIDE DEF k
  <2> QED
    BY <1>1, <1>2, <1>5, <2>1, <2>2, CallFacts, LeavingStep
<1>6. [[call[c] EXCEPT !.live = TRUE, !.pc = "reply"] EXCEPT !.tokens = 1] =
        [call[c] EXCEPT !.live = TRUE, !.pc = "reply", !.tokens = 1]
  BY <1>1 DEF Records
<1>7. [call[c] EXCEPT !.live = TRUE, !.pc = "reply"].kind = call[c].kind
  BY <1>1 DEF Records
<1> QED
  BY <1>3, <1>4, <1>5, <1>6, <1>7 DEF Provider

LEMMA DisconnectKeeps ==
  ASSUME NoneApart, AssistantStrong, NEW c \in Calls, Disconnect(c)
  PROVE  AssistantStrong'
<1> DEFINE k == Over(call[c], "done")
<1>1. k \in Records /\ k.pc = "done" /\ k.kind = call[c].kind /\ k.of = call[c].of
  BY CallFacts, OverIsRecord
<1>2. call' = [call EXCEPT ![c] = k]
  BY DEF Disconnect, To
<1> HIDE DEF k
<1>3. ~Replied(c)
  BY CallFacts DEF Disconnect, Fits, Unanswered, Preparing
<1>4. call[c].pc = "provider" /\ lost' /\ UNCHANGED <<row, messages, usage, window, pending, saved, stale, reused>>
  BY DEF Disconnect, store, redis
<1> QED
  BY <1>1, <1>2, <1>3, <1>4, CallFacts, LeavingStep

LEMMA CompareRowKeeps ==
  ASSUME NoneApart, AssistantStrong, NEW c \in Calls, CompareRow(c)
  PROVE  AssistantStrong'
<1> DEFINE fs == Differing(call[c].copy, row)
           k == [call[c] EXCEPT !.changes = fs, !.pc = "update"]
<1>1. call[c].pc = "compare" /\ call[c] \in Records /\ Fits(c, call[c], Repliers, saved)
  BY CallFacts DEF CompareRow
<1>2. call' = [call EXCEPT ![c] = k]
  BY DEF CompareRow, To
<1>3. fs \subseteq Columns
  BY Blank DEF Differing
<1> HIDE DEF fs
<1>4. /\ k \in Records /\ k.pc = "update" /\ k.kind = call[c].kind /\ k.of = call[c].of /\ k.base = call[c].base
      /\ k.copy = call[c].copy /\ k.tokens = call[c].tokens /\ k.changes = fs
  BY <1>1, <1>3 DEF Records, Stages
<1> HIDE DEF k
<1>5. Fits(c, k, Repliers, saved)
  <2>1. Entity(k, c \in Repliers) = Entity(call[c], c \in Repliers)
    BY <1>4 DEF Entity
  <2> QED
    BY <1>1, <1>4, <2>1 DEF Fits, Preparing, Unanswered
<1>6. ~stale => Fresh(k, row)
  <2> SUFFICES ASSUME ~stale PROVE Fresh(k, row)
    OBVIOUS
  <2>1. Earlier(call[c].base, row) /\ Earlier(row, row) /\ row \in Rows
    BY <1>1, CallFacts, EarlierIsOrder DEF Fresh, Holding
  <2> QED
    BY <1>4, <2>1 DEF Fresh, fs
<1>7. WillReread(k, Replied(c)) \/ ~WillReread(call[c], Replied(c))
  BY <1>1, <1>4 DEF WillReread
<1>8. Answers(call[c], Replied(c))
  BY <1>1 DEF Answers
<1>9. UNCHANGED <<row, messages, usage, window, pending, saved, stale, reused, lost>> /\ SameReplies
  BY UnchangedReplies DEF CompareRow, store, redis, history
<1> QED
  BY <1>1, <1>2, <1>4, <1>5, <1>6, <1>7, <1>8, <1>9, CallFacts, PlainStep

LEMMA InvalidateKeeps ==
  ASSUME NoneApart, AssistantStrong, NEW c \in Calls, Invalidate(c)
  PROVE  AssistantStrong'
<1> DEFINE k == [call[c] EXCEPT !.pc = "usage"]
<1>1. call[c].pc = "invalidate" /\ call[c] \in Records /\ Fits(c, call[c], Repliers, saved)
  BY CallFacts DEF Invalidate
<1>2. k \in Records /\ k.pc = "usage" /\ k.kind = call[c].kind /\ k.of = call[c].of
  BY <1>1, Moved DEF Stages
<1>3. call' = [call EXCEPT ![c] = k]
  BY DEF Invalidate, At, To
<1> HIDE DEF k
<1>4. Fits(c, k, Repliers, saved)
  BY <1>1, <1>2 DEF Fits, Preparing, Unanswered
<1>5. Fresh(k, row)
  BY <1>2, Unheld DEF Holding, Preparing
<1>6. Answers(call[c], Replied(c))
  BY <1>1 DEF Answers
<1>7. UNCHANGED <<row, messages, usage, pending, saved, stale, reused>> /\ SameReplies
  BY UnchangedReplies DEF Invalidate, store
<1>8. (lost => lost') /\ window' \in Nat \union {None} /\ (lost' \/ window' = None)
  BY CallFacts DEF Invalidate
<1> QED
  BY <1>1, <1>2, <1>3, <1>4, <1>5, <1>6, <1>7, <1>8, CallFacts, PlainStep

LEMMA RecordUsageKeeps ==
  ASSUME NoneApart, AssistantStrong, NEW c \in Calls, RecordUsage(c)
  PROVE  AssistantStrong'
<1>1. /\ call[c].pc = "usage" /\ call[c] \in Records /\ c \in saved
      /\ ~WillReread(call[c], Replied(c))
  BY CallFacts DEF RecordUsage, Fits, WillReread
<1>2. UNCHANGED <<row, messages, window, pending, saved, stale, reused, lost>> /\ usage' \subseteq saved
  BY <1>1, CallFacts DEF RecordUsage, redis, history
<1>3. CASE call[c].kind = "stream"
  <2> DEFINE k == [call[c] EXCEPT !.pc = "clear"]
  <2>1. k \in Records /\ k.pc = "clear" /\ k.kind = call[c].kind /\ k.of = call[c].of
    BY <1>1, Moved DEF Stages
  <2>2. call' = [call EXCEPT ![c] = k]
    BY <1>3 DEF RecordUsage, At, To
  <2> HIDE DEF k
  <2> QED
    BY <1>1, <1>2, <1>3, <2>1, <2>2, LeavingStep
<1>4. CASE call[c].kind # "stream"
  <2> DEFINE k == Over(call[c], "done")
  <2>1. k \in Records /\ k.pc = "done" /\ k.kind = call[c].kind /\ k.of = call[c].of
    BY <1>1, OverIsRecord
  <2>2. call' = [call EXCEPT ![c] = k]
    BY <1>4 DEF RecordUsage, To
  <2> HIDE DEF k
  <2> QED
    BY <1>1, <1>2, <1>4, <2>1, <2>2, LeavingStep
<1> QED
  BY <1>3, <1>4

LEMMA SetMarkerKeeps ==
  ASSUME NoneApart, AssistantStrong, NEW c \in Calls, SetMarker(c)
  PROVE  AssistantStrong'
<1> DEFINE k == Over(call[c], "done")
<1>1. /\ call[c].pc = "mark" /\ call[c] \in Records /\ c \notin Repliers /\ c \notin saved
      /\ call[c].kind \in {"send", "stage"} /\ call[c].of = None
  BY CallFacts DEF SetMarker, Fits, Unanswered
<1>2. k \in Records /\ k.pc = "done" /\ k.kind = call[c].kind /\ k.of = None
  BY <1>1, OverIsRecord
<1>3. call' = [call EXCEPT ![c] = k]
  BY DEF SetMarker, To
<1> HIDE DEF k
<1>4. UNCHANGED <<row, messages, usage, window, saved, stale, reused, lost>> /\ SameReplies
  BY UnchangedReplies DEF SetMarker, store, history
<1>5. pending' \subseteq pending \union {c} /\ pending' \subseteq Calls
  BY CallFacts DEF SetMarker
<1>6. \A s \in pending' \ pending : \A d \in Calls : call[d].kind = "stream" => call[d].of # s
  <2> SUFFICES ASSUME NEW d \in Calls, call[d].kind = "stream"
               PROVE  call[d].of # c
    BY <1>5
  <2> QED
    BY <1>1, CallFacts DEF Staged
<1>7. OneAnswer'
  BY <1>1, <1>2, <1>3, <1>4, <1>6, AnswersStay
<1>8. MemoryRefreshed'
  BY <1>1, <1>3, <1>4, MemoryStays DEF WillReread
<1>9. Fits(c, k, Repliers, saved) /\ Staged(k) /\ Fresh(k, row)
  BY <1>1, <1>2 DEF Fits, Staged, Fresh, Preparing, Holding
<1> QED
  BY <1>1, <1>2, <1>3, <1>4, <1>5, <1>7, <1>8, <1>9, CallFacts, CallStep

LEMMA ClearMarkerKeeps ==
  ASSUME NoneApart, AssistantStrong, NEW c \in Calls, ClearMarker(c)
  PROVE  AssistantStrong'
<1> DEFINE k == Over(call[c], "done")
<1>1. /\ call[c].pc = "clear" /\ call[c] \in Records /\ ~WillReread(call[c], Replied(c))
  BY CallFacts DEF ClearMarker, WillReread
<1>2. k \in Records /\ k.pc = "done" /\ k.kind = call[c].kind /\ k.of = call[c].of
  BY <1>1, OverIsRecord
<1>3. call' = [call EXCEPT ![c] = k]
  BY DEF ClearMarker, To
<1> HIDE DEF k
<1>4. UNCHANGED <<row, messages, usage, window, saved, stale, lost>>
  BY DEF ClearMarker, store
<1>5. /\ pending' \subseteq pending /\ reused \subseteq reused'
      /\ Replied(c) /\ call[c].of \notin reused' => call[c].of \notin pending'
  BY DEF ClearMarker
<1> QED
  BY <1>1, <1>2, <1>3, <1>4, <1>5, CallFacts, LeavingStep

LEMMA FailKeeps ==
  ASSUME NoneApart, AssistantStrong, NEW c \in Calls, Fail(c)
  PROVE  AssistantStrong'
<1>1. /\ call[c].pc \notin {"idle", "done"} /\ call[c] \in Records
      /\ lost' \/ ~WillReread(call[c], Replied(c))
      /\ lost => lost'
  BY CallFacts DEF Fail, Rereads, WillReread
<1>2. UNCHANGED <<row, messages, usage, window, pending, saved, stale>>
  BY DEF Fail, store, redis
<1>3. CASE call[c].kind = "stream" /\ ~call[c].live
  <2> DEFINE k == [call[c] EXCEPT !.pc = "clear"]
  <2>1. k \in Records /\ k.pc = "clear" /\ k.kind = call[c].kind /\ k.of = call[c].of
    BY <1>1, Moved DEF Stages
  <2>2. call' = [call EXCEPT ![c] = k] /\ UNCHANGED reused
    BY <1>3 DEF Fail, Throws, At, To
  <2> HIDE DEF k
  <2> QED
    BY <1>1, <1>2, <1>3, <2>1, <2>2, CallFacts, LeavingStep
<1>4. CASE ~(call[c].kind = "stream" /\ ~call[c].live)
  <2> DEFINE k == Over(call[c], "failed")
  <2>1. k \in Records /\ k.pc = "failed" /\ k.kind = call[c].kind /\ k.of = call[c].of
    BY <1>1, OverIsRecord
  <2>2. call' = [call EXCEPT ![c] = k]
    BY <1>4 DEF Fail, To
  <2> HIDE DEF k
  <2>3. reused \subseteq reused' /\ (Replied(c) /\ call[c].kind = "stream" => call[c].of \in reused')
    BY <1>4 DEF Fail
  <2> QED
    BY <1>1, <1>2, <2>1, <2>2, <2>3, CallFacts, LeavingStep
<1> QED
  BY <1>3, <1>4

\* Keys expire by themselves.
LEMMA CallsAside ==
  ASSUME AssistantStrong, UNCHANGED <<row, messages, usage, call, saved, stale, reused, lost>>,
         pending' \subseteq pending, window' = None \/ window' = window
  PROVE  AssistantStrong'
<1>1. /\ UNCHANGED <<row, messages, usage, call, saved, stale, reused, lost>>
      /\ pending' \subseteq pending /\ (window' = None \/ window' = window)
  OBVIOUS
<1>2. SameReplies
  BY <1>1, UnchangedReplies
<1>3. Typed'
  BY <1>1 DEF AssistantStrong, Typed
<1>4. Repliers' = Repliers
  BY <1>2, RepliersStay
<1>5. OneAnswer'
  <2>1. \A s \in Calls : Answering(s)' = Answering(s)
    BY <1>1, <1>2, RepliersStay DEF Answering, Answers
  <2> QED
    BY <1>1, <2>1 DEF AssistantStrong, OneAnswer
<1>6. MemoryRefreshed'
  <2>1. \A c \in Calls : Rereads(c) => Rereads(c)'
    BY <1>1, <1>2, RepliersStay DEF Rereads
  <2> QED
    BY <1>1, <1>2, <2>1 DEF AssistantStrong, MemoryRefreshed, SameReplies
<1>7. (RepliesOwn /\ TotalExactUnlessStale)'
  BY <1>1 DEF AssistantStrong, RepliesOwn, TotalExactUnlessStale, Counted, Of
<1>8. (\A c \in Calls : Fits(c, call[c], Repliers, saved) /\ Staged(call[c]))'
  BY <1>1, <1>4 DEF AssistantStrong, Staged
<1>9. (~stale => \A c \in Calls : Fresh(call[c], row))'
  BY <1>1 DEF AssistantStrong
<1> QED
  BY <1>3, <1>5, <1>6, <1>7, <1>8, <1>9 DEF AssistantStrong

LEMMA InsertReplyKeeps ==
  ASSUME NoneApart, AssistantStrong, NEW c \in Calls, InsertReply(c)
  PROVE  AssistantStrong'
<1> DEFINE n == call[c].tokens
           x == [call[c].copy EXCEPT !.total = @ + n]
           k == [call[c] EXCEPT !.copy = x, !.pc = "compare"]
           m == [role |-> "assistant", by |-> c, tokens |-> n]
           new == Len(messages) + 1
<1>1. /\ call[c].pc = "reply" /\ call[c] \in Records /\ c \notin Repliers /\ c \notin saved /\ ~Replied(c)
      /\ call[c].kind \in {"send", "stream"} /\ call[c].copy = call[c].base /\ n \in {0, 1}
      /\ Fits(c, call[c], Repliers, saved)
  BY CallFacts DEF InsertReply, Fits, Unanswered, Preparing, Records
<1>2. UNCHANGED <<row, usage, window, pending, saved, stale, reused, lost>>
  BY DEF InsertReply, redis, history
<1>3. x \in Rows /\ x = [call[c].base EXCEPT !.total = @ + n]
  BY <1>1 DEF Records, Rows
<1>4. [call[c] EXCEPT !.copy.total = @ + n, !.pc = "compare"] = k
  BY <1>1 DEF Records
<1>5. call' = [call EXCEPT ![c] = k]
  BY <1>4 DEF InsertReply, To
<1>6. /\ k \in Records /\ k.pc = "compare" /\ k.kind = call[c].kind /\ k.of = call[c].of /\ k.base = call[c].base
      /\ k.copy = x /\ k.tokens = n
  BY <1>1, <1>3 DEF Records, Stages
<1>7. k.copy = Entity(k, TRUE)
  BY <1>3, <1>6 DEF Entity
<1> HIDE DEF x, k
<1>8. \A d \in Calls : call'[d] = IF d = c THEN k ELSE call[d]
  BY <1>5 DEF AssistantStrong, Typed
<1>9. m \in Texts /\ messages' = Append(messages, m) /\ messages \in Seq(Texts)
  BY <1>1, CallFacts DEF Texts, InsertReply, Stored
<1>10. m.role = "assistant" /\ m.by = c /\ m.tokens = n
  OBVIOUS
<1> HIDE DEF n, m
<1>11. /\ messages' \in Seq(Texts)
       /\ \A i \in DOMAIN messages : messages'[i] = messages[i]
       /\ new \notin DOMAIN messages /\ messages'[new] = m
       /\ DOMAIN messages' = DOMAIN messages \union {new}
  BY <1>9, MessageAdded
<1> HIDE DEF new
<1>12. /\ Of("assistant")' = Of("assistant") \union {new} /\ new \notin Of("assistant")
       /\ \A i \in Of("assistant") : messages'[i] = messages[i] /\ messages[i].by \in Repliers /\ messages[i].by \in Calls
  <2>1. Of("assistant")' = Of("assistant") \union {new} /\ new \notin Of("assistant")
    BY <1>10, <1>11 DEF Of
  <2>2. ASSUME NEW i \in Of("assistant")
        PROVE  messages'[i] = messages[i] /\ messages[i].by \in Repliers /\ messages[i].by \in Calls
    <3>1. i \in DOMAIN messages
      BY DEF Of
    <3>2. messages[i].by \in Calls
      BY <1>9, <3>1, TextsTyped
    <3> QED
      BY <1>11, <3>1, <3>2 DEF Repliers, Replied
  <2> QED
    BY <2>1, <2>2
<1>13. \A d \in Calls : Replied(d)' <=> Replied(d) \/ d = c
  BY <1>10, <1>11, <1>12 DEF Replied
<1>14. Repliers' = Repliers \union {c}
  BY <1>13 DEF Repliers
<1>15. Typed'
  BY <1>2, <1>5, <1>6, <1>11 DEF AssistantStrong, Typed
<1>16. (\A d \in Calls : Fits(d, call[d], Repliers, saved) /\ Staged(call[d]))'
  <2>1. ASSUME NEW d \in Calls
        PROVE  Fits(d, call'[d], Repliers \union {c}, saved)
    <3>1. CASE d = c
      <4>1. Fits(c, k, Repliers \union {c}, saved)
        BY <1>1, <1>6, <1>7 DEF Fits, Preparing, Unanswered
      <4> QED
        BY <1>8, <3>1, <4>1
    <3>2. CASE d # c
      <4>1. Fits(d, call[d], Repliers, saved) /\ (d \in Repliers \union {c} <=> d \in Repliers)
        BY <3>2, CallFacts
      <4>2. (d \in Repliers \union {c}) = (d \in Repliers)
        BY <4>1
      <4>3. Fits(d, call[d], Repliers \union {c}, saved)
        BY <4>1, <4>2 DEF Fits
      <4> QED
        BY <1>8, <3>2, <4>3
    <3> QED
      BY <3>1, <3>2
  <2>2. ASSUME NEW d \in Calls
        PROVE  Staged(call[d])'
    <3>1. Staged(call[d]) /\ Fits(d, call[d], Repliers, saved)
      BY CallFacts
    <3>2. call'[d].kind = "stream" => call'[d].of \in Calls /\ call[call'[d].of].kind = "stage" /\ call[call'[d].of].pc = "done"
      BY <1>6, <1>8, <3>1, CallFacts DEF Staged, Fits
    <3> QED
      BY <1>1, <1>8, <3>2 DEF Staged
  <2> QED
    BY <1>2, <1>14, <2>1, <2>2
<1>17. RepliesOwn'
  <2>1. ASSUME NEW i \in Of("assistant")', NEW j \in Of("assistant")', messages'[i].by = messages'[j].by
        PROVE  i = j
    BY <1>1, <1>10, <1>11, <1>12, <2>1 DEF AssistantStrong, RepliesOwn
  <2>2. ASSUME NEW i \in Of("assistant")', call'[messages'[i].by].pc \in {"compare", "update"}
        PROVE  messages'[i].tokens = call'[messages'[i].by].tokens
    <3>1. CASE i = new
      BY <1>6, <1>8, <1>10, <1>11, <3>1
    <3>2. CASE i # new
      <4>1. i \in Of("assistant") /\ messages'[i] = messages[i] /\ messages[i].by # c /\ messages[i].by \in Calls
        BY <1>1, <1>12, <3>2
      <4> QED
        BY <1>8, <2>2, <4>1 DEF AssistantStrong, RepliesOwn
    <3> QED
      BY <3>1, <3>2
  <2> QED
    BY <2>1, <2>2 DEF RepliesOwn
<1>18. OneAnswer'
  <2>1. \A d \in Calls : Answers(call'[d], Replied(d)') <=> Answers(call[d], Replied(d))
    BY <1>1, <1>6, <1>8, <1>13 DEF Answers, Preparing
  <2>2. \A s \in Calls : Answering(s)' = Answering(s)
    BY <1>6, <1>8, <2>1 DEF Answering
  <2>3. \A d \in Calls : call'[d].pc \in {"done", "failed"} => call[d].pc \in {"done", "failed"}
    BY <1>6, <1>8
  <2>4. \A s \in Calls : Answering(s) \subseteq Calls
    BY DEF Answering
  <2> QED
    BY <1>2, <2>2, <2>3, <2>4 DEF AssistantStrong, OneAnswer
<1>19. MemoryRefreshed'
  BY <1>6, <1>8, <1>13 DEF MemoryRefreshed, Rereads
<1>20. (~stale => \A d \in Calls : Fresh(call[d], row))'
  <2>1. ~stale => Fresh(k, row)
    BY <1>1, <1>6, CallFacts, HeldOn DEF Holding, Preparing
  <2>2. ~stale => \A d \in Calls : Fresh(call'[d], row)
    BY <1>8, <2>1 DEF AssistantStrong
  <2> QED
    BY <1>2, <2>2
<1>21. TotalExactUnlessStale'
  <2>1. Counted' = Counted
    BY <1>1, <1>2, <1>10, <1>11, <1>12 DEF Counted
  <2> QED
    BY <1>2, <2>1 DEF AssistantStrong, TotalExactUnlessStale
<1> QED
  BY <1>15, <1>16, <1>17, <1>18, <1>19, <1>20, <1>21 DEF AssistantStrong

LEMMA FreshLater ==
  ASSUME NEW k \in Records, NEW r \in Rows, NEW q \in Rows, Fresh(k, r), Earlier(r, q)
  PROVE  Fresh(k, q)
<1>1. k.base \in Rows
  BY DEF Records
<1>2. k.pc \in Holding => Earlier(k.base, q)
  BY <1>1, EarlierIsOrder DEF Fresh
<1>3. ASSUME k.pc = "update"
      PROVE  \E s \in Rows : Earlier(k.base, s) /\ Earlier(s, q) /\ k.changes = Differing(k.copy, s)
  <2>1. PICK s \in Rows : Earlier(k.base, s) /\ Earlier(s, r) /\ k.changes = Differing(k.copy, s)
    BY <1>3 DEF Fresh
  <2>2. Earlier(s, q)
    BY <2>1, EarlierIsOrder
  <2> QED
    BY <2>1, <2>2
<1> QED
  BY <1>2, <1>3 DEF Fresh

\* Nobody has written between the row that request c had and the row that it
\* writes: it then leaves its entity.
LEMMA SavedWhole ==
  ASSUME AssistantStrong, NEW c \in Calls, UpdateRow(c), ~stale'
  PROVE  ~stale /\ call[c].base = row /\ row' = call[c].copy /\ row' \in Rows /\ Earlier(row, row')
<1>1. ~stale /\ call[c].base = row /\ call[c].pc = "update"
  BY DEF UpdateRow
<1>2. call[c] \in Records /\ call[c].base \in Rows /\ call[c].copy \in Rows /\ row \in Rows
  BY CallFacts DEF Records
<1>3. PICK s \in Rows : Earlier(row, s) /\ Earlier(s, row) /\ call[c].changes = Differing(call[c].copy, s)
  BY <1>1, CallFacts DEF Fresh
<1>4. s = row
  BY <1>2, <1>3, EarlierIsOrder
<1>5. row' = call[c].copy
  BY <1>2, <1>3, <1>4, SaveIsWhole DEF UpdateRow
<1>6. /\ call[c].copy = Entity(call[c], c \in Repliers)
      /\ call[c].kind = "archive" => call[c].base.status # "deleted"
  BY <1>1, CallFacts DEF Fits
<1>7. Earlier(row, row')
  <2>1. CASE c \in Repliers
    <3>1. row' = Entity(call[c], TRUE)
      BY <1>5, <1>6, <2>1 DEF Entity
    <3> QED
      BY <1>1, <1>2, <3>1, EntityIsLater
  <2>2. CASE c \notin Repliers
    <3>1. row' = Entity(call[c], FALSE)
      BY <1>5, <1>6, <2>2 DEF Entity
    <3> QED
      BY <1>1, <1>2, <1>6, <3>1, EntityIsLater
  <2> QED
    BY <2>1, <2>2
<1> QED
  BY <1>1, <1>2, <1>5, <1>7

LEMMA TotalSaved ==
  ASSUME AssistantStrong, NEW c \in Calls, UpdateRow(c)
  PROVE  TotalExactUnlessStale'
<1> SUFFICES ASSUME ~stale'
             PROVE  row'.total = Cardinality(Counted')
  BY DEF TotalExactUnlessStale
<1>1. ~stale /\ row' = call[c].copy /\ call[c].base = row /\ row \in Rows
  BY CallFacts, SavedWhole
<1>2. /\ call[c].pc = "update" /\ call[c] \in Records /\ call[c].copy = Entity(call[c], c \in Repliers)
      /\ c \notin saved /\ (Replied(c) <=> c \in Repliers)
  BY CallFacts DEF UpdateRow, Fits
<1>3. row.total = Cardinality(Counted) /\ IsFiniteSet(Counted)
  <2>1. Counted \subseteq 1..Len(messages) /\ Len(messages) \in Nat
    BY CallFacts, TextsTyped DEF Counted, Of
  <2>2. IsFiniteSet(Counted)
    <3>1. IsFiniteSet(1..Len(messages))
      BY <2>1, FS_Interval
    <3> QED
      BY <2>1, <3>1, FS_Subset
  <2> QED
    BY <1>1, <2>2 DEF AssistantStrong, TotalExactUnlessStale
<1>4. messages' = messages /\ Of("assistant")' = Of("assistant")
  BY DEF UpdateRow, Of
<1>5. CASE ~Replied(c)
  <2>1. row'.total = row.total
    BY <1>1, <1>2, <1>5 DEF Entity, Rows
  <2>2. Counted' = Counted
    BY <1>4, <1>5 DEF Counted, UpdateRow
  <2> QED
    BY <1>3, <2>1, <2>2
<1>6. CASE Replied(c)
  <2>1. PICK i \in Of("assistant") : messages[i].by = c
    BY <1>6 DEF Replied
  <2>2. /\ \A j \in Of("assistant") : messages[j].by = c => j = i
        /\ messages[i].tokens = call[c].tokens /\ call[c].tokens \in {0, 1}
    BY <1>2, <2>1 DEF AssistantStrong, RepliesOwn, Records
  <2>3. saved' = saved \union {c}
    BY <1>6 DEF UpdateRow
  <2>4. row'.total = row.total + call[c].tokens
    BY <1>1, <1>2, <1>6, <2>2 DEF Entity, Rows
  <2>5. CASE call[c].tokens = 0
    <3>1. Counted' = Counted
      BY <1>4, <2>2, <2>3, <2>5 DEF Counted
    <3> QED
      BY <1>1, <1>3, <2>4, <2>5, <3>1 DEF Rows
  <2>6. CASE call[c].tokens = 1
    <3>1. Counted' = Counted \union {i} /\ i \notin Counted
      BY <1>2, <1>4, <2>1, <2>2, <2>3, <2>6 DEF Counted
    <3>2. Cardinality(Counted') = Cardinality(Counted) + 1
      BY <1>3, <3>1, FS_AddElement
    <3> QED
      BY <1>3, <2>4, <2>6, <3>2
  <2> QED
    BY <2>2, <2>5, <2>6
<1> QED
  BY <1>5, <1>6

LEMMA UpdateRowKeeps ==
  ASSUME NoneApart, AssistantStrong, NEW c \in Calls, UpdateRow(c)
  PROVE  AssistantStrong'
<1> DEFINE next == AfterSave(c)
           k == IF next = "done" THEN Over(call[c], next)
                ELSE [call[c] EXCEPT !.base = call[c].copy, !.changes = {}, !.pc = next]
           S == IF Replied(c) THEN saved \union {c} ELSE saved
<1>1. /\ call[c].pc = "update" /\ call[c] \in Records /\ Fits(c, call[c], Repliers, saved) /\ Staged(call[c])
      /\ call[c].kind # "none" /\ (Replied(c) <=> c \in Repliers)
  BY CallFacts DEF UpdateRow, Fits
<1>2. /\ UNCHANGED <<messages, usage, window, pending, reused, lost>> /\ call' = [call EXCEPT ![c] = k]
      /\ saved' = S /\ SameReplies
  BY UnchangedReplies DEF UpdateRow, redis, To
<1>3. /\ Replied(c) => next = "invalidate"
      /\ ~Replied(c) /\ call[c].kind \in {"archive", "remove"} => next = "done"
      /\ ~Replied(c) /\ call[c].kind = "send" => next = "check"
      /\ ~Replied(c) /\ call[c].kind = "stage" => next = "mark"
  <2>1. CASE Replied(c)
    <3>1. call[c].kind \in {"send", "stream"}
      BY <1>1, <2>1 DEF Fits
    <3> QED
      BY <2>1, <3>1 DEF AfterSave
  <2>2. CASE ~Replied(c) /\ call[c].kind \in {"archive", "remove"}
    BY <2>2 DEF AfterSave
  <2>3. CASE ~Replied(c) /\ call[c].kind \notin {"archive", "remove"}
    <3>1. next = AfterUser(call[c].kind)
      BY <2>3 DEF AfterSave
    <3> QED
      BY <2>3, <3>1 DEF AfterUser
  <2> QED
    BY <2>1, <2>2, <2>3
<1>4. /\ call[c].kind \in {"send", "stage", "archive", "remove", "stream"}
      /\ call[c].kind = "stream" => Replied(c)
      /\ Replied(c) => call[c].kind \in {"send", "stream"}
  BY <1>1 DEF Records, Kinds, Fits
<1>5. next \in {"invalidate", "done", "check", "mark"}
  BY <1>3, <1>4
<1> HIDE DEF next
<1>6. /\ k \in Records /\ k.pc = next /\ k.kind = call[c].kind /\ k.of = call[c].of
      /\ next # "done" => k.base = call[c].copy /\ k.copy = call[c].copy
  <2>1. CASE next = "done"
    BY <1>1, <2>1, OverIsRecord
  <2>2. CASE next # "done"
    BY <1>1, <1>5, <2>2 DEF Records, Stages
  <2> QED
    BY <2>1, <2>2
<1> HIDE DEF k
<1>7. \A d \in Calls : call'[d] = IF d = c THEN k ELSE call[d]
  BY <1>2 DEF AssistantStrong, Typed
<1>8. Repliers' = Repliers
  BY <1>2, RepliersStay
<1>9. saved \subseteq S /\ S \subseteq Calls /\ (c \in S <=> Replied(c)) /\ \A d \in Calls \ {c} : d \in S <=> d \in saved
  BY <1>1 DEF AssistantStrong, Typed, Fits
<1> HIDE DEF S
<1>10. row' \in Rows
  BY <1>1, CallFacts, MergeIsRow DEF UpdateRow, Records
<1>11. Typed'
  <2>1. stale' \in BOOLEAN
    BY DEF UpdateRow
  <2> QED
    BY <1>2, <1>6, <1>9, <1>10, <2>1 DEF AssistantStrong, Typed
<1>12. (\A d \in Calls : Fits(d, call[d], Repliers, saved) /\ Staged(call[d]))'
  <2>1. ASSUME NEW d \in Calls
        PROVE  Fits(d, call'[d], Repliers, S)
    <3>1. CASE d = c
      <4>1. Fits(c, k, Repliers, S)
        BY <1>1, <1>3, <1>4, <1>5, <1>6, <1>9 DEF Fits, Preparing, Unanswered
      <4> QED
        BY <1>7, <3>1, <4>1
    <3>2. CASE d # c
      <4>1. Fits(d, call[d], Repliers, saved) /\ (d \in S <=> d \in saved)
        BY <1>9, <3>2, CallFacts
      <4>2. Fits(d, call[d], Repliers, S)
        BY <4>1 DEF Fits
      <4> QED
        BY <1>7, <3>2, <4>2
    <3> QED
      BY <3>1, <3>2
  <2>2. ASSUME NEW d \in Calls
        PROVE  Staged(call[d])'
    <3>1. Staged(call[d]) /\ Fits(d, call[d], Repliers, saved)
      BY CallFacts
    <3>2. call'[d].kind = "stream" => call'[d].of \in Calls /\ call[call'[d].of].kind = "stage" /\ call[call'[d].of].pc = "done"
      BY <1>1, <1>6, <1>7, <3>1 DEF Staged, Fits
    <3> QED
      BY <1>1, <1>7, <3>2 DEF Staged
  <2> QED
    BY <1>2, <1>8, <2>1, <2>2
<1>13. RepliesOwn'
  <2>1. ASSUME NEW i \in Of("assistant"), call'[messages[i].by].pc \in {"compare", "update"}
        PROVE  messages[i].tokens = call'[messages[i].by].tokens
    <3>1. messages[i].by \in Calls
      BY TextsTyped DEF AssistantStrong, Typed, Of
    <3>2. messages[i].by # c
      BY <1>5, <1>6, <1>7, <2>1
    <3> QED
      BY <1>7, <2>1, <3>1, <3>2 DEF AssistantStrong, RepliesOwn
  <2> QED
    BY <1>2, <2>1 DEF AssistantStrong, RepliesOwn, SameReplies
<1>14. OneAnswer'
  <2>1. k.kind = "stream" => Answers(call[c], Replied(c)) /\ k.pc = "invalidate"
    BY <1>1, <1>3, <1>4, <1>6 DEF Answers
  <2> QED
    BY <1>2, <1>6, <2>1, AnswersStay
<1>15. MemoryRefreshed'
  <2>1. WillReread(k, Replied(c)) \/ ~WillReread(call[c], Replied(c))
    BY <1>1, <1>3, <1>6 DEF WillReread
  <2> QED
    BY <1>2, <2>1, MemoryStays
<1>16. (~stale => \A d \in Calls : Fresh(call[d], row))'
  <2> SUFFICES ASSUME ~stale', NEW d \in Calls
               PROVE  Fresh(call'[d], row')
    OBVIOUS
  <2>1. ~stale /\ row' = call[c].copy /\ Earlier(row, row') /\ row \in Rows
    BY CallFacts, SavedWhole
  <2>2. CASE d = c
    <3>1. next # "done" => Earlier(k.base, row')
      BY <1>6, <1>10, <2>1, EarlierIsOrder
    <3>2. Fresh(k, row')
      BY <1>5, <1>6, <3>1 DEF Fresh, Holding, Preparing
    <3> QED
      BY <1>7, <2>2, <3>2
  <2>3. CASE d # c
    <3>1. Fresh(call[d], row')
      BY <1>10, <2>1, CallFacts, FreshLater
    <3> QED
      BY <1>7, <2>3, <3>1
  <2> QED
    BY <2>2, <2>3
<1> QED
  BY <1>11, <1>12, <1>13, <1>14, <1>15, <1>16, TotalSaved DEF AssistantStrong

-----------------------------------------------------------------------------
(* The theorems.                                                           *)

LEMMA AssistantStarts ==
  ASSUME NoneApart, Init
  PROVE  AssistantStrong
<1>1. /\ \A c \in Calls : call[c] = Idle
      /\ messages = <<>> /\ window = None /\ pending = {} /\ usage = {} /\ saved = {} /\ stale = FALSE
  BY DEF Init
<1>2. row \in Rows /\ row.total = 0
  <2>1. \A t \in BOOLEAN : [New EXCEPT !.titled = t] = [status |-> "active", titled |-> t, total |-> 0]
    BY DEF New
  <2>2. PICK t \in BOOLEAN : row = [status |-> "active", titled |-> t, total |-> 0]
    BY <2>1 DEF Init, New
  <2> QED
    BY <2>2 DEF Rows
<1>3. Of("assistant") = {} /\ Counted = {} /\ Repliers = {}
  BY <1>1 DEF Of, Counted, Repliers, Replied
<1>4. Typed
  <2>1. call \in [Calls -> Records] /\ messages \in Seq(Texts)
    BY Blank DEF Init
  <2> QED
    BY <1>1, <1>2, <2>1 DEF Typed
<1>5. \A c \in Calls : Fits(c, call[c], Repliers, saved) /\ Staged(call[c]) /\ Fresh(call[c], row)
  BY <1>1, <1>3, Blank DEF Fits, Staged, Fresh, Holding, Preparing
<1>6. RepliesOwn /\ MemoryRefreshed
  BY <1>1, <1>3 DEF RepliesOwn, MemoryRefreshed
<1>7. OneAnswer
  BY <1>1, Blank DEF OneAnswer, Answering
<1>8. TotalExactUnlessStale
  BY <1>2, <1>3, FS_EmptySet DEF TotalExactUnlessStale
<1> QED
  BY <1>4, <1>5, <1>6, <1>7, <1>8 DEF AssistantStrong

LEMMA AssistantSteps ==
  ASSUME NoneApart, AssistantStrong, [Next]_vars
  PROVE  AssistantStrong'
<1>1. CASE UNCHANGED vars
  <2>1. UNCHANGED <<row, messages, window, pending, usage, call, saved, stale, reused, lost>>
    BY <1>1 DEF vars
  <2> QED
    BY <2>1, CallsAside
<1>2. ASSUME NEW c \in Calls,
             \/ Begin(c) \/ ReadMarker(c) \/ FindOwned(c) \/ InsertUser(c) \/ CheckContent(c)
             \/ ReadWindow(c) \/ FindRecent(c) \/ FillWindow(c) \/ Provider(c)
      PROVE  AssistantStrong'
  BY <1>2, BeginKeeps, ReadMarkerKeeps, FindOwnedKeeps, InsertUserKeeps, CheckContentKeeps, ReadWindowKeeps,
     FindRecentKeeps, FillWindowKeeps, ProviderKeeps
<1>3. ASSUME NEW c \in Calls,
             \/ Disconnect(c) \/ InsertReply(c) \/ CompareRow(c) \/ UpdateRow(c) \/ Invalidate(c)
             \/ RecordUsage(c) \/ SetMarker(c) \/ ClearMarker(c) \/ Fail(c)
      PROVE  AssistantStrong'
  BY <1>3, DisconnectKeeps, InsertReplyKeeps, CompareRowKeeps, UpdateRowKeeps, InvalidateKeeps, RecordUsageKeeps,
     SetMarkerKeeps, ClearMarkerKeeps, FailKeeps
<1>4. CASE Expire
  <2>1. /\ UNCHANGED <<row, messages, usage, call, saved, stale, reused, lost>>
        /\ pending' \subseteq pending /\ (window' = None \/ window' = window)
    BY <1>4 DEF Expire, store, history
  <2> QED
    BY <2>1, CallsAside
<1> QED
  BY <1>1, <1>2, <1>3, <1>4 DEF Next

LEMMA StrongImpliesInv ==
  ASSUME NoneApart, AssistantStrong
  PROVE  Inv
<1>1. TypeOK
  BY DEF AssistantStrong, Typed, TypeOK, Texts
<1>2. UsageOfReplies
  BY CallFacts DEF AssistantStrong, Typed, RepliesOwn, Fits, UsageOfReplies
<1>3. AnsweredOnce
  <2> SUFFICES ASSUME NEW s \in Calls \ reused
               PROVE  Cardinality({i \in Of("assistant") : call[messages[i].by].of = s}) <= 1
    BY DEF AnsweredOnce
  <2> DEFINE I == {i \in Of("assistant") : call[messages[i].by].of = s}
  <2>1. ASSUME NEW i \in I
        PROVE  messages[i].by \in Answering(s)
    <3>1. messages[i].by \in Calls /\ Replied(messages[i].by) /\ call[messages[i].by].of = s
      BY TextsTyped DEF AssistantStrong, Typed, Of, Replied
    <3>2. call[messages[i].by].kind = "stream"
      BY <3>1, CallFacts DEF Fits, NoneApart
    <3> QED
      BY <3>1, <3>2 DEF Answering, Answers
  <2>2. \A i, j \in I : i = j
    BY <2>1 DEF AssistantStrong, OneAnswer, RepliesOwn
  <2>3. CASE I = {}
    BY <2>3, FS_EmptySet
  <2>4. ASSUME NEW i \in I
        PROVE  Cardinality(I) <= 1
    <3>1. I = {i}
      BY <2>2
    <3>2. Cardinality({i}) = 1
      BY FS_Singleton
    <3>3. Cardinality(I) = 1
      BY <3>1, <3>2
    <3> QED
      BY <3>3
  <2> QED
    BY <2>3, <2>4
<1> QED
  BY <1>1, <1>2, <1>3 DEF AssistantStrong, Inv

\* With any number of requests: what they store and Redis keeps is well typed,
\* a request stores a reply and logs its usage once, a staged message is
\* answered once while its marker lives one answer at most, the total is that
\* of the replies as long as every request wrote over the row it knew, and a
\* memory that lacks a reply is about to be dropped.
THEOREM AssistantInvariant ==
  ASSUME NoneApart
  PROVE  Spec => []Inv
<1>1. Init => AssistantStrong
  BY AssistantStarts
<1>2. AssistantStrong /\ [Next]_vars => AssistantStrong'
  BY AssistantSteps
<1>3. AssistantStrong => Inv
  BY StrongImpliesInv
<1> QED
  BY <1>1, <1>2, <1>3, PTL DEF Spec

\* A deleted conversation stays deleted, and an archived one does not become
\* active, as long as every request wrote over the row it knew.
THEOREM AssistantClosed ==
  ASSUME NoneApart
  PROVE  Spec => ClosedUnlessStale
<1>1. Init => AssistantStrong
  BY AssistantStarts
<1>2. AssistantStrong /\ [Next]_vars => AssistantStrong'
  BY AssistantSteps
<1>3. ASSUME AssistantStrong, [Next]_vars, ~stale'
      PROVE  /\ row.status = "deleted" => row'.status = "deleted"
             /\ row.status = "archived" => row'.status # "active"
  <2>1. \/ UNCHANGED row
        \/ \E c \in Calls : UpdateRow(c)
    BY <1>3 DEF Next, vars, store, Begin, ReadMarker, FindOwned, InsertUser, CheckContent, ReadWindow, FindRecent,
       FillWindow, Provider, Disconnect, InsertReply, CompareRow, Invalidate, RecordUsage, SetMarker, ClearMarker,
       Fail, Expire
  <2>2. ASSUME NEW c \in Calls, UpdateRow(c)
        PROVE  row' \in Rows /\ Earlier(row, row')
    BY <1>3, <2>2, SavedWhole
  <2>3. row \in Rows
    BY <1>3 DEF AssistantStrong, Typed
  <2> QED
    BY <2>1, <2>2, <2>3 DEF Earlier
<1>4. AssistantStrong /\ [Next]_vars =>
        [~stale' => /\ row.status = "deleted" => row'.status = "deleted"
                    /\ row.status = "archived" => row'.status # "active"]_vars
  BY <1>3
<1> QED
  BY <1>1, <1>2, <1>4, PTL DEF Spec, ClosedUnlessStale

=============================================================================
