----------------------- MODULE AssistantConversation -----------------------
(***************************************************************************)
(* One conversation with the assistant (src/src/ai-assistant): its row,    *)
(* its messages and usage logs, and what AiAssistantCache keeps of it in   *)
(* Redis: the memory window, and a marker for each message staged for a    *)
(* stream.  The calls are those of AiConversationsController and           *)
(* AiStreamController; every await is a step.                              *)
(*                                                                         *)
(* A call keeps the entity it loaded until it saves it, across the reply   *)
(* of the provider.                                                        *)
(***************************************************************************)
EXTENDS Integers, Sequences, FiniteSets

CONSTANTS Calls,  \* requests
          None    \* no window in Redis, no staged message

VARIABLES
  row,       \* the conversation: [status, titled, total]
  messages,  \* its messages in the order stored: [role, by, tokens]
  window,    \* how many of the messages the cached window was built from, or None
  pending,   \* the calls whose staged message has a marker in Redis
  usage,     \* the calls whose usage has been logged
  call,      \* each request: [kind, of, pc, live, base, copy, changes, tokens, seen]
  saved,     \* the calls whose tokens have been added to the row
  stale,     \* whether a call has updated a row other than the one it had
  reused,    \* staged messages whose marker outlived an answer, or was used twice at once
  lost       \* whether a call that used the memory ended without invalidating it

vars == <<row, messages, window, pending, usage, call, saved, stale, reused, lost>>
history == <<saved, stale, reused, lost>>
store == <<row, messages, usage>>
redis == <<window, pending>>

New  == [status |-> "active", titled |-> FALSE, total |-> 0]
Idle == [kind |-> "none", of |-> None, pc |-> "idle", live |-> FALSE, base |-> New, copy |-> New,
         changes |-> {}, tokens |-> 0, seen |-> 0]
Ended == {"idle", "done", "failed"}

\* create stores the title only if the request has one.
Init ==
  /\ row \in {New, [New EXCEPT !.titled = TRUE]}
  /\ messages = <<>> /\ window = None /\ pending = {} /\ usage = {}
  /\ call = [c \in Calls |-> Idle]
  /\ saved = {} /\ stale = FALSE /\ reused = {} /\ lost = FALSE

-----------------------------------------------------------------------------
(* What the calls compute.                                                 *)

To(c, k) == call' = [call EXCEPT ![c] = k]
At(c, pc) == To(c, [call[c] EXCEPT !.pc = pc])

\* A call that is over keeps its kind and its staged message.
Over(k, pc) == [Idle EXCEPT !.kind = k.kind, !.of = k.of, !.pc = pc]

Stored(role, c, n) == Append(messages, [role |-> role, by |-> c, tokens |-> n])
Of(role) == {i \in DOMAIN messages : messages[i].role = role}
Replied(c) == \E i \in Of("assistant") : messages[i].by = c

\* The calls that have used or filled the memory, or stored a reply it lacks,
\* and have yet to invalidate it.
Rereads(c) ==
  \/ call[c].pc \in {"provider", "reply", "invalidate"}
  \/ call[c].pc \in {"compare", "update"} /\ Replied(c)

\* The streams of one staged message that have begun and not ended.
Streaming(s) == {c \in Calls : call[c].kind = "stream" /\ call[c].of = s
                                /\ call[c].pc \notin {"marker"} \union Ended}

\* Fault: a deleted conversation is found by its owner.
FaultMayFind(r) == TRUE

MayFind(r) == r.status # "deleted"

\* The call once it has found the conversation.
WithCopy(k, r) ==
  CASE k.kind = "archive" -> [k EXCEPT !.base = r, !.copy = [r EXCEPT !.status = "archived"], !.pc = "compare"]
    [] k.kind = "remove"  -> [k EXCEPT !.base = r, !.copy = [r EXCEPT !.status = "deleted"], !.pc = "compare"]
    [] k.kind = "stream"  -> [k EXCEPT !.base = r, !.copy = r, !.pc = "check"]
    [] OTHER              -> [k EXCEPT !.base = r, !.copy = r, !.pc = "user"]

\* What follows the user's message: the reply, or the marker of a stream.
AfterUser(kind) == IF kind = "send" THEN "check" ELSE "mark"

\* What follows a save of the conversation.
AfterSave(c) ==
  CASE Replied(c) -> "invalidate"
    [] call[c].kind \in {"archive", "remove"} -> "done"
    [] OTHER -> AfterUser(call[c].kind)

\* TypeORM's save: the columns in which the entity differs from the row.
Differing(entity, r) == {f \in DOMAIN New : entity[f] # r[f]}
Merge(entity, fields, r) == [f \in DOMAIN New |-> IF f \in fields THEN entity[f] ELSE r[f]]

-----------------------------------------------------------------------------
(* The steps of a call.                                                    *)

\* A stream is opened with the id that staging its message returned.
Begin(c) ==
  /\ call[c] = Idle
  /\ \/ \E kind \in {"send", "stage", "archive", "remove"} :
          To(c, [Idle EXCEPT !.kind = kind, !.pc = "find"])
     \/ \E s \in Calls : /\ call[s].kind = "stage" /\ call[s].pc = "done"
                         /\ To(c, [Idle EXCEPT !.kind = "stream", !.of = s, !.pc = "marker"])
  /\ UNCHANGED <<store, redis, history>>

\* getStreamPending, null when Redis is unavailable: without a marker the
\* stream ends in NOT_FOUND.
ReadMarker(c) ==
  /\ call[c].pc = "marker"
  /\ LET s == call[c].of IN
     \/ /\ s \in pending
        /\ At(c, "find")
        /\ reused' = IF Streaming(s) # {} THEN reused \union {s} ELSE reused
     \/ At(c, "clear") /\ UNCHANGED reused
  /\ UNCHANGED <<store, redis, saved, stale, lost>>

\* Where a request ends that throws; a stream not yet subscribed to its
\* provider clears its marker.
Throws(c) == IF call[c].kind = "stream" THEN At(c, "clear") ELSE To(c, Over(call[c], "failed"))

FindOwned(c) ==
  /\ call[c].pc = "find"
  /\ IF MayFind(row) THEN To(c, WithCopy(call[c], row)) ELSE Throws(c)
  /\ UNCHANGED <<store, redis, history>>

\* persistUserMessage: the first message gives a conversation its title.
InsertUser(c) ==
  /\ call[c].pc = "user"
  /\ messages' = Stored("user", c, 0)
  /\ IF call[c].copy.titled THEN At(c, AfterUser(call[c].kind))
     ELSE To(c, [call[c] EXCEPT !.copy.titled = TRUE, !.pc = "compare"])
  /\ UNCHANGED <<row, usage, redis, history>>

\* checkContent refuses a message without asking a provider.
CheckContent(c) ==
  /\ call[c].pc = "check"
  /\ \E next \in {"window", "reply"} : At(c, next)
  /\ UNCHANGED <<store, redis, history>>

\* buildMemoryWindow.  Redis answers null when it is unavailable.
ReadWindow(c) ==
  /\ call[c].pc = "window"
  /\ \/ window # None /\ To(c, [call[c] EXCEPT !.pc = "provider"])
     \/ At(c, "recent")
  /\ UNCHANGED <<store, redis, history>>

FindRecent(c) ==
  /\ call[c].pc = "recent"
  /\ To(c, [call[c] EXCEPT !.seen = Len(messages), !.pc = "fill"])
  /\ UNCHANGED <<store, redis, history>>

FillWindow(c) ==
  /\ call[c].pc = "fill"
  /\ window' \in {window, call[c].seen}
  /\ To(c, [call[c] EXCEPT !.seen = 0, !.pc = "provider"])
  /\ UNCHANGED <<store, pending, history>>

\* The provider answers; the reply of a stream may come without a count.  Both
\* providers failing makes a send throw, and a stream store an empty reply.
Provider(c) ==
  /\ call[c].pc = "provider"
  /\ LET k == [call[c] EXCEPT !.live = TRUE, !.pc = "reply"] IN
     \/ To(c, [k EXCEPT !.tokens = 1]) /\ UNCHANGED lost
     \/ k.kind = "stream" /\ To(c, k) /\ UNCHANGED lost
     \/ k.kind = "send" /\ Throws(c) /\ lost' = TRUE
  /\ UNCHANGED <<store, redis, saved, stale, reused>>

\* A client that leaves while the reply streams ends the subscription.
Disconnect(c) ==
  /\ call[c].pc = "provider" /\ call[c].kind = "stream"
  /\ To(c, Over(call[c], "done"))
  /\ lost' = TRUE
  /\ UNCHANGED <<store, redis, saved, stale, reused>>

\* Fault: finalizeAssistantMessage counts the tokens of the reply twice.
FaultInsertReply(c) ==
  /\ call[c].pc = "reply"
  /\ messages' = Stored("assistant", c, call[c].tokens)
  /\ To(c, [call[c] EXCEPT !.copy.total = @ + 2 * call[c].tokens, !.pc = "compare"])
  /\ UNCHANGED <<row, usage, redis, history>>

\* finalizeAssistantMessage: the reply, and its tokens added to the copy.
InsertReply(c) ==
  /\ call[c].pc = "reply"
  /\ messages' = Stored("assistant", c, call[c].tokens)
  /\ To(c, [call[c] EXCEPT !.copy.total = @ + call[c].tokens, !.pc = "compare"])
  /\ UNCHANGED <<row, usage, redis, history>>

CompareRow(c) ==
  /\ call[c].pc = "compare"
  /\ To(c, [call[c] EXCEPT !.changes = Differing(call[c].copy, row), !.pc = "update"])
  /\ UNCHANGED <<store, redis, history>>

UpdateRow(c) ==
  /\ call[c].pc = "update"
  /\ row' = Merge(call[c].copy, call[c].changes, row)
  /\ stale' = (stale \/ call[c].base # row)
  /\ saved' = IF Replied(c) THEN saved \union {c} ELSE saved
  /\ LET next == AfterSave(c) IN
     To(c, IF next = "done" THEN Over(call[c], next)
           ELSE [call[c] EXCEPT !.base = call[c].copy, !.changes = {}, !.pc = next])
  /\ UNCHANGED <<messages, usage, redis, reused, lost>>

\* invalidateConversationWindow; Redis may not execute it.
Invalidate(c) ==
  /\ call[c].pc = "invalidate"
  /\ \/ window' = None /\ UNCHANGED lost
     \/ window # None /\ UNCHANGED window /\ lost' = TRUE
  /\ At(c, "usage")
  /\ UNCHANGED <<store, pending, saved, stale, reused>>

RecordUsage(c) ==
  /\ call[c].pc = "usage"
  /\ usage' = usage \union {c}
  /\ IF call[c].kind = "stream" THEN At(c, "clear") ELSE To(c, Over(call[c], "done"))
  /\ UNCHANGED <<row, messages, redis, history>>

\* setStreamPending, after which the message's id is returned.
SetMarker(c) ==
  /\ call[c].pc = "mark"
  /\ pending' \in {pending, pending \union {c}}
  /\ To(c, Over(call[c], "done"))
  /\ UNCHANGED <<store, window, history>>

\* clearStreamPending; Redis may not execute it.
ClearMarker(c) ==
  /\ call[c].pc = "clear"
  /\ LET s == call[c].of IN
     \/ pending' = pending \ {s} /\ UNCHANGED reused
     \/ s \in pending /\ UNCHANGED pending /\ reused' = IF Replied(c) THEN reused \union {s} ELSE reused
  /\ To(c, Over(call[c], "done"))
  /\ UNCHANGED <<store, window, saved, stale, lost>>

\* A database error; for "window", of the search of the knowledge base that
\* comes before.  What a stream does once it has subscribed to its provider is
\* not caught: its marker stays.
Fail(c) ==
  /\ call[c].pc \in {"find", "user", "window", "recent", "reply", "compare", "update", "usage"}
  /\ IF call[c].kind = "stream" /\ ~call[c].live
     THEN Throws(c) /\ UNCHANGED reused
     ELSE /\ To(c, Over(call[c], "failed"))
          /\ reused' = IF Replied(c) /\ call[c].kind = "stream"
                       THEN reused \union {call[c].of} ELSE reused
  /\ lost' = (lost \/ Rereads(c))
  /\ UNCHANGED <<store, redis, saved, stale>>

\* A key outlives its time to live.
Expire ==
  /\ \/ window # None /\ window' = None /\ UNCHANGED pending
     \/ \E s \in pending : pending' = pending \ {s} /\ UNCHANGED window
  /\ UNCHANGED <<store, call, history>>

Next ==
  \/ \E c \in Calls :
       \/ Begin(c) \/ ReadMarker(c) \/ FindOwned(c) \/ InsertUser(c) \/ CheckContent(c)
       \/ ReadWindow(c) \/ FindRecent(c) \/ FillWindow(c) \/ Provider(c) \/ Disconnect(c) \/ InsertReply(c)
       \/ CompareRow(c) \/ UpdateRow(c) \/ Invalidate(c) \/ RecordUsage(c)
       \/ SetMarker(c) \/ ClearMarker(c) \/ Fail(c)
  \/ Expire

Spec == Init /\ [][Next]_vars

-----------------------------------------------------------------------------
(* The properties.                                                         *)

Rows == [status : {"active", "archived", "deleted"}, titled : BOOLEAN, total : Nat]

\* The replies that have a token and whose call has updated the total: with one
\* token or none to a reply, the sum of their tokens is their number.
Counted == {i \in Of("assistant") : messages[i].tokens = 1 /\ messages[i].by \in saved}

\* The row, the messages and what Redis keeps are well typed.
TypeOK ==
  /\ row \in Rows
  /\ messages \in Seq([role : {"user", "assistant"}, by : Calls, tokens : {0, 1}])
  /\ window \in Nat \union {None} /\ pending \subseteq Calls

\* A reply is stored and its usage logged at most once by a request, and no
\* usage is logged without the reply and its tokens.
UsageOfReplies ==
  /\ \A i, j \in Of("assistant") : messages[i].by = messages[j].by => i = j
  /\ usage \subseteq saved /\ \A c \in saved : Replied(c)

\* A staged message is answered once, unless its marker outlived an answer
\* or two streams found it at a time.
AnsweredOnce ==
  \A s \in Calls \ reused :
    Cardinality({i \in Of("assistant") : call[messages[i].by].of = s}) <= 1

\* As long as every update was made to the row its call knew, the total is that
\* of the replies whose call got as far as updating it.
TotalExactUnlessStale ==
  ~stale => row.total = Cardinality(Counted)

\* A cached memory that lacks a stored reply is about to be invalidated, unless
\* a call that used it came to an end without doing so.
MemoryRefreshed ==
  window # None /\ (\E i \in Of("assistant") : i > window) => lost \/ \E c \in Calls : Rereads(c)

\* What every state of the conversation keeps.
Inv == TypeOK /\ UsageOfReplies /\ AnsweredOnce /\ TotalExactUnlessStale /\ MemoryRefreshed

\* A conversation is archived and deleted, and never comes back, unless a call
\* saves a copy from before: a reply that took long revives a deleted
\* conversation.
ClosedUnlessStale ==
  [][~stale' => /\ row.status = "deleted" => row'.status = "deleted"
                /\ row.status = "archived" => row'.status # "active"]_vars

=============================================================================
