------------------------ MODULE ConfigurationStore ------------------------
(***************************************************************************)
(* One key of ConfigurationService or of FeatureFlagsService: its row, its *)
(* history and its cached copy (src/src/feature-flags).  Every await is a  *)
(* step, nothing locks the row, and the cache answers or fails as Redis    *)
(* pleases.                                                                *)
(***************************************************************************)
EXTENDS Naturals

CONSTANTS Calls,      \* requests
          Values,     \* values of the key
          Off,        \* the value of a disabled flag
          MaxVersion, \* bound on the version of a row
          None        \* no row, no value

VARIABLES
  table,   \* "config" or "flag": the service that owns the key
  made,    \* how many rows the key has had
  setting, \* the row: [id, version, value], or None
  past,    \* configuration_history: a set of [id, version, value]
  cached,  \* the cached value, or None
  request, \* each call: [kind, pc, id, version, value]
  overlap, \* history: whether two writers have been under way at once
  torn,    \* history: whether a writer failed after it changed the row
  missed   \* history: whether a change of the row has left the cache behind

configVars == <<table, made, setting, past, cached, request, overlap, torn, missed>>

NoRequest == [kind |-> "none", pc |-> "idle", id |-> 0, version |-> 0, value |-> None]
Answered  == [NoRequest EXCEPT !.pc = "done"]

ConfigInit ==
  /\ table \in {"config", "flag"}
  /\ made = 0 /\ setting = None /\ past = {} /\ cached = None
  /\ request = [c \in Calls |-> NoRequest]
  /\ overlap = FALSE /\ torn = FALSE /\ missed = FALSE

Proceed(c, r) == request' = [request EXCEPT ![c] = r]
Entry(r) == [id |-> r.id, version |-> r.version, value |-> r.value]
Writers == {c \in Calls : request[c].kind \in {"set", "rollback"} /\ request[c].pc \notin {"idle", "done"}}
Joined == overlap' = (overlap \/ Writers # {})

-----------------------------------------------------------------------------
(* Writers.                                                                *)

\* What a writer does with the row it found: the next version of it, a first
\* row, or, for the update of a flag that is not there, nothing.
Plan(kind, value, row) ==
  IF row # None
  THEN [kind |-> kind, pc |-> "update", id |-> row.id, version |-> row.version + 1, value |-> value]
  ELSE [kind |-> kind, pc |-> "create", id |-> made + 1, version |-> 1, value |-> value]

\* set, update, toggle and create, up to the row they look for.  A flag that
\* exists is not created again, and only an existing one is updated.
FindToSet(c, value) ==
  /\ request[c] = NoRequest
  /\ Proceed(c, Plan("set", value, setting))
  /\ Joined
  /\ UNCHANGED <<table, made, setting, past, cached, torn, missed>>

\* rollback reads the row; a configuration then looks for the old value in
\* the history, a flag is disabled whatever version is asked for.
BeginRollback(c, target) ==
  /\ request[c] = NoRequest /\ setting # None /\ target \in 1 .. setting.version - 1
  /\ Proceed(c, [kind |-> "rollback", pc |-> IF table = "flag" THEN "find" ELSE "lookup",
                 id |-> setting.id, version |-> target, value |-> Off])
  /\ Joined
  /\ UNCHANGED <<table, made, setting, past, cached, torn, missed>>

LookUpVersion(c) ==
  /\ request[c].pc = "lookup"
  /\ LET found == {h \in past : h.id = request[c].id /\ h.version = request[c].version} IN
     IF found = {} THEN Proceed(c, Answered)
     ELSE \E h \in found : Proceed(c, [request[c] EXCEPT !.pc = "find", !.value = h.value])
  /\ UNCHANGED <<table, made, setting, past, cached, overlap, torn, missed>>

\* The set (by key) or the update (by id) that ends a rollback.
FindToRollBack(c) ==
  /\ request[c].pc = "find"
  /\ Proceed(c, Plan("rollback", request[c].value, setting))
  /\ UNCHANGED <<table, made, setting, past, cached, overlap, torn, missed>>

\* Where a writer goes once the row is written.
AfterWrite(r) == [r EXCEPT !.pc = IF table = "config" THEN "record" ELSE "invalidate"]

\* An UPDATE by id: of no row if the row has been deleted.
UpdateSetting(c) ==
  /\ request[c].pc = "update" /\ request[c].version <= MaxVersion
  /\ setting' = IF setting # None /\ setting.id = request[c].id THEN Entry(request[c]) ELSE setting
  /\ Proceed(c, AfterWrite(request[c]))
  /\ UNCHANGED <<table, made, past, cached, overlap, torn, missed>>

\* An INSERT: the unique index on key and environment lets one creator through.
CreateSetting(c) ==
  /\ request[c].pc = "create"
  /\ IF setting = None
     THEN /\ setting' = [id |-> made + 1, version |-> 1, value |-> request[c].value]
          /\ made' = made + 1
          /\ Proceed(c, AfterWrite([request[c] EXCEPT !.id = made + 1]))
     ELSE Proceed(c, Answered) /\ UNCHANGED <<setting, made>>
  /\ UNCHANGED <<table, past, cached, overlap, torn, missed>>

\* The unique index on id and version refuses the second entry of a version:
\* the call ends with an error, and the cache stays as it is.
RecordVersion(c) ==
  /\ request[c].pc = "record"
  /\ IF \E h \in past : h.id = request[c].id /\ h.version = request[c].version
     THEN Proceed(c, Answered) /\ missed' = TRUE /\ UNCHANGED past
     ELSE /\ past' = past \union {Entry(request[c])}
          /\ Proceed(c, [request[c] EXCEPT !.pc = "invalidate"])
          /\ UNCHANGED missed
  /\ UNCHANGED <<table, made, setting, cached, overlap, torn>>

\* delete: the row it finds, then the DELETE, then the cache.
FindToDelete(c) ==
  /\ request[c] = NoRequest /\ table = "config" /\ setting # None
  /\ Proceed(c, [kind |-> "delete", pc |-> "delete", id |-> setting.id, version |-> 0, value |-> None])
  /\ UNCHANGED <<table, made, setting, past, cached, overlap, torn, missed>>

DeleteSetting(c) ==
  /\ request[c].pc = "delete"
  /\ setting' = IF setting # None /\ setting.id = request[c].id THEN None ELSE setting
  /\ Proceed(c, [request[c] EXCEPT !.pc = "invalidate"])
  /\ UNCHANGED <<table, made, past, cached, overlap, torn, missed>>

\* Fault: the cached value is dropped before the row changes, as well as never
\* after.
FaultInvalidateSetting(c) ==
  /\ request[c].pc = "invalidate"
  /\ Proceed(c, Answered)
  /\ UNCHANGED <<table, made, setting, past, cached, overlap, torn, missed>>

InvalidateSetting(c) ==
  /\ request[c].pc = "invalidate"
  /\ \/ cached' = None /\ missed' = FALSE
     \/ UNCHANGED cached /\ missed' = TRUE
  /\ Proceed(c, Answered)
  /\ UNCHANGED <<table, made, setting, past, overlap, torn>>

-----------------------------------------------------------------------------
(* Readers, and what happens to everyone.                                  *)

\* get and findFlag: the cache, then on a miss the row, then the cache again.
ReadCached(c) ==
  /\ request[c] = NoRequest
  /\ \/ cached # None /\ Proceed(c, Answered)
     \/ Proceed(c, [NoRequest EXCEPT !.kind = "get", !.pc = "load"])
  /\ UNCHANGED <<table, made, setting, past, cached, overlap, torn, missed>>

LoadSetting(c) ==
  /\ request[c].pc = "load"
  /\ Proceed(c, IF setting = None THEN Answered
                ELSE [request[c] EXCEPT !.pc = "fill", !.value = setting.value])
  /\ UNCHANGED <<table, made, setting, past, cached, overlap, torn, missed>>

FillCached(c) ==
  /\ request[c].pc = "fill"
  /\ \/ /\ cached' = request[c].value
        /\ missed' = (setting = None \/ setting.value # request[c].value)
     \/ UNCHANGED <<cached, missed>>
  /\ Proceed(c, Answered)
  /\ UNCHANGED <<table, made, setting, past, overlap, torn>>

\* CACHE_TTL_SECONDS are over, or the cache is flushed.
ExpireCached ==
  /\ cached # None
  /\ cached' = None /\ missed' = FALSE
  /\ UNCHANGED <<table, made, setting, past, request, overlap, torn>>

\* A database error, or the loss of the process.
FailRequest(c) ==
  /\ request[c].pc \notin {"idle", "done"}
  /\ Proceed(c, Answered)
  /\ torn' = (torn \/ request[c].pc = "record")
  /\ missed' = (missed \/ request[c].pc \in {"record", "invalidate"})
  /\ UNCHANGED <<table, made, setting, past, cached, overlap>>

ConfigNext ==
  \/ \E c \in Calls :
       \/ \E v \in Values : FindToSet(c, v)
       \/ \E n \in 1 .. MaxVersion : BeginRollback(c, n)
       \/ LookUpVersion(c) \/ FindToRollBack(c) \/ UpdateSetting(c) \/ CreateSetting(c) \/ RecordVersion(c)
       \/ FindToDelete(c) \/ DeleteSetting(c) \/ InvalidateSetting(c)
       \/ ReadCached(c) \/ LoadSetting(c) \/ FillCached(c) \/ FailRequest(c)
  \/ ExpireCached

-----------------------------------------------------------------------------
(* The properties.                                                         *)

\* The row, the history and the calls are well typed.
ConfigTypeOK ==
  /\ setting # None => /\ setting.id \in 1 .. made /\ setting.version \in 1 .. MaxVersion
                       /\ setting.value \in Values \union {Off}
  /\ past \subseteq [id : 1 .. made, version : 1 .. MaxVersion, value : Values \union {Off}]
  /\ cached \in Values \union {Off, None}

Writing(id) == {c \in Calls : request[c].pc = "record" /\ request[c].id = id}

\* The history of a configuration row holds every version it has had, the
\* present value under the present number, as soon as the writer of that
\* version is done; unless two writers overlapped or one failed in between.
HistoryComplete ==
  table = "config" /\ setting # None /\ ~overlap /\ ~torn =>
    LET entries == {h \in past : h.id = setting.id} IN
    \/ Writing(setting.id) # {} /\ {h.version : h \in entries} = 1 .. setting.version - 1
    \/ {h.version : h \in entries} = 1 .. setting.version /\ Entry(setting) \in entries

\* The cache holds another value than the row only while a writer that changed
\* the row is under way, or when a deletion of the cached value was missed, or
\* a reader brought back what it had read before.
CacheFreshUnlessMissed ==
  cached # None /\ ~missed /\ (\A c \in Calls : request[c].pc \notin {"record", "invalidate"}) =>
    setting # None /\ cached = setting.value

\* What every state of the key keeps.
ConfigInv == ConfigTypeOK /\ HistoryComplete /\ CacheFreshUnlessMissed

=============================================================================
