------------------------------- MODULE Logging --------------------------------
(***************************************************************************)
(* The Cloud Logging emulator: internal/logging/store.go and the handlers  *)
(* of service.go.  It keeps the entries of the last writes in memory.      *)
(*                                                                         *)
(* An entry is its log, its severity and, in place of its payload, the     *)
(* number of entries written before it.  Resource names and text filters   *)
(* only choose entries, as the log and the severity do, and are left out.  *)
(***************************************************************************)
EXTENDS Naturals, Sequences

CONSTANTS
  Logs,          \* log names
  NoLog,         \* an entry, a request or a filter without one
  Severities,    \* the order of severities, as severityOrder has it
  MaxEntries,    \* maxEntries: how many entries are kept
  MaxPage,       \* the page size when the client gives none or a larger one
  MaxBatch,      \* bound: entries in one request
  MaxWritten     \* bound: entries written

ASSUME LoggingAssumption ==
  /\ NoLog \notin Logs /\ Severities \subseteq Nat
  /\ MaxEntries \in Nat \ {0} /\ MaxPage \in Nat \ {0}
  /\ MaxBatch \in Nat /\ MaxWritten \in Nat

VARIABLES
  entries,       \* Store.entries
  written,       \* how many entries have been written to this process
  kept           \* those of them whose log was not deleted since

logVars == <<entries, written, kept>>

LoggingInit == entries = <<>> /\ written = 0 /\ kept = {}

-----------------------------------------------------------------------------

\* An entry without a log takes the request's.
WithDefaults(e, default) == IF e.log = NoLog THEN [e EXCEPT !.log = default] ELSE e

\* A defective trim: the oldest entries are kept.
TrimmedFront(s) == IF Len(s) > MaxEntries THEN SubSeq(s, 1, MaxEntries) ELSE s

Trimmed(s) == IF Len(s) > MaxEntries THEN SubSeq(s, Len(s) - MaxEntries + 1, Len(s)) ELSE s

WriteLogEntries(default, batch) ==
  LET new == [i \in DOMAIN batch |->
                WithDefaults([log |-> batch[i].log, severity |-> batch[i].severity,
                              before |-> written + i - 1], default)]
  IN /\ written + Len(batch) <= MaxWritten
     /\ entries' = Trimmed(entries \o new)
     /\ written' = written + Len(batch)
     /\ kept' = kept \cup {new[i] : i \in DOMAIN new}

\* The elements at some places of a sequence, taken from its front to its back.
Chosen(s, places) ==
  LET Taken[i \in 0..Len(s)] ==
        IF i = 0 THEN <<>>
        ELSE IF i \in places THEN Append(Taken[i - 1], s[i]) ELSE Taken[i - 1]
  IN Taken[Len(s)]

DeleteLog(l) ==
  /\ entries' = Chosen(entries, {i \in DOMAIN entries : entries[i].log # l})
  /\ kept' = {e \in kept : e.log # l}
  /\ UNCHANGED written

\* Fewer are not a page of their own kind: 0 is no page size.
PageSize(size) == IF size = 0 \/ size > MaxPage THEN MaxPage ELSE size

\* The clauses severity>= and logName= of a filter.
Matches(e, filter) ==
  /\ e.severity >= filter.severity
  /\ filter.log # NoLog => e.log = filter.log

\* The oldest matching entries, one page of them; there is no second page.
ListLogEntries(filter, size) ==
  LET found == Chosen(entries, {i \in DOMAIN entries : Matches(entries[i], filter)})
  IN IF Len(found) > PageSize(size) THEN SubSeq(found, 1, PageSize(size)) ELSE found

ListLogs == {entries[i].log : i \in DOMAIN entries}

Batches == UNION {[1..n -> [log : Logs \cup {NoLog}, severity : Severities]] : n \in 1..MaxBatch}

LoggingStep ==
  \/ \E default \in Logs \cup {NoLog}, batch \in Batches : WriteLogEntries(default, batch)
  \/ \E l \in Logs \cup {NoLog} : DeleteLog(l)

-----------------------------------------------------------------------------
(* Properties                                                              *)

\* An entry is found by every listing it matches until its log is deleted or
\* MaxEntries later ones have been written, if there is not a page of older
\* ones; a listing is in the order of the writes, has nothing else, and its
\* logs are those that are listed.
EntriesAreFound ==
  \A filter \in [log : Logs \cup {NoLog}, severity : Severities], size \in 0..(MaxPage + 1) :
    LET page == ListLogEntries(filter, size) IN
    /\ \A i, j \in DOMAIN page : i < j => page[i].before < page[j].before
    /\ \A i \in DOMAIN page : page[i] \in kept /\ page[i].log \in ListLogs
    /\ \A e \in {x \in kept : Matches(x, filter)} :
         \/ \E i \in DOMAIN page : page[i] = e
         \/ e.before + MaxEntries < written
         \/ /\ Len(page) = PageSize(size)
            /\ \A i \in DOMAIN page : page[i].before < e.before
=============================================================================
