----------------------------- MODULE EventStream -----------------------------
(***************************************************************************)
(* The events of one run: many transactions append to agent_events, and a  *)
(* browser follows them over a connection it may lose (api::events).       *)
(*                                                                         *)
(* The cursor of a stream is the largest id it sent.  Ids come from a       *)
(* sequence, which is not transactional: a transaction takes its id when it *)
(* inserts and may commit long after, or never.  A cursor is only safe      *)
(* because every writer takes the lock on the run's row first.              *)
(*                                                                         *)
(* Id bounds the ids of the run's events; ids of other runs are gaps.       *)
(***************************************************************************)
EXTENDS Naturals, FiniteSets

CONSTANTS
  Writer,        \* transactions that write an event of the run, one after another
  MaxId,         \* bound: the ids taken
  PageSize,      \* how many rows one read returns (100)
  MaxConnects,   \* bound: how often the browser connects
  None

Kind == {"progress", "completed", "cancelled", "discarded"}
\* The kinds that end a stream, and the statuses a run keeps.
Terminal == {"completed", "cancelled"}

ASSUME StreamConstantsOK ==
  /\ {MaxId, PageSize, MaxConnects} \subseteq Nat
  /\ PageSize > 0
  /\ None \notin Nat \cup Kind \cup Writer

Id == 1..MaxId

VARIABLES
  status,     \* the run: "open" (queued, running or paused), or a terminal status
  event,      \* the committed events: the kind by id, or None
  next,       \* the sequence: the next id it gives
  locked,     \* who holds the lock on the run's row, or None
  write,      \* by writer: None, or the event it is about to commit (id None: not yet)
  server,     \* the stream: its phase, its cursor, the rows read and not sent yet
  wire,       \* ids sent and not received
  last,       \* browser: the id it received last, which it reconnects with
  received,   \* browser: the ids it received
  connects    \* the connections made

run == <<status, event, next, locked, write>>
stream == <<server, wire, last, received, connects>>
vars == <<run, stream>>

Committed == {i \in Id : event[i] # None}

Server == [phase : {"off", "poll", "send", "status", "pending", "ended"},
           cursor : Id \cup {0}, rows : SUBSET Id, full : BOOLEAN]
Write == [kind : Kind, id : Id \cup {None}]

StreamTypeOK ==
  /\ status \in Terminal \cup {"open"}
  /\ event \in [Id -> Kind \cup {None}]
  /\ next \in 1..(MaxId + 1)
  /\ locked \in Writer \cup {None}
  /\ write \in [Writer -> Write \cup {None}]
  /\ server \in Server
  /\ wire \subseteq Id
  /\ last \in Id \cup {0}
  /\ received \subseteq Id
  /\ connects \in 0..MaxConnects

Off == [phase |-> "off", cursor |-> 0, rows |-> {}, full |-> FALSE]

Init ==
  /\ status = "open"
  /\ event = [i \in Id |-> None]
  /\ next = 1
  /\ locked = None
  /\ write = [w \in Writer |-> None]
  /\ server = Off
  /\ wire = {}
  /\ last = 0
  /\ received = {}
  /\ connects = 0

-----------------------------------------------------------------------------
(* The writers.                                                            *)

\* What a writer may say of a run with that status: the worker and the switch of
\* an open run, a cancel of an open or a cancelled one, a discard of a finished one.
MayWrite(kind, of) ==
  CASE kind \in {"progress", "completed"} -> of = "open"
    [] kind = "cancelled" -> of \in {"open", "cancelled"}
    [] kind = "discarded" -> of # "open"

\* Mutant: the insert does not wait for the row.
LockRunNoWait(w, kind) ==
  /\ write[w] = None
  /\ MayWrite(kind, status)
  /\ locked' = w
  /\ write' = [write EXCEPT ![w] = [kind |-> kind, id |-> None]]
  /\ UNCHANGED <<status, event, next, stream>>

\* UPDATE or SELECT ... FOR UPDATE on the run's row, which decides what is written.
LockRun(w, kind) ==
  /\ write[w] = None
  /\ locked = None
  /\ MayWrite(kind, status)
  /\ locked' = w
  /\ write' = [write EXCEPT ![w] = [kind |-> kind, id |-> None]]
  /\ UNCHANGED <<status, event, next, stream>>

\* INSERT: nextval is taken now.
TakeId(w) ==
  /\ write[w] # None
  /\ write[w].id = None
  /\ next <= MaxId
  /\ write' = [write EXCEPT ![w].id = next]
  /\ next' = next + 1
  /\ UNCHANGED <<status, event, locked, stream>>

\* Mutant: a cancel is announced as a discard.
CommitAsDiscard(w) ==
  /\ write[w] # None
  /\ write[w].id # None
  /\ event' = [event EXCEPT ![write[w].id] =
                 IF write[w].kind = "cancelled" THEN "discarded" ELSE write[w].kind]
  /\ status' = IF write[w].kind \in Terminal THEN write[w].kind ELSE status
  /\ locked' = None
  /\ write' = [write EXCEPT ![w] = None]
  /\ UNCHANGED <<next, stream>>

\* The status and the event become visible together.
Commit(w) ==
  /\ write[w] # None
  /\ write[w].id # None
  /\ event' = [event EXCEPT ![write[w].id] = write[w].kind]
  /\ status' = IF write[w].kind \in Terminal THEN write[w].kind ELSE status
  /\ locked' = None
  /\ write' = [write EXCEPT ![w] = None]
  /\ UNCHANGED <<next, stream>>

\* The transaction fails; its id is lost.
Rollback(w) ==
  /\ write[w] # None
  /\ locked' = None
  /\ write' = [write EXCEPT ![w] = None]
  /\ UNCHANGED <<status, event, next, stream>>

\* The sequence gives an id to an event of another run.
SkipId ==
  /\ next < MaxId
  /\ next' = next + 1
  /\ UNCHANGED <<status, event, locked, write, stream>>

-----------------------------------------------------------------------------
(* The stream.                                                             *)

\* Mutant: the id the browser sends is ignored.
ConnectFromStart ==
  /\ server.phase \in {"off", "ended"}
  /\ connects < MaxConnects
  /\ connects' = connects + 1
  /\ server' = [Off EXCEPT !.phase = "poll"]
  /\ wire' = {}
  /\ UNCHANGED <<run, last, received>>

\* The browser connects, with the id it received last.
Connect ==
  /\ server.phase \in {"off", "ended"}
  /\ connects < MaxConnects
  /\ connects' = connects + 1
  /\ server' = [Off EXCEPT !.phase = "poll", !.cursor = last]
  /\ wire' = {}
  /\ UNCHANGED <<run, last, received>>

\* The connection or the server is lost: what is on the wire is too.
Disconnect ==
  /\ server.phase # "off"
  /\ connects < MaxConnects
  /\ server' = Off
  /\ wire' = {}
  /\ UNCHANGED <<run, last, received, connects>>

\* The database does not answer: an error event, and the stream is over.
Unavailable ==
  /\ server.phase \in {"poll", "status", "pending"}
  /\ connects < MaxConnects
  /\ server' = Off
  /\ UNCHANGED <<run, wire, last, received, connects>>

Unsent == {i \in Committed : i > server.cursor}

\* Page: the first PageSize of the rows past the cursor.
IsPage(rows) ==
  /\ rows \subseteq Unsent
  /\ \A i \in rows, j \in Unsent \ rows : i < j
  /\ Cardinality(rows) <= PageSize
  /\ Cardinality(rows) < PageSize => rows = Unsent

Poll ==
  /\ server.phase = "poll"
  /\ \E rows \in SUBSET Unsent :
       /\ IsPage(rows)
       /\ server' = [server EXCEPT !.phase = "send", !.rows = rows,
                                   !.full = Cardinality(rows) = PageSize]
  /\ UNCHANGED <<run, wire, last, received, connects>>

\* One row is sent and becomes the cursor; a terminal one ends the stream.
Send(i) ==
  /\ server.phase = "send"
  /\ i \in server.rows
  /\ \A j \in server.rows : i <= j
  /\ server' = [server EXCEPT !.cursor = i, !.rows = @ \ {i},
                              !.phase = IF event[i] \in Terminal THEN "ended" ELSE "send"]
  /\ wire' = wire \cup {i}
  /\ UNCHANGED <<run, last, received, connects>>

\* A full page is followed by another; else the run's status is read.
PageDone ==
  /\ server.phase = "send"
  /\ server.rows = {}
  /\ server' = [server EXCEPT !.phase = IF server.full THEN "poll" ELSE "status"]
  /\ UNCHANGED <<run, wire, last, received, connects>>

\* Mutant: a terminal status ends the stream without another look at the events.
CheckStatusOnly ==
  /\ server.phase = "status"
  /\ server' = [server EXCEPT !.phase = IF status = "open" THEN "poll" ELSE "ended"]
  /\ UNCHANGED <<run, wire, last, received, connects>>

CheckStatus ==
  /\ server.phase = "status"
  /\ server' = [server EXCEPT !.phase = IF status = "open" THEN "poll" ELSE "pending"]
  /\ UNCHANGED <<run, wire, last, received, connects>>

\* An event that committed between the two reads is drained before the end.
CheckPending ==
  /\ server.phase = "pending"
  /\ server' = [server EXCEPT !.phase = IF Unsent # {} THEN "poll" ELSE "ended"]
  /\ UNCHANGED <<run, wire, last, received, connects>>

\* The browser takes the next event off the wire.
Receive(i) ==
  /\ i \in wire
  /\ \A j \in wire : i <= j
  /\ wire' = wire \ {i}
  /\ last' = i
  /\ received' = received \cup {i}
  /\ UNCHANGED <<run, server, connects>>

WriterStep ==
  \E w \in Writer :
    \/ \E kind \in Kind : LockRun(w, kind)
    \/ TakeId(w)
    \/ Commit(w)
    \/ Rollback(w)

ServerStep ==
  \/ Poll
  \/ \E i \in Id : Send(i)
  \/ PageDone
  \/ CheckStatus
  \/ CheckPending

StreamStep ==
  \/ Connect
  \/ Disconnect
  \/ Unavailable
  \/ ServerStep
  \/ \E i \in Id : Receive(i)

Next == WriterStep \/ SkipId \/ StreamStep

\* The server's loop ticks, the wire delivers, and a browser without the run's
\* end connects again.  Lost connections are as many as MaxConnects allows.
Wanting == \A i \in received : event[i] \notin Terminal
Reconnect == Wanting /\ Connect

Fairness ==
  /\ WF_vars(ServerStep)
  /\ WF_vars(\E i \in Id : Receive(i))
  /\ WF_vars(Reconnect)

Spec == Init /\ [][Next]_vars /\ Fairness

-----------------------------------------------------------------------------
\* Whatever commits late, and however often the connection is lost in the middle
\* of a page, a browser has every event up to the last one it received: no event
\* is skipped because a later id was committed, and sent, before it.
NothingSkipped == \A i \in Committed : i <= last => i \in received

Log == INSTANCE EventLog WITH log <- event, got <- received, latest <- last

\* With any number of writers and lost connections, a browser sees one log of the
\* run, written in the order of its ids with one outcome, entry by entry, each once.
DeliversTheLog == Log!Spec

\* A stream that the server ended has sent the event that ended the run, though
\* the run may end between the read of the events and the read of its status.
EndIsSent ==
  server.phase = "ended" => \E i \in Committed :
    /\ event[i] \in Terminal
    /\ i <= server.cursor

\* Once a run is over, a browser that reconnects learns that it is.
EndIsReceived == status # "open" ~> \E i \in received : event[i] \in Terminal
=============================================================================
