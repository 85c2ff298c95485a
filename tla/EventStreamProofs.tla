-------------------------- MODULE EventStreamProofs --------------------------
(***************************************************************************)
(* Proofs about EventStream, for any number of writers, any page size and  *)
(* any bounds.  The argument has two halves.  The lock on the run's row     *)
(* makes the ids of the run's events commit in order (InOrder): an id that  *)
(* is still to commit is past everything committed, so past every cursor.   *)
(* Given that, what is committed up to the cursor has been received or is   *)
(* on the wire (Sent), and the wire is received in order: the browser is    *)
(* delivered one log (Implements).                                          *)
(***************************************************************************)
EXTENDS EventStream, TLAPS

InOrder ==
  /\ \A w \in Writer : write[w] # None => locked = w
  /\ \A w \in Writer : write[w] # None /\ write[w].id # None =>
       write[w].id < next /\ \A i \in Committed : i < write[w].id
  /\ \A i \in Committed : i < next

OverIsSaid == status # "open" => \E i \in Committed : event[i] \in Terminal

\* The cursor and the last id are those of events; the wire lies between them.
Placed ==
  /\ server.cursor = 0 \/ server.cursor \in Committed
  /\ last = 0 \/ last \in Committed
  /\ wire \subseteq Committed
  /\ received \subseteq Committed
  /\ \A i \in received : i <= last
  /\ \A i \in wire : last < i
  /\ server.phase # "off" => last <= server.cursor /\ \A i \in wire : i <= server.cursor

\* The rows of a page are the first ones past the cursor.
PageIsNext ==
  /\ server.rows \subseteq Unsent
  /\ \A i \in server.rows, j \in Unsent : j <= i => j \in server.rows

Sent ==
  /\ \A j \in Committed : j <= server.cursor => j \in received \cup wire
  /\ \A i \in wire, j \in Committed : j <= i => j \in received \cup wire
  /\ NothingSkipped

Ending ==
  /\ server.phase = "pending" => status # "open"
  /\ EndIsSent

StreamInv ==
  StreamTypeOK /\ InOrder /\ OverIsSaid /\ Placed /\ PageIsNext /\ Sent /\ Ending

\* The kinds of step, with what each invariant needs to know of them: a writer
\* locks the row or takes an id, an event commits, a writer gives up, an id is
\* skipped, or a step of the stream.
LEMMA StepKinds ==
  ASSUME [Next]_vars
  PROVE  \/ UNCHANGED vars
         \/ \E w \in Writer, kind \in Kind : LockRun(w, kind)
         \/ \E w \in Writer : TakeId(w)
         \/ \E w \in Writer : Commit(w)
         \/ \E w \in Writer : Rollback(w)
         \/ SkipId
         \/ Connect
         \/ Disconnect
         \/ Unavailable
         \/ Poll
         \/ \E i \in Id : Send(i)
         \/ PageDone
         \/ CheckStatus
         \/ CheckPending
         \/ \E i \in Id : Receive(i)
  BY DEF Next, WriterStep, StreamStep, ServerStep

LEMMA InitStreamInv == Init => StreamInv
  <1> SUFFICES ASSUME Init PROVE StreamInv
    OBVIOUS
  <1> USE StreamConstantsOK
  <1>1. Committed = {} /\ Unsent = {}
    BY DEF Init, Committed, Unsent
  <1>2. StreamTypeOK
    BY DEF Init, StreamTypeOK, Off, Server, Id
  <1> QED
    BY <1>1, <1>2 DEF Init, StreamInv, InOrder, OverIsSaid, Placed, PageIsNext, Sent,
       Ending, NothingSkipped, EndIsSent, Off

LEMMA StepTypeOK ==
  ASSUME StreamTypeOK, [Next]_vars
  PROVE  StreamTypeOK'
  <1> USE StreamConstantsOK DEF StreamTypeOK
  <1>1. CASE UNCHANGED vars
    BY <1>1 DEF vars, run, stream
  <1>2. ASSUME NEW w \in Writer, NEW kind \in Kind, LockRun(w, kind) PROVE StreamTypeOK'
    BY <1>2 DEF LockRun, stream, Write
  <1>3. ASSUME NEW w \in Writer, TakeId(w) PROVE StreamTypeOK'
    BY <1>3 DEF TakeId, stream, Write, Id
  <1>4. ASSUME NEW w \in Writer, Commit(w) PROVE StreamTypeOK'
    <2>1. write[w].id \in Id /\ write[w].kind \in Kind
      BY <1>4 DEF Commit, Write
    <2> QED
      BY <1>4, <2>1 DEF Commit, stream
  <1>5. ASSUME NEW w \in Writer, Rollback(w) PROVE StreamTypeOK'
    BY <1>5 DEF Rollback, stream
  <1>6. CASE SkipId
    BY <1>6 DEF SkipId, stream
  <1>7. CASE Connect
    <2>1. server' = [phase |-> "poll", cursor |-> last, rows |-> {}, full |-> FALSE]
      BY <1>7 DEF Connect, Off
    <2>2. server' \in Server
      BY <2>1 DEF Server
    <2>3. connects' \in 0..MaxConnects
      BY <1>7 DEF Connect, StreamConstantsOK
    <2> QED
      BY <1>7, <2>2, <2>3 DEF Connect, run
  <1>8. CASE Disconnect
    BY <1>8 DEF Disconnect, run, Off, Server
  <1>9. CASE Unavailable
    BY <1>9 DEF Unavailable, run, Off, Server
  <1>10. CASE Poll
    <2>1. PICK rows \in SUBSET Unsent :
            server' = [server EXCEPT !.phase = "send", !.rows = rows,
                                     !.full = Cardinality(rows) = PageSize]
      BY <1>10 DEF Poll
    <2> DEFINE full == Cardinality(rows) = PageSize
    <2>2. full \in BOOLEAN
      OBVIOUS
    <2>3. server' = [server EXCEPT !.phase = "send", !.rows = rows, !.full = full]
      BY <2>1
    <2>4. rows \in SUBSET Id
      BY DEF Unsent, Committed
    <2> HIDE DEF full
    <2>5. server' \in Server
      BY <2>2, <2>3, <2>4 DEF Server
    <2> QED
      BY <1>10, <2>5 DEF Poll, run
  <1>11. ASSUME NEW i \in Id, Send(i) PROVE StreamTypeOK'
    BY <1>11 DEF Send, run, Server
  <1>12. CASE PageDone
    BY <1>12 DEF PageDone, run, Server
  <1>13. CASE CheckStatus
    BY <1>13 DEF CheckStatus, run, Server
  <1>14. CASE CheckPending
    BY <1>14 DEF CheckPending, run, Server
  <1>15. ASSUME NEW i \in Id, Receive(i) PROVE StreamTypeOK'
    BY <1>15 DEF Receive, run
  <1> HIDE DEF StreamTypeOK
  <1> QED
    BY StepKinds, <1>1, <1>2, <1>3, <1>4, <1>5, <1>6, <1>7, <1>8, <1>9, <1>10, <1>11,
       <1>12, <1>13, <1>14, <1>15

\* Only a commit changes the events, and it only adds one that is past all others.
LEMMA CommitAppends ==
  ASSUME StreamTypeOK, InOrder, NEW w \in Writer, Commit(w)
  PROVE  \E new \in Id :
           /\ new = write[w].id
           /\ new < next
           /\ \A i \in Committed : i < new
           /\ Committed' = Committed \cup {new}
           /\ \A i \in Committed : event'[i] = event[i]
           /\ event'[new] = write[w].kind
  <1> DEFINE new == write[w].id
  <1>1. new \in Id /\ write[w].kind \in Kind
    BY DEF Commit, StreamTypeOK, Write
  <1>2. event' = [event EXCEPT ![new] = write[w].kind] /\ event \in [Id -> Kind \cup {None}]
    BY DEF Commit, StreamTypeOK
  <1>3. None \notin Kind
    BY StreamConstantsOK DEF StreamConstantsOK
  <1>4. Committed' = Committed \cup {new}
    BY <1>1, <1>2, <1>3 DEF Committed
  <1>5. new < next /\ \A i \in Committed : i < new
    BY DEF Commit, InOrder
  <1>6. \A i \in Committed : i # new
    BY <1>1, <1>5 DEF Committed, Id
  <1>7. \A i \in Committed : event'[i] = event[i]
    BY <1>1, <1>2, <1>6 DEF Committed
  <1>8. event'[new] = write[w].kind
    BY <1>1, <1>2
  <1> QED
    BY <1>1, <1>4, <1>5, <1>7, <1>8

\* What the stream does leaves the run alone.
LEMMA RunKept ==
  ASSUME \/ Connect \/ Disconnect \/ Unavailable \/ Poll \/ PageDone
         \/ CheckStatus \/ CheckPending
         \/ \E i \in Id : Send(i) \/ Receive(i)
  PROVE  UNCHANGED run
  BY DEF Connect, Disconnect, Unavailable, Poll, Send, PageDone, CheckStatus, CheckPending,
         Receive

\* The lock on the row: one writer at a time has an id that is still to commit.
LEMMA StepInOrder ==
  ASSUME StreamTypeOK, InOrder, [Next]_vars
  PROVE  InOrder'
  <1> USE DEF InOrder
  <1>1. CASE UNCHANGED vars
    BY <1>1 DEF vars, run, Committed
  <1>2. ASSUME NEW w \in Writer, NEW kind \in Kind, LockRun(w, kind) PROVE InOrder'
    <2>1. Committed' = Committed /\ next' = next
      BY <1>2 DEF LockRun, Committed
    <2>2. write' = [write EXCEPT ![w] = [kind |-> kind, id |-> None]] /\ locked' = w
      BY <1>2 DEF LockRun
    <2>3. \A x \in Writer : x # w => write[x] = None
      BY <1>2, StreamConstantsOK DEF LockRun, StreamConstantsOK
    <2> QED
      BY <2>1, <2>2, <2>3 DEF StreamTypeOK
  <1>3. ASSUME NEW w \in Writer, TakeId(w) PROVE InOrder'
    <2>1. Committed' = Committed
      BY <1>3 DEF TakeId, Committed
    <2>2. \A x \in Writer : x # w => write[x] = None
      BY <1>3 DEF TakeId
    <2>3. next \in Nat /\ next' = next + 1 /\ write' = [write EXCEPT ![w].id = next]
      BY <1>3, StreamConstantsOK DEF TakeId, StreamTypeOK, StreamConstantsOK
    <2>4. write'[w].id = next /\ locked' = locked /\ locked = w
      BY <1>3, <2>3 DEF TakeId, StreamTypeOK, Write
    <2>5. \A x \in Writer : x # w => write'[x] = None
      BY <2>2, <2>3 DEF StreamTypeOK
    <2>6. \A i \in Committed' : i < next' /\ i \in Nat
      BY <2>1, <2>3 DEF Committed, Id
    <2> QED
      BY <2>1, <2>3, <2>4, <2>5, <2>6
  <1>4. ASSUME NEW w \in Writer, Commit(w) PROVE InOrder'
    <2>1. PICK new \in Id : /\ new < next
                            /\ Committed' = Committed \cup {new}
      BY <1>4, CommitAppends
    <2>2. \A x \in Writer : x # w => write[x] = None
      BY <1>4 DEF Commit
    <2>3. \A x \in Writer : write'[x] = None
      BY <1>4, <2>2 DEF Commit, StreamTypeOK
    <2> QED
      BY <1>4, <2>1, <2>3 DEF Commit, stream
  <1>5. ASSUME NEW w \in Writer, Rollback(w) PROVE InOrder'
    <2>1. Committed' = Committed /\ next' = next
      BY <1>5 DEF Rollback, Committed
    <2>2. \A x \in Writer : write'[x] = None
      BY <1>5 DEF Rollback, StreamTypeOK
    <2> QED
      BY <2>1, <2>2
  <1>6. CASE SkipId
    <2>1. Committed' = Committed /\ next' = next + 1 /\ write' = write /\ locked' = locked
      BY <1>6 DEF SkipId, Committed
    <2>2. next \in Nat /\ \A i \in Committed : i \in Nat
      BY StreamConstantsOK DEF StreamTypeOK, StreamConstantsOK, Committed, Id
    <2>3. \A x \in Writer : write[x] # None /\ write[x].id # None => write[x].id \in Nat
      BY DEF StreamTypeOK, Write, Id
    <2> QED
      BY <2>1, <2>2, <2>3
  <1>7. ASSUME UNCHANGED run PROVE InOrder'
    BY <1>7 DEF run, Committed
  <1> HIDE DEF InOrder
  <1> QED
    BY StepKinds, RunKept, <1>1, <1>2, <1>3, <1>4, <1>5, <1>6, <1>7

\* The status is terminal only with its event, and events stay.
LEMMA StepOverIsSaid ==
  ASSUME StreamTypeOK, InOrder, OverIsSaid, [Next]_vars
  PROVE  OverIsSaid'
  <1>1. ASSUME NEW w \in Writer, Commit(w) PROVE OverIsSaid'
    <2>1. PICK new \in Id : /\ Committed' = Committed \cup {new}
                            /\ \A i \in Committed : event'[i] = event[i]
                            /\ event'[new] = write[w].kind
      BY <1>1, CommitAppends
    <2>2. CASE write[w].kind \in Terminal
      BY <2>1, <2>2 DEF OverIsSaid
    <2>3. CASE write[w].kind \notin Terminal
      <3>1. status' = status
        BY <1>1, <2>3 DEF Commit
      <3> QED
        BY <2>1, <3>1 DEF OverIsSaid
    <2> QED
      BY <2>2, <2>3
  <1>2. ASSUME status' = status, event' = event, Committed' = Committed PROVE OverIsSaid'
    BY <1>2 DEF OverIsSaid
  <1>3. ASSUME UNCHANGED run PROVE OverIsSaid'
    BY <1>3 DEF run, OverIsSaid, Committed
  <1>4. UNCHANGED vars => OverIsSaid'
    BY <1>3 DEF vars, run
  <1>5. (\E w \in Writer, kind \in Kind : LockRun(w, kind)) \/ (\E w \in Writer : TakeId(w))
          \/ (\E w \in Writer : Rollback(w)) \/ SkipId => OverIsSaid'
    BY <1>2 DEF LockRun, TakeId, Rollback, SkipId, Committed
  <1> QED
    BY StepKinds, RunKept, <1>1, <1>3, <1>4, <1>5

StreamParts == Placed /\ PageIsNext /\ Sent /\ Ending

\* A late commit is past the cursor, the wire, the page and the browser.
LEMMA CommitKeepsStream ==
  ASSUME StreamTypeOK, InOrder, StreamParts, NEW w \in Writer, Commit(w)
  PROVE  StreamParts'
  <1>1. PICK new \in Id : /\ \A i \in Committed : i < new
                          /\ Committed' = Committed \cup {new}
                          /\ \A i \in Committed : event'[i] = event[i]
    BY CommitAppends
  <1>2. UNCHANGED <<server, wire, last, received>>
    BY DEF Commit, stream
  <1>3. server.cursor \in Nat /\ server.cursor < new /\ last \in Nat /\ last < new
    BY <1>1 DEF Placed, StreamParts, StreamTypeOK, Server, Id
  <1>4. \A i \in wire : i < new /\ i \in Nat
    BY <1>1 DEF Placed, StreamParts, StreamTypeOK, Id
  <1>5. Unsent' = Unsent \cup {new}
    BY <1>1, <1>2, <1>3 DEF Unsent
  <1>6. \A i \in server.rows : i < new /\ i \in Nat
    BY <1>1 DEF PageIsNext, StreamParts, Unsent, Committed, Id
  <1>7. Placed'
    BY <1>1, <1>2 DEF StreamParts, Placed
  <1>8. PageIsNext'
    <2>1. server.rows \subseteq Unsent'
      BY <1>5 DEF PageIsNext, StreamParts
    <2>2. \A i \in server.rows, j \in Unsent' : j <= i => j \in server.rows
      BY <1>5, <1>6 DEF PageIsNext, StreamParts, Id
    <2> QED
      BY <1>2, <2>1, <2>2 DEF PageIsNext
  <1>9. Sent'
    BY <1>1, <1>2, <1>3, <1>4 DEF StreamParts, Sent, NothingSkipped, Id
  <1>10. Ending'
    <2>1. status # "open" => status' # "open"
      BY DEF Commit, Terminal
    <2> QED
      BY <1>1, <1>2, <2>1 DEF StreamParts, Ending, EndIsSent
  <1> QED
    BY <1>7, <1>8, <1>9, <1>10 DEF StreamParts

\* Nothing about the stream depends on who is about to write.
LEMMA WriteKeepsStream ==
  ASSUME StreamParts, UNCHANGED <<status, event, server, wire, last, received>>
  PROVE  StreamParts'
  BY DEF StreamParts, Placed, PageIsNext, Sent, Ending, NothingSkipped, EndIsSent, Unsent,
         Committed

\* A new stream starts from the last id the browser received.
LEMMA ConnectKeepsStream ==
  ASSUME StreamTypeOK, StreamParts, Connect
  PROVE  StreamParts'
  <1>1. server' = [phase |-> "poll", cursor |-> last, rows |-> {}, full |-> FALSE]
    BY DEF Connect, Off
  <1>2. UNCHANGED <<status, event, last, received>> /\ wire' = {} /\ Committed' = Committed
    BY DEF Connect, run, Committed
  <1>3. last \in Nat
    BY DEF StreamTypeOK, Id
  <1>4. Placed'
    BY <1>1, <1>2, <1>3 DEF StreamParts, Placed
  <1>5. PageIsNext'
    BY <1>1 DEF PageIsNext
  <1>6. Sent'
    BY <1>1, <1>2 DEF StreamParts, Sent, NothingSkipped
  <1>7. Ending'
    BY <1>1 DEF Ending, EndIsSent
  <1> QED
    BY <1>4, <1>5, <1>6, <1>7 DEF StreamParts

\* A lost stream leaves the browser with what it received.
LEMMA LossKeepsStream ==
  ASSUME StreamTypeOK, StreamParts, Disconnect \/ Unavailable
  PROVE  StreamParts'
  <1>1. server' = [phase |-> "off", cursor |-> 0, rows |-> {}, full |-> FALSE]
    BY DEF Disconnect, Unavailable, Off
  <1>2. /\ UNCHANGED <<status, event, last, received>>
        /\ wire' \subseteq wire
        /\ wire' = {} \/ wire' = wire
        /\ Committed' = Committed
    BY DEF Disconnect, Unavailable, run, Committed
  <1>3. Placed'
    BY <1>1, <1>2 DEF StreamParts, Placed
  <1>4. PageIsNext'
    BY <1>1 DEF PageIsNext
  <1>5. \A j \in Committed : ~(j <= 0)
    BY DEF Committed, Id
  <1>6. Sent'
    BY <1>1, <1>2, <1>5 DEF StreamParts, Sent, NothingSkipped
  <1>7. Ending'
    BY <1>1 DEF Ending, EndIsSent
  <1> QED
    BY <1>3, <1>4, <1>6, <1>7 DEF StreamParts

LEMMA PollKeepsStream ==
  ASSUME StreamTypeOK, StreamParts, Poll
  PROVE  StreamParts'
  <1>1. PICK rows \in SUBSET Unsent : /\ IsPage(rows)
                                      /\ server' = [server EXCEPT !.phase = "send", !.rows = rows,
                                                     !.full = Cardinality(rows) = PageSize]
    BY DEF Poll
  <1>2. UNCHANGED <<status, event, wire, last, received>>
    BY DEF Poll, run
  <1>3. server'.phase = "send" /\ server'.cursor = server.cursor /\ server'.rows = rows
    BY <1>1 DEF StreamTypeOK, Server
  <1>4. Committed' = Committed /\ Unsent' = Unsent
    BY <1>2, <1>3 DEF Committed, Unsent
  <1>5. Placed'
    BY <1>2, <1>3, <1>4 DEF StreamParts, Placed, Poll
  <1>6. PageIsNext'
    <2>1. \A i \in rows, j \in Unsent \ rows : i < j
      BY <1>1 DEF IsPage
    <2>2. \A i \in Unsent : i \in Nat
      BY DEF Unsent, Committed, Id
    <2>3. \A i \in rows, j \in Unsent : j <= i => j \in rows
      BY <2>1, <2>2
    <2> QED
      BY <1>3, <1>4, <2>3 DEF PageIsNext
  <1>7. Sent'
    BY <1>2, <1>3, <1>4 DEF StreamParts, Sent, NothingSkipped
  <1>8. Ending'
    BY <1>3 DEF Ending, EndIsSent
  <1> QED
    BY <1>5, <1>6, <1>7, <1>8 DEF StreamParts

LEMMA SendKeepsStream ==
  ASSUME StreamTypeOK, StreamParts, NEW i \in Id, Send(i)
  PROVE  StreamParts'
  <1>1. UNCHANGED <<status, event, last, received>> /\ wire' = wire \cup {i}
    BY DEF Send, run
  <1>2. /\ server'.cursor = i
        /\ server'.rows = server.rows \ {i}
        /\ server'.phase = IF event[i] \in Terminal THEN "ended" ELSE "send"
    BY DEF Send, StreamTypeOK, Server
  <1>3. Committed' = Committed /\ Unsent' = {j \in Committed : j > i}
    BY <1>1, <1>2 DEF Committed, Unsent
  <1>4. i \in Committed /\ i > server.cursor /\ server.phase = "send" /\ server.cursor \in Nat
    BY DEF Send, StreamParts, PageIsNext, Unsent, StreamTypeOK, Server, Id
  <1>5. \A j \in Committed : j \in Nat
    BY DEF Committed, Id
  <1>6. last \in Nat /\ \A j \in wire : j \in Nat
    BY DEF StreamTypeOK, Id
  <1>7. \A j \in Committed : j <= i /\ j > server.cursor => j = i
    <2> SUFFICES ASSUME NEW j \in Committed, j <= i, j > server.cursor PROVE j = i
      OBVIOUS
    <2>1. j \in server.rows
      BY DEF Send, StreamParts, PageIsNext, Unsent
    <2> QED
      BY <1>5, <2>1 DEF Send, Id
  <1>8. Placed'
    BY <1>1, <1>2, <1>3, <1>4, <1>5, <1>6 DEF StreamParts, Placed
  <1>9. PageIsNext'
    <2>1. \A j \in server.rows : j \in Committed
      BY DEF StreamParts, PageIsNext, Unsent
    <2>2. \A j \in server.rows \ {i} : j > i
      BY <1>5, <2>1 DEF Send, Id
    <2>3. server.rows \ {i} \subseteq Unsent'
      BY <1>3, <2>1, <2>2
    <2>4. \A k \in server.rows \ {i}, j \in Unsent' : j <= k => j \in server.rows \ {i}
      BY <1>3, <1>4, <1>5 DEF StreamParts, PageIsNext, Unsent
    <2> QED
      BY <1>2, <2>3, <2>4 DEF PageIsNext
  <1>10. Sent'
    <2>1. \A j \in Committed : j <= i => j \in received \cup wire'
      BY <1>1, <1>4, <1>5, <1>7 DEF StreamParts, Sent
    <2> QED
      BY <1>1, <1>2, <1>3, <2>1 DEF StreamParts, Sent, NothingSkipped
  <1>11. Ending'
    <2>1. server'.phase = "ended" => event[i] \in Terminal
      BY <1>2
    <2>2. server'.phase # "pending"
      BY <1>2
    <2>3. i <= server'.cursor
      BY <1>2, <1>4, <1>5
    <2> QED
      BY <1>1, <1>3, <1>4, <2>1, <2>2, <2>3 DEF Ending, EndIsSent
  <1> QED
    BY <1>8, <1>9, <1>10, <1>11 DEF StreamParts

\* The end of a page, and the two reads that may end the stream.
LEMMA LookKeepsStream ==
  ASSUME StreamTypeOK, OverIsSaid, StreamParts, PageDone \/ CheckStatus \/ CheckPending
  PROVE  StreamParts'
  <1>1. UNCHANGED <<status, event, wire, last, received>> /\ Committed' = Committed
    BY DEF PageDone, CheckStatus, CheckPending, run, Committed
  <1>2. server'.cursor = server.cursor /\ server'.rows = server.rows /\ server.phase # "off"
    BY DEF PageDone, CheckStatus, CheckPending, StreamTypeOK, Server
  <1>3. Unsent' = Unsent
    BY <1>1, <1>2 DEF Unsent
  <1>4. Placed'
    BY <1>1, <1>2 DEF StreamParts, Placed
  <1>5. PageIsNext'
    BY <1>2, <1>3 DEF StreamParts, PageIsNext
  <1>6. Sent'
    BY <1>1, <1>2 DEF StreamParts, Sent, NothingSkipped
  <1>7. Ending'
    <2>1. server'.phase = "pending" => status # "open"
      BY DEF PageDone, CheckStatus, CheckPending, StreamTypeOK, Server
    <2>2. server'.phase = "ended" => Unsent = {} /\ server.phase = "pending"
      BY DEF PageDone, CheckStatus, CheckPending, StreamTypeOK, Server
    <2>3. server.phase = "pending" => \E i \in Committed : event[i] \in Terminal
      BY DEF StreamParts, Ending, OverIsSaid
    <2>4. \A i \in Committed : i \in Nat /\ server.cursor \in Nat
      BY DEF Committed, StreamTypeOK, Server, Id
    <2>5. Unsent = {} => \A i \in Committed : i <= server.cursor
      BY <2>4 DEF Unsent
    <2> QED
      BY <1>1, <1>2, <2>1, <2>2, <2>3, <2>5 DEF Ending, EndIsSent
  <1> QED
    BY <1>4, <1>5, <1>6, <1>7 DEF StreamParts

LEMMA ReceiveKeepsStream ==
  ASSUME StreamTypeOK, StreamParts, NEW i \in Id, Receive(i)
  PROVE  StreamParts'
  <1>1. /\ UNCHANGED <<status, event, server>> /\ Committed' = Committed
        /\ wire' = wire \ {i} /\ last' = i /\ received' = received \cup {i}
        /\ i \in wire
    BY DEF Receive, run, Committed
  <1>2. \A j \in wire : i <= j /\ j \in Nat
    BY DEF Receive, StreamTypeOK, Id
  <1>3. i \in Committed /\ last < i /\ last \in Nat
    BY <1>1 DEF StreamParts, Placed, StreamTypeOK, Id
  <1>4. \A j \in received : j \in Nat
    BY DEF StreamTypeOK, Id
  <1>5. Placed'
    BY <1>1, <1>2, <1>3, <1>4 DEF StreamParts, Placed, Id
  <1>6. PageIsNext'
    BY <1>1 DEF StreamParts, PageIsNext, Unsent
  <1>7. Sent'
    <2>1. \A j \in Committed : j \in received \cup wire => j \in received' \cup wire'
      BY <1>1
    <2>2. \A j \in Committed : j <= i => j \in received'
      BY <1>1, <1>2 DEF StreamParts, Sent, Committed, Id
    <2> QED
      BY <1>1, <2>1, <2>2 DEF StreamParts, Sent, NothingSkipped
  <1>8. Ending'
    BY <1>1 DEF StreamParts, Ending, EndIsSent
  <1> QED
    BY <1>5, <1>6, <1>7, <1>8 DEF StreamParts

LEMMA StepStreamInv ==
  ASSUME StreamInv, [Next]_vars
  PROVE  StreamInv'
  <1>1. StreamTypeOK /\ InOrder /\ OverIsSaid /\ StreamParts
    BY DEF StreamInv, StreamParts
  <1>2. StreamTypeOK' /\ InOrder' /\ OverIsSaid'
    BY <1>1, StepTypeOK, StepInOrder, StepOverIsSaid
  <1>3. UNCHANGED vars => StreamParts'
    BY <1>1, WriteKeepsStream DEF vars, run, stream
  <1>4. ASSUME NEW w \in Writer, NEW kind \in Kind, LockRun(w, kind) PROVE StreamParts'
    BY <1>1, <1>4, WriteKeepsStream DEF LockRun, stream
  <1>5. SkipId => StreamParts'
    BY <1>1, WriteKeepsStream DEF SkipId, stream
  <1>6. ASSUME NEW w \in Writer, Rollback(w) PROVE StreamParts'
    BY <1>1, <1>6, WriteKeepsStream DEF Rollback, stream
  <1>7. ASSUME NEW w \in Writer, TakeId(w) PROVE StreamParts'
    BY <1>1, <1>7, WriteKeepsStream DEF TakeId, stream
  <1>8. StreamParts'
    BY StepKinds, <1>1, <1>3, <1>4, <1>5, <1>6, <1>7, CommitKeepsStream, ConnectKeepsStream,
       LossKeepsStream, PollKeepsStream, SendKeepsStream, LookKeepsStream, ReceiveKeepsStream
  <1> QED
    BY <1>2, <1>8 DEF StreamInv, StreamParts

THEOREM StreamInvHolds == Spec => []StreamInv
  <1>1. Init => StreamInv
    BY InitStreamInv
  <1>2. StreamInv /\ [Next]_vars => StreamInv'
    BY StepStreamInv
  <1> QED
    BY <1>1, <1>2, PTL DEF Spec

\* A browser has every event up to the last one it received.
THEOREM NothingIsSkipped == Spec => []NothingSkipped
  <1>1. StreamInv => NothingSkipped
    BY DEF StreamInv, Sent
  <1> QED
    BY <1>1, StreamInvHolds, PTL

\* The server ends a stream only after the event that ended the run.
THEOREM EndIsAlwaysSent == Spec => []EndIsSent
  <1>1. StreamInv => EndIsSent
    BY DEF StreamInv, Ending
  <1> QED
    BY <1>1, StreamInvHolds, PTL

-----------------------------------------------------------------------------
(* The log.  The lock on the run's row also makes what is written fit what   *)
(* was written before: its holder read the status under it.                  *)

WritesFit == \A w \in Writer : write[w] # None => MayWrite(write[w].kind, status)
OneOutcome == \A i \in Committed : event[i] \in Terminal => event[i] = status

LogInv == WritesFit /\ OneOutcome

LEMMA StepLogInv ==
  ASSUME StreamInv, LogInv, [Next]_vars
  PROVE  LogInv'
  <1> USE DEF LogInv
  <1>1. StreamTypeOK /\ InOrder
    BY DEF StreamInv
  <1>2. ASSUME UNCHANGED <<status, event>>,
               \A w \in Writer : write'[w] # None =>
                 \/ write[w] # None /\ write'[w].kind = write[w].kind
                 \/ MayWrite(write'[w].kind, status)
        PROVE  LogInv'
    BY <1>2 DEF WritesFit, OneOutcome, Committed
  <1>3. CASE UNCHANGED run
    BY <1>2, <1>3 DEF run
  <1>4. ASSUME NEW w \in Writer, NEW kind \in Kind, LockRun(w, kind) PROVE LogInv'
    <2>1. write' = [write EXCEPT ![w] = [kind |-> kind, id |-> None]]
      BY <1>4 DEF LockRun
    <2>2. \A x \in Writer : x # w => write'[x] = write[x]
      BY <1>1, <2>1 DEF StreamTypeOK
    <2>3. write'[w].kind = kind
      BY <1>1, <2>1 DEF StreamTypeOK
    <2> QED
      BY <1>2, <1>4, <2>2, <2>3 DEF LockRun
  <1>5. ASSUME NEW w \in Writer, TakeId(w) PROVE LogInv'
    <2>1. write' = [write EXCEPT ![w].id = next] /\ write[w] # None
      BY <1>5 DEF TakeId
    <2>2. write[w] \in Write
      BY <1>1, <2>1 DEF StreamTypeOK
    <2>3. write'[w].kind = write[w].kind
      BY <1>1, <2>1, <2>2 DEF StreamTypeOK, Write
    <2>4. \A x \in Writer : x # w => write'[x] = write[x]
      BY <1>1, <2>1 DEF StreamTypeOK
    <2> QED
      BY <1>2, <1>5, <2>1, <2>3, <2>4 DEF TakeId
  <1>6. ASSUME NEW w \in Writer, Commit(w) PROVE LogInv'
    <2>1. PICK new \in Id : /\ Committed' = Committed \cup {new}
                            /\ \A i \in Committed : event'[i] = event[i]
                            /\ event'[new] = write[w].kind
      BY <1>1, <1>6, CommitAppends
    <2>2. \A x \in Writer : write'[x] = None
      BY <1>1, <1>6 DEF Commit, InOrder, StreamTypeOK
    <2>3. MayWrite(write[w].kind, status)
      BY <1>6 DEF Commit, WritesFit
    <2>4. status' = IF write[w].kind \in Terminal THEN write[w].kind ELSE status
      BY <1>6 DEF Commit
    <2>5. \A i \in Committed : event[i] \in Terminal => event[i] = status'
      BY <2>3, <2>4 DEF OneOutcome, MayWrite, Terminal
    <2>6. write[w].kind \in Terminal => write[w].kind = status'
      BY <2>4
    <2>7. OneOutcome'
      BY <2>1, <2>5, <2>6 DEF OneOutcome
    <2> QED
      BY <2>2, <2>7 DEF WritesFit
  <1>7. ASSUME NEW w \in Writer, Rollback(w) PROVE LogInv'
    <2>1. \A x \in Writer : write'[x] # None => write'[x] = write[x]
      BY <1>1, <1>7 DEF Rollback, StreamTypeOK
    <2> QED
      BY <1>2, <1>7, <2>1 DEF Rollback
  <1>8. CASE SkipId
    BY <1>2, <1>8 DEF SkipId
  <1>9. CASE UNCHANGED vars
    BY <1>3, <1>9 DEF vars
  <1> HIDE DEF LogInv
  <1> QED
    BY StepKinds, RunKept, <1>3, <1>4, <1>5, <1>6, <1>7, <1>8, <1>9

\* What a writer says fits the run's status until it commits, and the run has one
\* outcome in its events.
THEOREM LogInvHolds == Spec => []LogInv
  <1>1. Init => LogInv
    BY DEF Init, LogInv, WritesFit, OneOutcome, Committed
  <1>2. StreamInv /\ LogInv /\ [Next]_vars => LogInv'
    BY StepLogInv
  <1> QED
    BY <1>1, <1>2, StreamInvHolds, PTL DEF Spec

\* A commit appends to the log.
LEMMA CommitIsAppend ==
  ASSUME StreamInv, LogInv, NEW w \in Writer, Commit(w)
  PROVE  \E i \in Id, kind \in Kind : Log!Append(i, kind)
  <1>1. StreamTypeOK /\ InOrder /\ OverIsSaid
    BY DEF StreamInv
  <1> DEFINE new == write[w].id
             kind == write[w].kind
  <1>2. new \in Id /\ kind \in Kind
    BY <1>1 DEF Commit, StreamTypeOK, Write
  <1>3. \A i \in Log!Logged : i < new
    BY <1>1 DEF Commit, InOrder, Log!Logged, Committed
  <1>4. MayWrite(kind, status)
    BY DEF Commit, LogInv, WritesFit
  <1>5. \A k \in Terminal : Log!Says(k) => status = k
    BY StreamConstantsOK DEF LogInv, OneOutcome, Log!Says, Committed, Terminal, Kind
  <1>6. status # "open" => Log!Says("completed") \/ Log!Says("cancelled")
    BY <1>1 DEF OverIsSaid, Log!Says, Committed, Terminal
  <1>7. Log!MayFollow(kind)
    BY <1>4, <1>5, <1>6 DEF MayWrite, Log!MayFollow, Terminal
  <1>8. event' = [event EXCEPT ![new] = kind] /\ UNCHANGED <<received, last>>
    BY DEF Commit, stream
  <1>9. Log!Append(new, kind)
    BY <1>3, <1>7, <1>8 DEF Log!Append
  <1> QED
    BY <1>2, <1>9

\* What the browser takes off the wire is the next entry it does not have.
LEMMA ReceiveIsDeliver ==
  ASSUME StreamInv, NEW i \in Id, Receive(i)
  PROVE  Log!Deliver(i)
  <1>1. i \in wire /\ (\A j \in wire : i <= j) /\ UNCHANGED event
    BY DEF Receive, run
  <1>2. last < i /\ last \in Nat /\ i \in Committed
    BY <1>1 DEF StreamInv, Placed, StreamTypeOK, Id
  <1>3. i \notin received
    BY <1>2 DEF StreamInv, Placed, Id
  <1>4. \A j \in Committed \ received : i <= j
    <2> SUFFICES ASSUME NEW j \in Committed, j \notin received, ~(i <= j) PROVE FALSE
      OBVIOUS
    <2>1. j <= i
      BY DEF Committed, Id
    <2>2. j \in wire
      BY <1>1, <2>1 DEF StreamInv, Sent
    <2> QED
      BY <1>1, <2>2
  <1>5. Log!Logged = Committed
    BY DEF Log!Logged, Committed
  <1> QED
    BY <1>1, <1>2, <1>3, <1>4, <1>5 DEF Log!Deliver, Receive

LEMMA LogStep ==
  ASSUME StreamInv, LogInv, [Next]_vars
  PROVE  [Log!Next]_(Log!vars)
  <1>1. ASSUME NEW w \in Writer, Commit(w) PROVE Log!Next
    BY <1>1, CommitIsAppend DEF Log!Next, Log!Kind, Kind
  <1>2. ASSUME NEW i \in Id, Receive(i) PROVE Log!Next
    BY <1>2, ReceiveIsDeliver DEF Log!Next
  <1>3. \/ \E w \in Writer : Commit(w)
        \/ \E i \in Id : Receive(i)
        \/ UNCHANGED <<event, received, last>>
    BY StepKinds DEF vars, run, stream, LockRun, TakeId, Rollback, SkipId, Connect,
       Disconnect, Unavailable, Poll, Send, PageDone, CheckStatus, CheckPending
  <1> QED
    BY <1>1, <1>2, <1>3 DEF Log!vars

\* However many writers there are and however often a connection is lost, a
\* browser sees one log of its run, entry by entry: EventStream implements EventLog.
THEOREM Implements == Spec => DeliversTheLog
  <1>1. Init => Log!Init
    BY DEF Init, Log!Init
  <1>2. StreamInv /\ LogInv /\ [Next]_vars => [Log!Next]_(Log!vars)
    BY LogStep
  <1> QED
    BY <1>1, <1>2, StreamInvHolds, LogInvHolds, PTL DEF Spec, DeliversTheLog, Log!Spec
=============================================================================
