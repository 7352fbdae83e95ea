------------------------------ MODULE ApiStream ------------------------------
(***************************************************************************)
(* The public event stream: api_event_stream and its state row, written by *)
(* the trigger on domain_events and purged by retention; the repository's  *)
(* reads; the route that resolves Last-Event-ID; one SseSession with its   *)
(* timers and its chain of writes; the server that closes it; and a client *)
(* that reconnects with the last id it received.  A sequence number stands *)
(* for a revision, 0 for no cursor.                                        *)
(***************************************************************************)
EXTENDS Naturals, FiniteSets, FiniteSetsExt, Sequences, SequencesExt

CONSTANTS Committers,   \* transactions that write domain events
          MaxSequence,  \* revisions that are written
          BatchSize     \* sseBatchSize

VARIABLES stream, conn, client, server
apiVars == <<stream, conn, client, server>>

-----------------------------------------------------------------------------
(* Faulty variant: the lock is not held to the end of the transaction. *)
LockNotHeld == TRUE

(* The tables.  enqueue_api_domain_event_revision takes the advisory lock, *)
(* allocates the identity and holds the lock until the transaction ends.   *)
LockFree == \A w \in Committers : stream.open[w] = 0

Allocate(w) ==
  /\ LockFree /\ stream.open[w] = 0 /\ stream.next <= MaxSequence
  /\ stream' = [stream EXCEPT !.open[w] = stream.next, !.next = @ + 1]
  /\ UNCHANGED <<conn, client, server>>

CommitRevision(w) ==
  /\ stream.open[w] # 0
  /\ LET n == stream.open[w]
     IN stream' = [stream EXCEPT !.rows = @ \cup {n}, !.committed = @ \cup {n},
                                 !.last = IF n > @ THEN n ELSE @, !.open[w] = 0]
  /\ UNCHANGED <<conn, client, server>>

(* The identity is lost with its transaction. *)
RollBack(w) ==
  /\ stream.open[w] # 0
  /\ stream' = [stream EXCEPT !.open[w] = 0]
  /\ UNCHANGED <<conn, client, server>>

(* purge_after passes, in the order of the sequence.  A transaction and a  *)
(* poll take less than the four hours a row lives: no row expires between  *)
(* two polls of a session that has no cursor row yet.                      *)
Expire ==
  /\ \E e \in stream.expired + 1..stream.next - 1 :
       /\ \A w \in Committers : stream.open[w] # 0 => e < stream.open[w]
       /\ conn.cursor = 0 /\ conn.at = "open" => \A n \in stream.rows : n <= stream.expired
       /\ stream' = [stream EXCEPT !.expired = e]
  /\ UNCHANGED <<conn, client, server>>

(* The clock of the statement moves while it scans: any of the rows that   *)
(* are past their time by the end of it.                                   *)
purgeApiEventStream ==
  /\ \E D \in SUBSET {n \in stream.rows : n <= stream.expired} \ {{}} :
       stream' = [stream EXCEPT !.rows = @ \ D,
                                !.through = IF Max(D) > @ THEN Max(D) ELSE @]
  /\ UNCHANGED <<conn, client, server>>

-----------------------------------------------------------------------------
(* The repository. *)
Active == {n \in stream.rows : n > stream.expired}
highWaterMark == IF Active = {} THEN 0 ELSE Max(Active)
lowWaterMark == IF Active = {} THEN 0 ELSE Min(Active)

(* Anything else makes every read fail. *)
storedState ==
  /\ stream.through <= stream.last /\ highWaterMark <= stream.last
  /\ Active # {} => lowWaterMark > stream.through

resolve(n) ==
  IF ~storedState THEN "INVALID_STATE"
  ELSE IF n <= stream.through THEN "EXPIRED"
  ELSE IF n > stream.last THEN "FUTURE"
  ELSE IF n \notin Active THEN "EXPIRED" ELSE "CURRENT"

CursorStatus(n) == IF n = 0 THEN (IF storedState THEN "CURRENT" ELSE "INVALID_STATE") ELSE resolve(n)

Ascending(S) == SetToSortSeq(S, LAMBDA a, b : a < b)

readAfter(n) ==
  LET all == Ascending({k \in Active : k > n})
  IN SubSeq(all, 1, IF Len(all) < BatchSize THEN Len(all) ELSE BatchSize)

-----------------------------------------------------------------------------
(* The session.  poll and beat are what each loop waits for, tail the      *)
(* chain of writes (the head is being written; draining says that it waits *)
(* for the socket), batch the revisions that the poll has still to queue.  *)
(* wire holds what the socket took and the client has not read.            *)
NoConnection ==
  [at |-> "none", cursor |-> 0, poll |-> "off", beat |-> "off", tail |-> << >>, batch |-> << >>,
   draining |-> FALSE, wire |-> << >>, up |-> FALSE, ended |-> FALSE]

Event(n) == [kind |-> "event", id |-> n]
Beat == [kind |-> "beat", id |-> 0]
Terminal(code) == [kind |-> code, id |-> 0]

Writable(c) == c.up /\ ~c.ended
Closed(c) == c.at # "open"

(* closeWithError: the loops stop, a write that waits for the socket is    *)
(* interrupted and the terminal frame queues behind the writes before it.  *)
closeWithError(c, code) ==
  IF Closed(c) THEN c
  ELSE [c EXCEPT !.at = "closing", !.poll = IF @ = "reading" THEN @ ELSE "off", !.beat = "off",
                 !.batch = << >>, !.draining = FALSE,
                 !.tail = (IF c.draining THEN Tail(c.tail) ELSE c.tail) \o <<Terminal(code)>>]

(* The loops go on once their write is done. *)
NextPoll(c) ==
  IF c.batch = << >> THEN [c EXCEPT !.poll = "timer"]
  ELSE [c EXCEPT !.poll = "writing", !.tail = Append(@, Event(Head(c.batch))), !.batch = Tail(@)]

NextBeat(c) == [c EXCEPT !.beat = "timer"]

Proceeds(c, op) ==
  IF Closed(c) THEN c ELSE IF op.kind = "event" THEN NextPoll(c) ELSE NextBeat(c)

(* A loop whose write failed ends the session. *)
Failed(c) == closeWithError(c, "DEPENDENCY_UNAVAILABLE")

(* The cursor follows what the socket took. *)
Took(c, op) == [c EXCEPT !.tail = Tail(@), !.draining = FALSE,
                         !.cursor = IF op.kind = "event" THEN op.id ELSE @]

pollTimer ==
  /\ conn.at = "open" /\ conn.poll = "timer"
  /\ conn' = [conn EXCEPT !.poll = "reading"]
  /\ UNCHANGED <<stream, client, server>>

(* poll after its read; the database may have failed. *)
poll(failed) ==
  /\ conn.poll = "reading"
  /\ conn' = IF Closed(conn) THEN [conn EXCEPT !.poll = "off"]
             ELSE IF failed \/ CursorStatus(conn.cursor) \in {"INVALID_STATE", "FUTURE"}
             THEN [closeWithError(conn, "DEPENDENCY_UNAVAILABLE") EXCEPT !.poll = "off"]
             ELSE IF CursorStatus(conn.cursor) = "EXPIRED"
             THEN [closeWithError(conn, "EVENT_CURSOR_EXPIRED") EXCEPT !.poll = "off"]
             ELSE NextPoll([conn EXCEPT !.batch = readAfter(conn.cursor)])
  /\ UNCHANGED <<stream, client, server>>

heartbeat ==
  /\ conn.at = "open" /\ conn.beat = "timer"
  /\ conn' = [conn EXCEPT !.beat = "writing", !.tail = Append(@, Beat)]
  /\ UNCHANGED <<stream, client, server>>

(* The head of the chain: an event or a heartbeat is skipped by a closed   *)
(* session, fails on a dead socket, and is taken at once or after a drain. *)
writeFrame ==
  /\ conn.tail # << >> /\ ~conn.draining
  /\ LET op == Head(conn.tail)
     IN /\ op.kind \in {"event", "beat"}
        /\ \/ Closed(conn) /\ conn' = Proceeds([conn EXCEPT !.tail = Tail(@)], op)
           \/ ~Closed(conn) /\ ~Writable(conn)
              /\ conn' = Failed([conn EXCEPT !.tail = Tail(@)])
           \/ ~Closed(conn) /\ Writable(conn)
              /\ \/ conn' = Proceeds(Took([conn EXCEPT !.wire = Append(@, op)], op), op)
                 \/ conn' = [conn EXCEPT !.wire = Append(@, op), !.draining = TRUE]
  /\ UNCHANGED <<stream, client, server>>

waitForDrain ==
  /\ conn.draining
  /\ LET op == Head(conn.tail)
     IN conn' = IF Writable(conn) THEN Proceeds(Took(conn, op), op)
                ELSE Failed([conn EXCEPT !.tail = Tail(@), !.draining = FALSE])
  /\ UNCHANGED <<stream, client, server>>

(* The terminal frame, with the end of the response and the notification   *)
(* of the server; a session that the client left writes none.              *)
endResponse ==
  /\ conn.tail # << >> /\ Head(conn.tail).kind \notin {"event", "beat"}
  /\ LET op == Head(conn.tail)
     IN conn' = [conn EXCEPT !.at = "closed", !.tail = << >>, !.ended = TRUE,
                             !.wire = IF Writable(conn) /\ op.kind # "CLIENT" THEN Append(@, op) ELSE @]
  /\ UNCHANGED <<stream, client, server>>

(* The socket does not take the terminal frame in time. *)
destroyResponse ==
  /\ conn.tail # << >> /\ Head(conn.tail).kind \notin {"event", "beat", "CLIENT"} /\ conn.up
  /\ conn' = [conn EXCEPT !.at = "closed", !.tail = << >>, !.ended = TRUE, !.up = FALSE, !.wire = << >>]
  /\ client' = [client EXCEPT !.at = "away"]
  /\ UNCHANGED <<stream, server>>

(* The close event of a response that the peer destroyed. *)
onClientClose ==
  /\ conn.at = "open" /\ ~conn.up
  /\ conn' = closeWithError(conn, "CLIENT")
  /\ UNCHANGED <<stream, client, server>>

-----------------------------------------------------------------------------
(* The route.  LastId is the header of the request. *)
LastId == IF client.got = << >> THEN 0 ELSE client.got[Len(client.got)]

Request ==
  /\ client.at = "away" /\ server = "listening" /\ conn.at \in {"none", "closed"}
  /\ conn' = [NoConnection EXCEPT !.at = "resolving", !.up = TRUE]
  /\ client' = [client EXCEPT !.at = "asking"]
  /\ UNCHANGED <<stream, server>>

(* A client that is told that its cursor expired forgets it, as one that   *)
(* never received anything does when it comes back.  base remembers the    *)
(* last revision at the time it started.                                   *)
Fresh(at) == [base |-> 0, got |-> << >>, at |-> at]

StartAfter(n) == [conn EXCEPT !.at = "open", !.cursor = n, !.poll = "timer", !.beat = "timer"]

Refuse == [conn EXCEPT !.at = "closed", !.ended = TRUE]

(* resolveStreamStart and start.  A server that began to close meanwhile   *)
(* ends the response before it makes the session.                          *)
dispatchEventStream(failed) ==
  /\ conn.at = "resolving"
  /\ IF ~conn.up \/ server # "listening" \/ failed \/ ~storedState
     THEN conn' = Refuse /\ client' = [client EXCEPT !.at = "away"]
     ELSE IF LastId = 0
     THEN conn' = StartAfter(highWaterMark) /\ client' = [client EXCEPT !.at = "listening", !.base = stream.last]
     ELSE IF resolve(LastId) = "CURRENT"
     THEN conn' = StartAfter(LastId) /\ client' = [client EXCEPT !.at = "listening"]
     ELSE /\ conn' = Refuse
          /\ client' = IF resolve(LastId) = "EXPIRED" THEN Fresh("away") ELSE [client EXCEPT !.at = "away"]
  /\ UNCHANGED <<stream, server>>

(* The client reads a frame. *)
Receive ==
  /\ client.at = "listening" /\ conn.wire # << >>
  /\ LET f == Head(conn.wire)
     IN client' = IF f.kind = "event" THEN [client EXCEPT !.got = Append(@, f.id)]
                  ELSE IF f.kind = "beat" THEN client
                  ELSE IF f.kind = "EVENT_CURSOR_EXPIRED" THEN Fresh("away")
                  ELSE [client EXCEPT !.at = "away"]
  /\ conn' = [conn EXCEPT !.wire = Tail(@)]
  /\ UNCHANGED <<stream, server>>

(* The connection breaks: frames on the wire are lost. *)
Disconnect ==
  /\ client.at # "away"
  /\ client' = [client EXCEPT !.at = "away"]
  /\ conn' = [conn EXCEPT !.up = FALSE, !.wire = << >>]
  /\ UNCHANGED <<stream, server>>

-----------------------------------------------------------------------------
(* The server. *)
close ==
  /\ server = "listening"
  /\ server' = "closing"
  /\ conn' = closeWithError(conn, "SERVER")
  /\ UNCHANGED <<stream, client>>

(* closeInternal waits for the sessions; requests that are still being     *)
(* resolved are given the grace period and then cut.                       *)
closeInternal ==
  /\ server = "closing" /\ conn.at \notin {"open", "closing"}
  /\ server' = "closed"
  /\ conn' = IF conn.at = "resolving" THEN [conn EXCEPT !.up = FALSE] ELSE conn
  /\ UNCHANGED <<stream, client>>

-----------------------------------------------------------------------------
ApiInit ==
  /\ stream = [rows |-> {}, committed |-> {}, next |-> 1, last |-> 0, expired |-> 0, through |-> 0,
               open |-> [w \in Committers |-> 0]]
  /\ conn = NoConnection
  /\ client = Fresh("away")
  /\ server = "listening"

ApiNext ==
  \/ \E w \in Committers : Allocate(w) \/ CommitRevision(w)
  \/ pollTimer \/ poll(FALSE) \/ writeFrame \/ waitForDrain \/ endResponse
  \/ onClientClose \/ Request \/ dispatchEventStream(FALSE) \/ Receive \/ closeInternal

ApiDisturbed ==
  \/ \E w \in Committers : RollBack(w)
  \/ Expire \/ purgeApiEventStream \/ heartbeat \/ poll(TRUE) \/ dispatchEventStream(TRUE)
  \/ Disconnect \/ destroyResponse \/ close

(* A client that is not told that its cursor expired has received, once    *)
(* and in order, every revision that was committed after its starting      *)
(* point and up to the last one it knows: across lost connections and      *)
(* slow sockets (writeFrame, waitForDrain, resolveStreamStart), purges     *)
(* between two polls (readAfter, resolve) and transactions that commit in  *)
(* another order than they began (the trigger of migration 006).           *)
StreamIsComplete ==
  client.got = Ascending({n \in stream.committed : client.base < n /\ n <= LastId})

=============================================================================
