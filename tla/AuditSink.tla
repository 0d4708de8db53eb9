----------------------------- MODULE AuditSink -----------------------------
(***************************************************************************)
(* The audit log (internal/audit): a Writer that fans each record out to   *)
(* its sinks, a bounded channel and a goroutine behind each sink, and a    *)
(* Close that may run while requests are still writing (main closes the    *)
(* Writer after the HTTP server's shutdown, which gives up on slow         *)
(* handlers after five seconds).                                           *)
(*                                                                         *)
(* Each goroutine that writes has one record, named by the goroutine.  The *)
(* steps are the channel operations, and the I/O of the sinks' goroutines. *)
(***************************************************************************)
EXTENDS Integers, Sequences, FiniteSets

CONSTANTS
  Writers,     \* goroutines that call Writer.Write
  Sinks,       \* the configured sinks, in order: a sequence of "file", "s3"
  Capacity,    \* of each sink's channel
  FlushAt,     \* FlushBytes, in records
  Faults,      \* "io": a failing disk or bucket; "encode": a record that JSON
               \* cannot hold; "slow": a Close that expires
  MaxTime      \* bound on the clock, in the seconds of an object's key

ASSUME SinkAssumption == Sinks \in Seq({"file", "s3"})

ASSUME NumbersAssumption ==
  Capacity \in Nat \ {0} /\ FlushAt \in Nat \ {0} /\ MaxTime \in Nat

ASSUME FaultAssumption == Faults \subseteq {"io", "encode", "slow"}

N == Len(Sinks)

\* The zero time.Time.
NoTime == -1

Times == (0..MaxTime) \cup {NoTime}

VARIABLES
  wr,        \* where each writer is, and at which sink
  shut,      \* Writer.closed
  closed,    \* the sinks whose closed channel is closed
  chClosed,  \* the sinks whose record channel is closed
  ch,        \* the record channels
  ended,     \* the sinks whose goroutine has returned
  cl,        \* where Writer.Close is, and at which sink
  expired,   \* Close's context
  lines,     \* the records each file holds
  buf,       \* the records each S3 sink buffers
  firstAt,   \* when the first of them was taken
  objects,   \* the bucket: the records under each key
  stuck,     \* the file sinks whose encoder has kept a write error
  failed,    \* records an S3 sink gave up, with an error in the log
  dropped,   \* records a file sink gave up, and nobody was told
  now,
  accepted,  \* history: the records each sink has taken from a Write
  takenAt,   \* history: when an S3 sink took a record from its channel
  uploaded   \* history: the batches each sink has uploaded, and their seconds

vars == <<wr, shut, closed, chClosed, ch, ended, cl, expired, lines, buf,
          firstAt, objects, stuck, failed, dropped, now, accepted, takenAt,
          uploaded>>

ioVars == <<lines, buf, firstAt, objects, stuck, failed, dropped, takenAt, uploaded>>

At(label, i) == [at |-> label, sink |-> i]

\* After sink i: the next sink, or the end.
NextSink(i) == IF i >= N THEN At("returned", N) ELSE At("check", i + 1)

Init ==
  /\ wr = [w \in Writers |-> At("idle", 0)]
  /\ shut = FALSE
  /\ closed = {} /\ chClosed = {} /\ ended = {}
  /\ ch = [i \in 1..N |-> <<>>]
  /\ cl = At("open", 0)
  /\ expired = FALSE
  /\ lines = [i \in 1..N |-> <<>>]
  /\ buf = [i \in 1..N |-> {}]
  /\ firstAt = [i \in 1..N |-> NoTime]
  /\ objects = [i \in 1..N |-> [t \in 0..MaxTime |-> {}]]
  /\ stuck = {}
  /\ failed = [i \in 1..N |-> {}] /\ dropped = [i \in 1..N |-> {}]
  /\ now = 0
  /\ accepted = [i \in 1..N |-> {}]
  /\ takenAt = [i \in 1..N |-> [w \in Writers |-> NoTime]]
  /\ uploaded = [i \in 1..N |-> {}]

-----------------------------------------------------------------------------
(* Writer.Write and the sinks' Write, which are the same select twice.     *)

\* A closed Writer takes nothing; an open one goes on to its first sink.
Write(w) ==
  /\ wr[w].at = "idle"
  /\ wr' = [wr EXCEPT ![w] = IF shut THEN At("returned", 0) ELSE NextSink(0)]
  /\ UNCHANGED <<shut, closed, chClosed, ch, ended, cl, expired, ioVars, now,
                 accepted>>

\* The first select: a closed sink returns its error, which nobody reads.
Check(w) ==
  /\ wr[w].at = "check"
  /\ LET i == wr[w].sink
     IN  wr' = [wr EXCEPT ![w] = IF i \in closed THEN NextSink(i) ELSE At("send", i)]
  /\ UNCHANGED <<shut, closed, chClosed, ch, ended, cl, expired, ioVars, now,
                 accepted>>

\* A mutant of Send: the channel has no bound.
SendUnbounded(w) ==
  LET i == wr[w].sink
  IN  /\ wr[w].at \in {"send", "parked"}
      /\ i \notin chClosed
      /\ ch' = [ch EXCEPT ![i] = Append(@, w)]
      /\ accepted' = [accepted EXCEPT ![i] = @ \cup {w}]
      /\ wr' = [wr EXCEPT ![w] = NextSink(i)]
      /\ UNCHANGED <<shut, closed, chClosed, ended, cl, expired, ioVars, now>>

\* The second select sends, also once closed is closed and ch is not yet.
Send(w) ==
  LET i == wr[w].sink
  IN  /\ wr[w].at \in {"send", "parked"}
      /\ i \notin chClosed /\ Len(ch[i]) < Capacity
      /\ ch' = [ch EXCEPT ![i] = Append(@, w)]
      /\ accepted' = [accepted EXCEPT ![i] = @ \cup {w}]
      /\ wr' = [wr EXCEPT ![w] = NextSink(i)]
      /\ UNCHANGED <<shut, closed, chClosed, ended, cl, expired, ioVars, now>>

\* Nothing is ready in the second select: the goroutine parks.
Park(w) ==
  LET i == wr[w].sink
  IN  /\ wr[w].at = "send" /\ i \notin closed /\ Len(ch[i]) >= Capacity
      /\ wr' = [wr EXCEPT ![w] = At("parked", i)]
      /\ UNCHANGED <<shut, closed, chClosed, ch, ended, cl, expired, ioVars,
                     now, accepted>>

\* The second select sees closed.
SendRefused(w) ==
  /\ wr[w].at = "send" /\ wr[w].sink \in closed
  /\ wr' = [wr EXCEPT ![w] = NextSink(wr[w].sink)]
  /\ UNCHANGED <<shut, closed, chClosed, ch, ended, cl, expired, ioVars, now,
                 accepted>>

\* The select's other case is ready as well: a send on a closed channel.
SendPanics(w) ==
  /\ wr[w].at = "send" /\ wr[w].sink \in chClosed
  /\ wr' = [wr EXCEPT ![w] = At("panicked", wr[w].sink)]
  /\ UNCHANGED <<shut, closed, chClosed, ch, ended, cl, expired, ioVars, now,
                 accepted>>

-----------------------------------------------------------------------------
(* Writer.Close, sink by sink.                                             *)

CloseWriter ==
  /\ cl.at = "open"
  /\ shut' = TRUE
  /\ cl' = IF N = 0 THEN At("closed", 0) ELSE At("flag", 1)
  /\ UNCHANGED <<wr, closed, chClosed, ch, ended, expired, ioVars, now, accepted>>

\* close(s.closed) wakes the parked writers with that case.
CloseFlag ==
  /\ cl.at = "flag"
  /\ closed' = closed \cup {cl.sink}
  /\ wr' = [w \in Writers |-> IF wr[w] = At("parked", cl.sink)
                                THEN NextSink(cl.sink) ELSE wr[w]]
  /\ cl' = [cl EXCEPT !.at = "chan"]
  /\ UNCHANGED <<shut, chClosed, ch, ended, expired, ioVars, now, accepted>>

CloseChan ==
  /\ cl.at = "chan"
  /\ chClosed' = chClosed \cup {cl.sink}
  /\ cl' = [cl EXCEPT !.at = "wait"]
  /\ UNCHANGED <<wr, shut, closed, ch, ended, expired, ioVars, now, accepted>>

\* A mutant of CloseWait: Close does not wait for the sink's goroutine.
CloseNoWait ==
  /\ cl.at = "wait"
  /\ cl' = IF cl.sink = N THEN At("closed", N) ELSE At("flag", cl.sink + 1)
  /\ UNCHANGED <<wr, shut, closed, chClosed, ch, ended, expired, ioVars, now,
                 accepted>>

\* A mutant of CloseWait: the context's deadline is not looked at.
CloseWaitDrained ==
  /\ cl.at = "wait" /\ cl.sink \in ended
  /\ cl' = IF cl.sink = N THEN At("closed", N) ELSE At("flag", cl.sink + 1)
  /\ UNCHANGED <<wr, shut, closed, chClosed, ch, ended, expired, ioVars, now,
                 accepted>>

\* The sink's goroutine has returned, or the context is done.
CloseWait ==
  /\ cl.at = "wait" /\ (cl.sink \in ended \/ expired)
  /\ cl' = IF cl.sink = N THEN At("closed", N) ELSE At("flag", cl.sink + 1)
  /\ UNCHANGED <<wr, shut, closed, chClosed, ch, ended, expired, ioVars, now,
                 accepted>>

\* main's thirty seconds are over.
Expire ==
  /\ "slow" \in Faults /\ cl.at \notin {"open", "closed"} /\ ~expired
  /\ expired' = TRUE
  /\ UNCHANGED <<wr, shut, closed, chClosed, ch, ended, cl, ioVars, now, accepted>>

-----------------------------------------------------------------------------
(* The sinks' goroutines.                                                  *)

\* The next record leaves the channel.
Takes(i) ==
  /\ ch[i] # <<>>
  /\ ch' = [ch EXCEPT ![i] = Tail(@)]

\* The file sink encodes it, and ignores the error.  The encoder keeps the first
\* error of a write, and returns it from then on without writing.
FileTake(i) ==
  LET Drop == dropped' = [dropped EXCEPT ![i] = @ \cup {Head(ch[i])}]
  IN  /\ Sinks[i] = "file" /\ Takes(i)
      /\ \/ /\ i \notin stuck
            /\ lines' = [lines EXCEPT ![i] = Append(@, Head(ch[i]))]
            /\ UNCHANGED <<stuck, dropped>>
         \/ /\ "io" \in Faults \/ i \in stuck
            /\ stuck' = stuck \cup {i} /\ Drop /\ UNCHANGED lines
         \/ "encode" \in Faults /\ Drop /\ UNCHANGED <<lines, stuck>>
      /\ UNCHANGED <<wr, shut, closed, chClosed, ended, cl, expired, buf, firstAt,
                     objects, failed, now, accepted, takenAt, uploaded>>

\* range ends on a closed and empty channel.
FileEnd(i) ==
  /\ Sinks[i] = "file" /\ i \in chClosed /\ ch[i] = <<>> /\ i \notin ended
  /\ ended' = ended \cup {i}
  /\ UNCHANGED <<wr, shut, closed, chClosed, ch, cl, expired, ioVars, now, accepted>>

\* A mutant of Flush: the time of the first record is not reset.
FlushKeepsFirst(i, S, t) ==
  /\ objects' = [objects EXCEPT ![i][t] = S]
  /\ uploaded' = [uploaded EXCEPT ![i] = @ \cup {[at |-> t, recs |-> S]}]
  /\ buf' = [buf EXCEPT ![i] = {}] /\ firstAt' = [firstAt EXCEPT ![i] = t]
  /\ UNCHANGED failed

\* flush of the records S, the first of which was taken at t: an object under
\* the key of that second, whatever was there before, or an error in the log.
Flush(i, S, t) ==
  /\ \/ /\ objects' = [objects EXCEPT ![i][t] = S]
        /\ uploaded' = [uploaded EXCEPT ![i] = @ \cup {[at |-> t, recs |-> S]}]
        /\ UNCHANGED failed
     \/ /\ "io" \in Faults /\ UNCHANGED <<objects, uploaded>>
        /\ failed' = [failed EXCEPT ![i] = @ \cup S]
  /\ buf' = [buf EXCEPT ![i] = {}] /\ firstAt' = [firstAt EXCEPT ![i] = NoTime]

\* The S3 sink buffers a record, and uploads when the buffer is large enough; a
\* record that cannot be encoded is logged, and its time stays.
S3Take(i) ==
  LET r == Head(ch[i])
      S == buf[i] \cup {r}
      t == IF firstAt[i] = NoTime THEN now ELSE firstAt[i]
  IN  /\ Sinks[i] = "s3" /\ Takes(i)
      /\ \/ /\ Cardinality(S) < FlushAt
            /\ buf' = [buf EXCEPT ![i] = S] /\ firstAt' = [firstAt EXCEPT ![i] = t]
            /\ UNCHANGED <<objects, uploaded, failed>>
         \/ Cardinality(S) >= FlushAt /\ Flush(i, S, t)
         \/ /\ "encode" \in Faults /\ firstAt' = [firstAt EXCEPT ![i] = t]
            /\ failed' = [failed EXCEPT ![i] = @ \cup {r}]
            /\ UNCHANGED <<buf, objects, uploaded>>
      /\ takenAt' = [takenAt EXCEPT ![i][r] = now]
      /\ UNCHANGED <<wr, shut, closed, chClosed, ended, cl, expired, lines, stuck,
                     dropped, now, accepted>>

\* The ticker of FlushInterval; flush returns at once when the buffer is empty.
S3Tick(i) ==
  /\ Sinks[i] = "s3" /\ i \notin ended /\ buf[i] # {}
  /\ Flush(i, buf[i], firstAt[i])
  /\ UNCHANGED <<wr, shut, closed, chClosed, ch, ended, cl, expired, lines, stuck,
                 dropped, now, accepted, takenAt>>

\* A mutant of S3End: the goroutine returns without its deferred flush.
S3EndUnflushed(i) ==
  /\ Sinks[i] = "s3" /\ i \in chClosed /\ ch[i] = <<>> /\ i \notin ended
  /\ ended' = ended \cup {i}
  /\ buf' = [buf EXCEPT ![i] = {}]
  /\ UNCHANGED <<wr, shut, closed, chClosed, ch, cl, expired, lines, firstAt,
                 objects, stuck, failed, dropped, now, accepted, takenAt, uploaded>>

\* A closed and empty channel: the deferred flush, and the return.
S3End(i) ==
  /\ Sinks[i] = "s3" /\ i \in chClosed /\ ch[i] = <<>> /\ i \notin ended
  /\ ended' = ended \cup {i}
  /\ \/ buf[i] # {} /\ Flush(i, buf[i], firstAt[i])
     \/ buf[i] = {} /\ UNCHANGED <<buf, firstAt, objects, uploaded, failed>>
  /\ UNCHANGED <<wr, shut, closed, chClosed, ch, cl, expired, lines, stuck, dropped,
                 now, accepted, takenAt>>

Tick ==
  /\ now < MaxTime
  /\ now' = now + 1
  /\ UNCHANGED <<wr, shut, closed, chClosed, ch, ended, cl, expired, ioVars,
                 accepted>>

-----------------------------------------------------------------------------
WriterStep(w) ==
  Write(w) \/ Check(w) \/ Send(w) \/ Park(w) \/ SendRefused(w) \/ SendPanics(w)

CloseStep == CloseFlag \/ CloseChan \/ CloseWait

Drain(i) == FileTake(i) \/ FileEnd(i) \/ S3Take(i) \/ S3End(i)

Next ==
  \/ \E w \in Writers : WriterStep(w)
  \/ CloseWriter \/ CloseStep \/ Expire
  \/ \E i \in 1..N : Drain(i) \/ S3Tick(i)
  \/ Tick

Spec == Init /\ [][Next]_vars

\* Goroutines are scheduled and deadlines pass; the sinks' I/O may hang.
SlowSpec ==
  /\ Spec
  /\ \A w \in Writers : WF_vars(WriterStep(w))
  /\ WF_vars(CloseStep) /\ WF_vars(Expire)

-----------------------------------------------------------------------------
(* Properties.                                                             *)

\* Every variable of the audit log keeps its type.
TypeOK ==
  /\ wr \in [Writers -> [at : {"idle", "check", "send", "parked", "returned",
                               "panicked"}, sink : 0..N]]
  /\ shut \in BOOLEAN /\ expired \in BOOLEAN
  /\ closed \subseteq 1..N /\ chClosed \subseteq closed /\ ended \subseteq chClosed
  /\ \A i \in 1..N : ch[i] \in Seq(Writers) /\ Len(ch[i]) <= Capacity
  /\ cl \in [at : {"open", "flag", "chan", "wait", "closed"}, sink : 0..N]
  /\ lines \in [1..N -> Seq(Writers)]
  /\ buf \in [1..N -> SUBSET Writers]
  /\ firstAt \in [1..N -> Times]
  /\ objects \in [1..N -> [0..MaxTime -> SUBSET Writers]]
  /\ stuck \subseteq 1..N
  /\ {failed, dropped, accepted} \subseteq [1..N -> SUBSET Writers]
  /\ takenAt \in [1..N -> [Writers -> Times]]
  /\ \A i \in 1..N : uploaded[i] \subseteq [at : 0..MaxTime, recs : SUBSET Writers]
  /\ now \in 0..MaxTime

\* The records of a sequence.
Recs(s) == {s[n] : n \in DOMAIN s}

\* The records sink i has uploaded.
Uploaded(i) == UNION {b.recs : b \in uploaded[i]}

\* The records sink i has given up, aloud or in silence.
GivenUp(i) == failed[i] \cup dropped[i]

\* A record a sink has accepted is on its way exactly once: in the channel, in
\* the buffer, written, in one batch, or given up.  An S3 sink gives none up
\* without a line in the log, and a file sink, which does so without one, only
\* when the disk or the encoder fails.
AcceptedAccounted ==
  \A i \in 1..N :
    /\ Cardinality(accepted[i]) = Len(ch[i]) + Cardinality(buf[i]) + Len(lines[i])
                                  + Cardinality(Uploaded(i)) + Cardinality(GivenUp(i))
    /\ accepted[i] = Recs(ch[i]) \cup buf[i] \cup Recs(lines[i])
                     \cup Uploaded(i) \cup GivenUp(i)
    /\ \A b, c \in uploaded[i] : b = c \/ b.recs \cap c.recs = {}
    /\ failed[i] # {} => Sinks[i] = "s3"
    /\ dropped[i] # {} => Sinks[i] = "file" /\ Faults \cap {"io", "encode"} # {}

\* "Close must drain pending records": when it returns in time, every record a
\* sink accepted, even from a Write that overlapped with Close, has been
\* written or uploaded, or the sink has met an error with it.
CloseDrains ==
  cl.at = "closed" /\ ~expired =>
    \A i \in 1..N : accepted[i] \subseteq Recs(lines[i]) \cup Uploaded(i) \cup GivenUp(i)

\* An uploaded record stays in the bucket unless the sink took another one in
\* the very second it took this one, and not into the same batch: only the
\* second of a key can be shared, never the time left over from an old batch.
UploadsApart ==
  \A i \in 1..N : \A b \in uploaded[i] : \A r \in b.recs :
    \/ r \in objects[i][b.at]
    \/ \E q \in Writers \ b.recs : takenAt[i][q] = takenAt[i][r]

\* Close returns when its context expires, however long the I/O hangs, and by
\* then no Write is left waiting for a full channel.
CloseReturns ==
  /\ cl.at # "open" ~> cl.at = "closed"
  /\ cl.at = "closed" ~> \A w \in Writers : wr[w].at \notin {"send", "parked"}

-----------------------------------------------------------------------------
(* What the repository says and the code does not do.                      *)

\* audit_test.go, of a Write to a closed Writer: "must not panic or block".
WriteNeverPanics == \A w \in Writers : wr[w].at # "panicked"

\* operating.md recommends "S3 for durable retention": a record in a
\* successful upload stays in the bucket.
UploadsKept ==
  \A i \in 1..N :
    Uploaded(i) \subseteq UNION {objects[i][t] : t \in 0..MaxTime}

\* audit.go: "sinks are responsible for their own error reporting (typically via
\* logs or metrics)".  A file sink gives records up and reports nothing.
SinksReport == \A i \in 1..N : dropped[i] = {}
=============================================================================
