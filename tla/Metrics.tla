--------------------------------- MODULE Metrics ---------------------------------
(* The request metrics buffer (internal/apm/buffer.go) and the shutdown of the server  *)
(* (cmd/server/main.go).  Every request appends one record under a mutex; the request   *)
(* that fills the buffer detaches and writes it, the flush loop detaches and writes it  *)
(* at every tick and once more when its context is cancelled.                           *)
(*                                                                                      *)
(* The signal context is the parent of the flush loop's, so a SIGTERM cancels both at   *)
(* once, while requests are still being drained.  A record is known by its request.     *)
EXTENDS Naturals, FiniteSets

CONSTANTS
    Requests,
    Loop,           \* the flush loop's goroutine
    MaxBuffer       \* maxBufferSize

ASSUME MetricsAssumption == MaxBuffer \in Nat \ {0} /\ Loop \notin Requests

VARIABLES
    phase,      \* of a request: new, running, writing (a batch it detached), done
    buffer,     \* the records in Buffer.records
    batches,    \* what a goroutine has detached and is writing
    written,    \* rows of request_metrics
    flush,      \* the loop: waiting, writing at a tick, writing for the last time, done
    main,       \* serving, draining (srv.Shutdown), waiting (schedulerDone), exited
    failed      \* whether a write has failed (history)

metricsVars == <<phase, buffer, batches, written, flush, main, failed>>

Writers == Requests \cup {Loop}
Recorded == {r \in Requests : phase[r] \in {"writing", "done"}}

\* The signal context, and every context derived from it, is cancelled by the signal.
Cancelled == main # "serving"

\* The types of the variables; the buffer is below its limit whenever the mutex is free.
MetricsTypeOK ==
    /\ phase \in [Requests -> {"new", "running", "writing", "done"}]
    /\ buffer \subseteq Requests /\ Cardinality(buffer) < MaxBuffer
    /\ batches \in [Writers -> SUBSET Requests]
    /\ written \subseteq Requests
    /\ flush \in {"waiting", "tick", "last", "done"}
    /\ main \in {"serving", "draining", "waiting", "exited"}
    /\ failed \in BOOLEAN

MetricsInit ==
    /\ phase = [r \in Requests |-> "new"]
    /\ buffer = {}
    /\ batches = [w \in Writers |-> {}]
    /\ written = {}
    /\ flush = "waiting"
    /\ main = "serving"
    /\ failed = FALSE

Alive == main # "exited"

\* The listener is closed first, so no request comes in after the signal.
Arrive(r) ==
    /\ main = "serving" /\ phase[r] = "new"
    /\ phase' = [phase EXCEPT ![r] = "running"]
    /\ UNCHANGED <<buffer, batches, written, flush, main, failed>>

\* The buffer that is full is kept until it is written.
RecordKeeps(r) ==
    /\ Alive /\ phase[r] = "running"
    /\ buffer' = IF Cardinality(buffer) + 1 < MaxBuffer THEN buffer \cup {r} ELSE buffer
    /\ phase' = [phase EXCEPT ![r] = IF Cardinality(buffer) + 1 < MaxBuffer THEN "done" ELSE "writing"]
    /\ batches' = [batches EXCEPT ![r] = IF Cardinality(buffer) + 1 < MaxBuffer THEN {} ELSE buffer \cup {r}]
    /\ UNCHANGED <<written, flush, main, failed>>

\* Mutant: the buffer is swapped when it holds more than MaxBuffer records.
RecordSwapsLate(r) ==
    LET full == Cardinality(buffer \cup {r}) > MaxBuffer IN
    /\ Alive /\ phase[r] = "running"
    /\ buffer' = IF full THEN {} ELSE buffer \cup {r}
    /\ batches' = [batches EXCEPT ![r] = IF full THEN buffer \cup {r} ELSE {}]
    /\ phase' = [phase EXCEPT ![r] = IF full THEN "writing" ELSE "done"]
    /\ UNCHANGED <<written, flush, main, failed>>

\* Buffer.Record: appendAndMaybeSwap, under the mutex.
RecordRequest(r) ==
    LET records == buffer \cup {r}
        full == Cardinality(records) >= MaxBuffer IN
    /\ Alive /\ phase[r] = "running"
    /\ buffer' = IF full THEN {} ELSE records
    /\ batches' = [batches EXCEPT ![r] = IF full THEN records ELSE {}]
    /\ phase' = [phase EXCEPT ![r] = IF full THEN "writing" ELSE "done"]
    /\ UNCHANGED <<written, flush, main, failed>>

\* A tick, FlushNow with the loop's context: detachAll, under the mutex.  The select may
\* take this branch even when the context is cancelled.
Tick ==
    /\ Alive /\ flush = "waiting"
    /\ buffer # {}
    /\ batches' = [batches EXCEPT ![Loop] = buffer]
    /\ buffer' = {}
    /\ flush' = "tick"
    /\ UNCHANGED <<phase, written, main, failed>>

\* The last flush, with a context that nothing cancels.
LastFlush ==
    /\ Alive /\ flush = "waiting"
    /\ Cancelled
    /\ batches' = [batches EXCEPT ![Loop] = buffer]
    /\ buffer' = {}
    /\ flush' = "last"
    /\ UNCHANGED <<phase, written, main, failed>>

\* The goroutine goes on: the request is answered, the loop waits again or ends.
Continue(w) ==
    /\ batches' = [batches EXCEPT ![w] = {}]
    /\ phase' = IF w = Loop THEN phase ELSE [phase EXCEPT ![w] = "done"]
    /\ flush' = IF w # Loop THEN flush ELSE IF flush = "tick" THEN "waiting" ELSE "done"

Writing(w) == Alive /\ IF w = Loop THEN flush \in {"tick", "last"} ELSE phase[w] = "writing"

\* write: one pipelined batch, all of it or nothing.
WriteBatch(w) ==
    /\ Writing(w)
    /\ written' = written \cup batches[w]
    /\ Continue(w)
    /\ UNCHANGED <<buffer, main, failed>>

\* An outage, or the context of the tick is cancelled under the write: the error is logged
\* and the records are gone.
WriteFails(w) ==
    /\ Writing(w)
    /\ failed' = TRUE
    /\ Continue(w)
    /\ UNCHANGED <<buffer, written, main>>

Sigterm ==
    /\ main = "serving"
    /\ main' = "draining"
    /\ UNCHANGED <<phase, buffer, batches, written, flush, failed>>

\* srv.Shutdown returns: no request is in flight any more, or its timeout has passed.
Drained ==
    /\ main = "draining"
    /\ main' = "waiting"
    /\ UNCHANGED <<phase, buffer, batches, written, flush, failed>>

\* <-schedulerDone, and main returns.
Exit ==
    /\ main = "waiting" /\ flush = "done"
    /\ main' = "exited"
    /\ UNCHANGED <<phase, buffer, batches, written, flush, failed>>

MetricsNext ==
    \/ \E r \in Requests : Arrive(r) \/ RecordRequest(r)
    \/ Tick \/ LastFlush
    \/ \E w \in Writers : WriteBatch(w) \/ WriteFails(w)
    \/ Sigterm \/ Drained \/ Exit

MetricsSpec == MetricsInit /\ [][MetricsNext]_metricsVars

--------------------------------------------------------------------------------
(* Properties.                                                                    *)

\* A record is in one place at a time, so it is never written twice, and it has not
\* gone astray before the signal as long as no write fails: none is lost between the
\* request that fills the buffer and the loop's tick (buffer.go:105-130).
EachMetricOnce ==
    /\ \A w \in Writers :
        /\ batches[w] \cap (buffer \cup written) = {}
        /\ \A v \in Writers \ {w} : batches[v] \cap batches[w] = {}
    /\ buffer \cap written = {}
    /\ (~failed /\ ~Cancelled) => Recorded = buffer \cup written \cup UNION {batches[w] : w \in Writers}

================================================================================
