----------------------------- MODULE BrokerLog -----------------------------
(***************************************************************************)
(* The broker's message log: sequence numbers, publishing threads, cursor  *)
(* reads (GET /log with and without a long poll), the flush thread and     *)
(* the broker's shutdown and restart.  Source: src/src/broker/delivery.rs, *)
(* mod.rs, server.rs, publish.rs, and the drive loop's log observer        *)
(* (src/src/supervisor/drive.rs).  Message contents do not matter here: a  *)
(* log entry is its sequence number.                                       *)
(*                                                                         *)
(* Publishing is not atomic: next_seq() is an atomic counter bumped BEFORE *)
(* the write lock is taken, and waiters are notified after it is released. *)
(***************************************************************************)
EXTENDS Naturals, Sequences

CONSTANTS Publishers,   \* threads that can be inside publish_message at once
          Readers,      \* clients reading GET /log with a cursor
          MaxSeq,       \* bound: messages published by one broker instance
          MaxEpoch,     \* bound: broker instances
          DiskMayFail   \* whether opening the log file may fail

ASSUME BrokerLogAssumption ==
    MaxSeq \in Nat /\ MaxEpoch \in Nat \ {0} /\ DiskMayFail \in BOOLEAN

VARIABLES
    life,       \* the BrokerHandle: "up", "stopping", "flushed", "draining",
                \* "down", "crashed"
    epoch,      \* this broker instance (start time in the code)
    nextSeq,    \* BrokerState::next_seq, the last number handed out
    log,        \* message_log, as the sequence numbers in append order
    pc,         \* pc[p]: where thread p is in publish_message
    held,       \* held[p]: the number p allocated
    flushed,    \* the flush thread's last_flushed_seq
    written,    \* written[s]: log-file lines this broker wrote for entry s
    filed,      \* entries in the log when the file was last brought up to date
    rpc,        \* rpc[r]: where reader r's request is in await_log_entries
    cursor,     \* cursor[r]: the reader's `since`
    woken,      \* woken[r]: the registered Notified future has fired
    got,        \* got[r][s]: times r was handed entry s of this broker
    obsCursor,  \* the drive loop's CursorReader: cursor
    obsEpoch,   \* ... and the epoch it belongs to, 0 for None
    obsGot,     \* obsGot[s]: times the observer returned entry s of this broker
    skipped     \* entries the observer's first poll of this broker did not ask for

pvars == <<nextSeq, log, pc, held>>
fvars == <<flushed, written, filed>>
rvars == <<rpc, cursor, woken, got>>
ovars == <<obsCursor, obsEpoch, obsGot, skipped>>
vars == <<life, epoch, pvars, fvars, rvars, ovars>>

Seqs == 1..MaxSeq
Logged == {log[i] : i \in DOMAIN log}
NoCounts == [s \in Seqs |-> 0]

\* The server takes requests until the drop sends it the shutdown signal...
Serving == life \in {"up", "stopping", "flushed"}

\* ... and publishes already running finish after it (they never await).
Running == Serving \/ life = "draining"

\* Mutants of Newer: >= for >, and a cursor taken for the next number wanted.
NewerOrEqual(since) == {s \in Logged : s >= since}
NewerSkipsOne(since) == {s \in Logged : s > since + 1}

\* delivery::full_log: the entries newer than since.
Newer(since) == {s \in Logged : s > since}

\* The counts after one more delivery of every entry of page.
Count(counts, page) == [s \in Seqs |-> IF s \in page THEN counts[s] + 1 ELSE counts[s]]

\* c is the cursor after reading page with cursor since: the greater of since
\* and the highest number read.
Advanced(c, since, page) == /\ c \in page \union {since}
                            /\ \A s \in page \union {since} : s <= c

Init == /\ life = "up" /\ epoch = 1
        /\ nextSeq = 0 /\ log = <<>>
        /\ pc = [p \in Publishers |-> "idle"]
        /\ held = [p \in Publishers |-> 0]
        /\ flushed = 0 /\ written = NoCounts /\ filed = 0
        /\ rpc = [r \in Readers |-> "idle"]
        /\ cursor = [r \in Readers |-> 0]
        /\ woken = [r \in Readers |-> FALSE]
        /\ got = [r \in Readers |-> NoCounts]
        /\ obsCursor = 0 /\ obsEpoch = 0 /\ obsGot = NoCounts /\ skipped = {}
-----------------------------------------------------------------------------
(* publish_message, as the log sees it                                     *)

\* Mutant: the number is taken from the length of the log.
AllocFromLength(p) ==
    /\ Running /\ pc[p] = "idle" /\ Len(log) < MaxSeq
    /\ nextSeq' = Len(log) + 1
    /\ held' = [held EXCEPT ![p] = Len(log) + 1]
    /\ pc' = [pc EXCEPT ![p] = "held"]
    /\ UNCHANGED <<life, epoch, log, fvars, rvars, ovars>>

\* let seq = state.next_seq();  -- outside the lock
AllocSeq(p) ==
    /\ Running /\ pc[p] = "idle" /\ nextSeq < MaxSeq
    /\ nextSeq' = nextSeq + 1
    /\ held' = [held EXCEPT ![p] = nextSeq + 1]
    /\ pc' = [pc EXCEPT ![p] = "held"]
    /\ UNCHANGED <<life, epoch, log, fvars, rvars, ovars>>

\* The write-locked section: message_log.push.
AppendEntry(p) ==
    /\ Running /\ pc[p] = "held"
    /\ log' = Append(log, held[p])
    /\ pc' = [pc EXCEPT ![p] = "appended"]
    /\ UNCHANGED <<life, epoch, nextSeq, held, fvars, rvars, ovars>>

\* Mutant: enable() forgotten, so only futures already awaited are fired.
NotifyAwaiting(p) ==
    /\ Running /\ pc[p] = "appended"
    /\ woken' = [r \in Readers |-> woken[r] \/ rpc[r] = "waiting"]
    /\ held' = [held EXCEPT ![p] = 0]
    /\ pc' = [pc EXCEPT ![p] = "idle"]
    /\ UNCHANGED <<life, epoch, nextSeq, log, fvars, rpc, cursor, got, ovars>>

\* state.notify_published(): fires every future registered so far.
Notify(p) ==
    /\ Running /\ pc[p] = "appended"
    /\ woken' = [r \in Readers |-> woken[r] \/ rpc[r] # "idle"]
    /\ held' = [held EXCEPT ![p] = 0]
    /\ pc' = [pc EXCEPT ![p] = "idle"]
    /\ UNCHANGED <<life, epoch, nextSeq, log, fvars, rpc, cursor, got, ovars>>
-----------------------------------------------------------------------------
(* GET /log                                                                *)

\* Mutant: only the newest entry answered.
DeliverNewest(r) ==
    /\ \E c \in Newer(cursor[r]) \union {cursor[r]} :
           /\ Advanced(c, cursor[r], Newer(cursor[r]))
           /\ cursor' = [cursor EXCEPT ![r] = c]
           /\ got' = [got EXCEPT ![r] = Count(got[r], {c} \ {cursor[r]})]
    /\ rpc' = [rpc EXCEPT ![r] = "idle"]
    /\ woken' = [woken EXCEPT ![r] = FALSE]

\* Answers r with everything newer than its cursor; the client sends the
\* answer's last_seq as its next `since`.
Deliver(r) ==
    /\ got' = [got EXCEPT ![r] = Count(got[r], Newer(cursor[r]))]
    /\ \E c \in Newer(cursor[r]) \union {cursor[r]} :
           /\ Advanced(c, cursor[r], Newer(cursor[r]))
           /\ cursor' = [cursor EXCEPT ![r] = c]
    /\ rpc' = [rpc EXCEPT ![r] = "idle"]
    /\ woken' = [woken EXCEPT ![r] = FALSE]

\* Without `wait`: answered at once.
ReadNow(r) ==
    /\ Serving /\ rpc[r] = "idle"
    /\ Deliver(r)
    /\ UNCHANGED <<life, epoch, pvars, fvars, ovars>>

\* With `wait`: notified.enable() comes before the log is read.
Register(r) ==
    /\ Serving /\ rpc[r] = "idle"
    /\ rpc' = [rpc EXCEPT ![r] = "registered"]
    /\ woken' = [woken EXCEPT ![r] = FALSE]
    /\ UNCHANGED <<life, epoch, pvars, fvars, cursor, got, ovars>>

\* The re-check: answer when there is something, else go on to the await.
Check(r) ==
    /\ Serving /\ rpc[r] = "registered"
    /\ \/ /\ Newer(cursor[r]) # {}
          /\ Deliver(r)
       \/ /\ Newer(cursor[r]) = {}
          /\ rpc' = [rpc EXCEPT ![r] = "checked"]
          /\ UNCHANGED <<cursor, woken, got>>
    /\ UNCHANGED <<life, epoch, pvars, fvars, ovars>>

\* timeout_at(deadline, notified).await
Await(r) ==
    /\ Serving /\ rpc[r] = "checked"
    /\ rpc' = [rpc EXCEPT ![r] = "waiting"]
    /\ UNCHANGED <<life, epoch, pvars, fvars, cursor, woken, got, ovars>>

\* The future fired: round the loop, with a fresh registration.
Wake(r) ==
    /\ Serving /\ rpc[r] = "waiting" /\ woken[r]
    /\ rpc' = [rpc EXCEPT ![r] = "registered"]
    /\ woken' = [woken EXCEPT ![r] = FALSE]
    /\ UNCHANGED <<life, epoch, pvars, fvars, cursor, got, ovars>>

\* The wait elapsed: one last read, and the answer may be empty.
TimeOut(r) ==
    /\ Serving /\ rpc[r] = "waiting"
    /\ Deliver(r)
    /\ UNCHANGED <<life, epoch, pvars, fvars, ovars>>
-----------------------------------------------------------------------------
(* HttpLogObserver::poll_new over CursorReader                             *)

\* Mutant: the cursor jumps to the last number allocated.
ObserverPollJumps ==
    /\ Serving
    /\ obsEpoch' = epoch
    /\ obsGot' = Count(obsGot, Newer(obsCursor))
    /\ obsCursor' = nextSeq
    /\ UNCHANGED <<life, epoch, pvars, fvars, rvars, skipped>>

\* The page is fetched with the cursor of the epoch recorded so far; only the
\* filter and the cursor are reset when the answer carries another epoch.
ObserverPoll ==
    LET page  == Newer(obsCursor)
        reset == obsEpoch \notin {0, epoch}
        since == IF reset THEN 0 ELSE obsCursor
        fresh == {s \in page : s > since}
    IN /\ Serving
       /\ obsEpoch' = epoch
       /\ obsGot' = Count(obsGot, fresh)
       /\ \E c \in fresh \union {since} :
              Advanced(c, since, fresh) /\ obsCursor' = c
       /\ skipped' = IF reset THEN Logged \ page ELSE skipped
       /\ UNCHANGED <<life, epoch, pvars, fvars, rvars>>
-----------------------------------------------------------------------------
(* flush_loop, BrokerHandle::drop and the next start                       *)

\* The position of the last entry newer than last_flushed_seq.
LastNew(i) == /\ i \in DOMAIN log /\ log[i] > flushed
              /\ \A j \in DOMAIN log : j > i => log[j] <= flushed

\* Mutants: last_flushed_seq is not updated; it becomes the next one wanted.
FlushForgets ==
    /\ written' = Count(written, Newer(flushed)) /\ filed' = Len(log)
    /\ UNCHANGED flushed

FlushPastEnd ==
    \E i \in DOMAIN log : /\ LastNew(i)
                         /\ written' = Count(written, Newer(flushed))
                         /\ flushed' = log[i] + 1 /\ filed' = Len(log)

\* flush_entries: writes what is newer than last_flushed_seq, which becomes
\* the number of the LAST entry written, in log order.  The file may fail to
\* open, which leaves everything as it was.
FlushEntries ==
    \/ \E i \in DOMAIN log : /\ LastNew(i)
                            /\ written' = Count(written, Newer(flushed))
                            /\ flushed' = log[i] /\ filed' = Len(log)
    \/ Newer(flushed) = {} /\ filed' = Len(log) /\ UNCHANGED <<flushed, written>>
    \/ DiskMayFail /\ UNCHANGED fvars

\* The flush thread's periodic pass.
Flush == /\ life = "up" /\ Newer(flushed) # {}
         /\ FlushEntries
         /\ UNCHANGED <<life, epoch, pvars, rvars, ovars>>

\* BrokerHandle::drop raises stop_flag first; the server still serves.
RequestStop == /\ life = "up"
               /\ life' = "stopping"
               /\ UNCHANGED <<epoch, pvars, fvars, rvars, ovars>>

\* The flush thread sees the flag, flushes a last time and is joined.
FinalFlush == /\ life = "stopping"
              /\ FlushEntries
              /\ life' = "flushed"
              /\ UNCHANGED <<epoch, pvars, rvars, ovars>>

\* Long polls are dropped at their await.
DropPolls == /\ rpc' = [r \in Readers |-> "idle"]
             /\ woken' = [r \in Readers |-> FALSE]

\* Publishes not finished stay unfinished.
DropPublishes == /\ pc' = [p \in Publishers |-> "idle"]
                 /\ held' = [p \in Publishers |-> 0]

\* Only after the final flush is the server told to stop (step 4).
ShutdownServer == /\ life = "flushed"
                  /\ life' = "draining"
                  /\ DropPolls
                  /\ UNCHANGED <<epoch, pvars, fvars, cursor, got, ovars>>

\* The runtime is gone, when its work has drained or after two seconds.
ServerStop == /\ life = "draining"
              /\ life' = "down"
              /\ DropPublishes
              /\ UNCHANGED <<epoch, nextSeq, log, fvars, rvars, ovars>>

\* The host process is killed outright: nothing (more) of the drop runs.
Crash == /\ Running
         /\ life' = "crashed"
         /\ DropPolls /\ DropPublishes
         /\ UNCHANGED <<epoch, nextSeq, log, fvars, cursor, got, ovars>>

\* The next `git paw start`: a new instance numbers its entries from 1.
\* Readers restart from 0; the drive loop's observer lives on.
Start == /\ life \in {"down", "crashed"} /\ epoch < MaxEpoch
         /\ life' = "up" /\ epoch' = epoch + 1
         /\ nextSeq' = 0 /\ log' = <<>>
         /\ flushed' = 0 /\ written' = NoCounts /\ filed' = 0
         /\ cursor' = [r \in Readers |-> 0]
         /\ got' = [r \in Readers |-> NoCounts]
         /\ obsGot' = NoCounts /\ skipped' = {}
         /\ UNCHANGED <<pc, held, rpc, woken, obsCursor, obsEpoch>>

Publish(p) == AllocSeq(p) \/ AppendEntry(p) \/ Notify(p)
LongPoll(r) == Register(r) \/ Check(r) \/ Await(r) \/ Wake(r) \/ TimeOut(r)
Lifecycle == RequestStop \/ FinalFlush \/ ShutdownServer \/ ServerStop \/ Crash \/ Start

Next == \/ \E p \in Publishers : Publish(p)
        \/ \E r \in Readers : ReadNow(r) \/ LongPoll(r)
        \/ ObserverPoll
        \/ Flush
        \/ Lifecycle

Spec == Init /\ [][Next]_vars

\* A publishing thread that has its number runs on to the end; a long-poll
\* task that can run does (its timeout is not relied upon); the drive loop
\* polls every tick.
Fairness == /\ \A p \in Publishers : WF_vars(AppendEntry(p) \/ Notify(p))
            /\ \A r \in Readers : WF_vars(Check(r) \/ Await(r) \/ Wake(r))
            /\ WF_vars(ObserverPoll)

FairSpec == Spec /\ Fairness
-----------------------------------------------------------------------------
TypeOK ==
    /\ life \in {"up", "stopping", "flushed", "draining", "down", "crashed"}
    /\ epoch \in 1..MaxEpoch
    /\ nextSeq \in 0..MaxSeq
    /\ log \in Seq(Seqs)
    /\ pc \in [Publishers -> {"idle", "held", "appended"}]
    /\ held \in [Publishers -> 0..MaxSeq]
    /\ flushed \in 0..MaxSeq
    /\ written \in [Seqs -> Nat]
    /\ filed \in Nat
    /\ rpc \in [Readers -> {"idle", "registered", "checked", "waiting"}]
    /\ cursor \in [Readers -> 0..MaxSeq]
    /\ woken \in [Readers -> BOOLEAN]
    /\ got \in [Readers -> [Seqs -> Nat]]
    /\ obsCursor \in 0..MaxSeq
    /\ obsEpoch \in 0..MaxEpoch
    /\ obsGot \in [Seqs -> Nat]
    /\ skipped \subseteq Seqs

\* Numbers are unique although they are handed out without the lock, and each
\* one handed out is in the log or still in the hands of one running publish:
\* a gap in the log is always a publish in flight, never a lost number.
GapsAreInFlight ==
    /\ \A i, j \in DOMAIN log : log[i] = log[j] => i = j
    /\ Logged \subseteq 1..nextSeq
    /\ \A p \in Publishers : pc[p] = "held" =>
           /\ held[p] \in 1..nextSeq \ Logged
           /\ \A q \in Publishers : pc[q] = "held" /\ held[q] = held[p] => q = p
    /\ Running => \A s \in 1..nextSeq :
           s \in Logged \/ \E p \in Publishers : pc[p] = "held" /\ held[p] = s

\* "without ever re-reading already-seen messages": no cursor reader is handed
\* the same entry of one broker twice, in whatever order entries land
\* (poll, GET /log and the drive loop's observer; epochs included).
NoRedelivery ==
    /\ \A r \in Readers : \A s \in Seqs : got[r][s] <= 1
    /\ \A s \in Seqs : obsGot[s] <= 1

\* An entry that landed in the log behind a higher number.
Overtaken(s) == \E i, j \in DOMAIN log : i < j /\ log[j] = s /\ log[i] > s

\* The only entries a reader's cursor ever leaves behind are those overtaken
\* on their way into the log: reading loses nothing of its own accord.
OnlyOvertakenMissed ==
    \A r \in Readers : \A s \in Logged :
        s <= cursor[r] /\ got[r][s] = 0 => Overtaken(s)

\* The drive loop's observer misses an entry of the broker it reads in two cases
\* only: it was overtaken, or it was in the log, at or below the cursor kept
\* from an earlier broker, when the observer first polled this one (poll_new).
ObserverMissesNoMore ==
    obsEpoch = epoch => \A s \in Logged :
        s <= obsCursor /\ obsGot[s] = 0 => Overtaken(s) \/ s \in skipped

\* What the cursor readers, the observer among them, are handed: nothing twice,
\* and nothing missed but for the reasons named (full_log, GET /log, poll_new).
ReadsAreSound == NoRedelivery /\ OnlyOvertakenMissed /\ ObserverMissesNoMore

\* await_log_entries loses no wake-up: a reader asleep, or about to be, while
\* something newer than its cursor is in the log has been woken, or is about to be by a
\* publisher that has appended and not yet notified.
NoLostWakeup ==
    \A r \in Readers :
        rpc[r] \in {"checked", "waiting"} /\ Newer(cursor[r]) # {} =>
            woken[r] \/ \E p \in Publishers : pc[p] = "appended"

\* The observer's cursor is never above the numbers of the broker whose epoch
\* it recorded: a restart cannot leave the drive loop deaf.
CursorWithinEpoch == obsEpoch = epoch => obsCursor <= nextSeq

\* Numbers and the cursors compared with them stay in step: no number is lost
\* or given twice, and none of an earlier broker is taken for this one's.
NumbersAreSound == GapsAreInFlight /\ CursorWithinEpoch

\* "this cursor-based approach is lossless -- no messages are missed between
\* polls, regardless of timing" (docs/src/user-guide/coordination.md): a cursor
\* never passes an entry of the log that its reader was not handed.
Lossless == \A r \in Readers : \A s \in Logged : s <= cursor[r] => got[r][s] > 0

\* "re-reads the new broker's log from the beginning exactly once"
\* (openspec/specs/broker-runtime/spec.md): the same for the drive loop's
\* observer, across restarts.
ObserverLossless ==
    obsEpoch = epoch => \A s \in Logged : s <= obsCursor => obsGot[s] > 0

\* "Flush thread only writes new entries" (openspec/specs/broker-protocol):
\* each entry is written to the log file at most once.
WrittenOnce == \A s \in Seqs : written[s] <= 1

\* The log file misses only what was overtaken on its way into the log, and what
\* was appended after the last flush pass that could open it: when the broker
\* ends, what is lost is what it accepted after its final flush (flush_entries,
\* flush_loop, BrokerHandle::drop).
FileMissesNoMore ==
    \A i \in DOMAIN log :
        written[log[i]] = 0 => Overtaken(log[i]) \/ i > filed

\* An entry that landed in the log ahead of a lower number.
Overtaker(s) == \E i, j \in DOMAIN log : i < j /\ log[i] = s /\ log[j] < s

\* The log file and the log: a line is written twice only for an entry that
\* overtook another, and is missing only for the reasons above.
FileIsSound == FileMissesNoMore /\ \A s \in Seqs : written[s] > 1 => Overtaker(s)

\* Within one broker a reader's cursor never goes back.
CursorMonotone == [][epoch' = epoch => \A r \in Readers : cursor'[r] >= cursor[r]]_vars

\* Every entry of the log reaches the drive loop while its broker is up.
EveryEntryObserved ==
    \A s \in Seqs : s \in Logged ~> (obsGot[s] > 0 \/ life # "up")

\* What the detailed log promises when publishes do not overlap.
Promise == INSTANCE LosslessLog
               WITH Ids <- Seqs, published <- Logged,
                    received <- [r \in Readers |-> {s \in Seqs : got[r][s] > 0}]
ImplementsPromise == Promise!Spec
=============================================================================
