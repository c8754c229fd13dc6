----------------------------- MODULE StreamQueue -----------------------------
(***************************************************************************)
(* RedisStreamsQueueAdapter, one topic: the stream with its consumer group *)
(* and the stream of dead letters, seen through the single commands the    *)
(* instances of the server send to Redis, and AdminService, which requeues *)
(* and discards dead letters.                                              *)
(*                                                                         *)
(* An instance reads batches in one activity and reclaims in another, both *)
(* one entry after the other.  Time is one bit: an entry is "idle" when 60 *)
(* seconds have passed since it was last delivered, handled or not.  Redis *)
(* itself keeps its data; instances crash and commands fail.               *)
(*                                                                         *)
(* A definition whose name ends in _ and a capital is a mutant of the one  *)
(* that follows it.                                                        *)
(***************************************************************************)
EXTENDS Naturals, Sequences

CONSTANTS
    Jobs,           \* payloads
    Instances,      \* processes of the server
    Threads,        \* the activities <<instance, "loop" or "reclaim">>
    Admins,         \* requests of administrators handled at the same time
    MAX_DELIVERIES, \* tries before an entry becomes a dead letter
    Count,          \* entries a read returns at most (10 in the code)
    Listed,         \* entries a list of hanging entries returns at most (20)
    MaxLen,         \* entries a trimmed stream keeps at least (10000 in the code)
    MaxEntries,     \* bound on the entries ever published
    MaxFaults       \* bound on crashes and failing commands

ASSUME QueueAssumption ==
    /\ Threads \subseteq Instances \X {"loop", "reclaim"}
    /\ MAX_DELIVERIES \in Nat \ {0} /\ Count \in Nat \ {0}
    /\ Listed \in Nat \ {0} /\ MaxLen \in Nat \ {0}
    /\ MaxEntries \in Nat /\ MaxFaults \in Nat

VARIABLES
    log,       \* every entry published, by id, with what the group knows of it
    first,     \* the first id that has not been trimmed
    group,     \* does the consumer group exist
    handled,   \* ids for which a handler has returned
    letters,   \* every dead letter written, by its own id
    dead,      \* letters in the dead-letter stream
    discarded, \* letters an administrator has thrown away
    inst,      \* is an instance down, up, or up without a consumer
    thread,    \* what each activity is doing
    admin,     \* what each administrator's request is doing
    faults     \* faults so far

vars == <<log, first, group, handled, letters, dead, discarded, inst, thread,
          admin, faults>>
redis == <<log, first, group, letters, dead>>

-----------------------------------------------------------------------------
(* State *)

Ids == 1..MaxEntries

\* letter: the dead letter this entry was requeued from, 0 for none.
Entry == [job: Jobs, letter: Nat, count: 0..MAX_DELIVERIES,
          state: {"new", "pending", "idle", "acked"}]

Letter == [orig: Ids, deliveries: 0..MAX_DELIVERIES]

Task == [id: Ids, deliveries: 0..MAX_DELIVERIES]

Thread == [at: {"off", "claim", "handle", "ack", "bury", "settle"}, todo: Seq(Task)]

Off == [at |-> "off", todo |-> <<>>]

Request == [at: {"off", "add", "remove"}, letter: Nat]

NoRequest == [at |-> "off", letter |-> 0]

TypeOK ==
    /\ log \in Seq(Entry) /\ Len(log) <= MaxEntries
    /\ first \in 1..MaxEntries + 1
    /\ group \in BOOLEAN
    /\ handled \subseteq DOMAIN log
    /\ letters \in Seq(Letter)
    /\ dead \subseteq DOMAIN letters /\ discarded \subseteq DOMAIN letters
    /\ inst \in [Instances -> {"down", "up", "deaf"}]
    /\ thread \in [Threads -> Thread]
    /\ \A t \in Threads : thread[t].at # "off" => thread[t].todo # <<>>
    /\ admin \in [Admins -> Request]
    /\ faults \in 0..MaxFaults

Init ==
    /\ log = <<>> /\ first = 1 /\ group = FALSE
    /\ handled = {} /\ letters = <<>> /\ dead = {} /\ discarded = {}
    /\ inst = [i \in Instances |-> "down"]
    /\ thread = [t \in Threads |-> Off]
    /\ admin = [a \in Admins |-> NoRequest]
    /\ faults = 0

More(n) == IF n < MAX_DELIVERIES THEN n + 1 ELSE MAX_DELIVERIES

Running(t) == inst[t[1]] = "up"

Current(t) == Head(thread[t].todo)

Goes(t, at) == thread' = [thread EXCEPT ![t].at = at]

\* The activity goes on to the next entry of its batch or its pass.
GoesOn(t) ==
    thread' = [thread EXCEPT ![t] =
        IF Tail(@.todo) = <<>> THEN Off
        ELSE [at |-> IF t[2] = "loop" THEN "handle" ELSE "claim", todo |-> Tail(@.todo)]]

-----------------------------------------------------------------------------
(* Publishing *)

\* XADD MAXLEN ~: the oldest entries go, read or not; how many is up to Redis.
XADD(entry) ==
    /\ Len(log) < MaxEntries
    /\ log' = Append(log, entry)
    /\ first' \in {f \in first..Len(log) + 1 : f = first \/ Len(log) + 2 - f >= MaxLen}

Fresh(job, letter) == [job |-> job, letter |-> letter, count |-> 0, state |-> "new"]

publish(job) ==
    /\ XADD(Fresh(job, 0))
    /\ UNCHANGED <<group, handled, letters, dead, discarded, inst, thread, admin, faults>>

-----------------------------------------------------------------------------
(* Starting and stopping *)

\* XGROUP CREATE at '$': the group begins with what comes after it.
ensureGroup_Late ==
    /\ group' = TRUE
    /\ log' = IF group THEN log ELSE [n \in DOMAIN log |-> [log[n] EXCEPT !.state = "acked"]]

\* XGROUP CREATE at '0': the group begins with what was published before it;
\* BUSYGROUP means that it exists.
ensureGroup == group' = TRUE /\ UNCHANGED log

start(i) ==
    /\ inst[i] = "down"
    /\ ensureGroup
    /\ inst' = [inst EXCEPT ![i] = "up"]
    /\ UNCHANGED <<first, handled, letters, dead, discarded, thread, admin, faults>>

Fault == faults < MaxFaults /\ faults' = faults + 1

\* Any other error is logged, and the instance serves requests without a consumer.
startFails(i) ==
    /\ inst[i] = "down"
    /\ Fault
    /\ inst' = [inst EXCEPT ![i] = "deaf"]
    /\ UNCHANGED <<redis, handled, discarded, thread, admin>>

\* A crash; onModuleDestroy, which disconnects under running handlers, is like one.
Crash(i) ==
    /\ inst[i] # "down"
    /\ Fault
    /\ inst' = [inst EXCEPT ![i] = "down"]
    /\ thread' = [t \in Threads |-> IF t[1] = i THEN Off ELSE thread[t]]
    /\ UNCHANGED <<redis, handled, discarded, admin>>

-----------------------------------------------------------------------------
(* Reading, reclaiming, dispatching *)

\* The oldest members of S in order, all of them or as many as a command returns.
Oldest(S, max) ==
    {s \in UNION {[1..k -> S] : k \in 1..max} :
        /\ \A i, j \in DOMAIN s : i < j => s[i] < s[j]
        /\ \A n \in S \ {s[i] : i \in DOMAIN s} :
               Len(s) = max /\ \A i \in DOMAIN s : s[i] < n}

Deliverable == {n \in DOMAIN log : n >= first /\ log[n].state = "new"}

\* loop: XREADGROUP makes the whole batch pending, the clock of all runs from now.
loop(t) ==
    /\ Running(t) /\ t[2] = "loop" /\ thread[t] = Off /\ group
    /\ \E batch \in Oldest(Deliverable, Count) :
           /\ log' = [n \in DOMAIN log |->
                        IF \E k \in DOMAIN batch : batch[k] = n
                        THEN [log[n] EXCEPT !.state = "pending", !.count = 1] ELSE log[n]]
           /\ thread' = [thread EXCEPT ![t] = [at |-> "handle",
                  todo |-> [k \in DOMAIN batch |-> [id |-> batch[k], deliveries |-> 1]]]]
    /\ UNCHANGED <<first, group, handled, letters, dead, discarded, inst, admin, faults>>

\* A minute passes for an entry, whether or not somebody still works on it.
Age(n) ==
    /\ log[n].state = "pending"
    /\ log' = [log EXCEPT ![n].state = "idle"]
    /\ UNCHANGED <<first, group, handled, letters, dead, discarded, inst, thread,
                   admin, faults>>

Stale == {n \in DOMAIN log : log[n].state = "idle"}

\* reclaim: XPENDING IDLE lists what hangs and how often each was delivered.
reclaim(t) ==
    /\ Running(t) /\ t[2] = "reclaim" /\ thread[t] = Off
    /\ \E ids \in Oldest(Stale, Listed) :
           thread' = [thread EXCEPT ![t] = [at |-> "claim",
               todo |-> [k \in DOMAIN ids |->
                           [id |-> ids[k], deliveries |-> More(log[ids[k]].count)]]]]
    /\ UNCHANGED <<redis, handled, discarded, inst, admin, faults>>

\* XCLAIM: nothing if somebody was faster, and a trimmed entry is forgotten.
claim(t) ==
    /\ thread[t].at = "claim"
    /\ LET n == Current(t).id
       IN  \/ /\ log[n].state = "idle" /\ n >= first
              /\ log' = [log EXCEPT ![n].state = "pending", ![n].count = More(@)]
              /\ Goes(t, "handle")
           \/ /\ log[n].state = "idle" /\ n < first
              /\ log' = [log EXCEPT ![n].state = "acked"]
              /\ GoesOn(t)
           \/ /\ log[n].state # "idle"
              /\ GoesOn(t)
              /\ UNCHANGED log
    /\ UNCHANGED <<first, group, handled, letters, dead, discarded, inst, admin, faults>>

handlerReturns(t) ==
    /\ thread[t].at = "handle"
    /\ handled' = handled \cup {Current(t).id}
    /\ Goes(t, "ack")
    /\ UNCHANGED <<redis, discarded, inst, admin, faults>>

GivesUp_Early(task) == task.deliveries + 1 >= MAX_DELIVERIES

GivesUp_Never(task) == FALSE

GivesUp(task) == task.deliveries >= MAX_DELIVERIES

Reject(t) == IF GivesUp(Current(t)) THEN Goes(t, "bury") ELSE GoesOn(t)

handlerThrows(t) ==
    /\ thread[t].at = "handle"
    /\ Reject(t)
    /\ UNCHANGED <<redis, handled, discarded, inst, admin, faults>>

Acked(n) == log' = [log EXCEPT ![n].state = "acked"]

xack(t) ==
    /\ thread[t].at \in {"ack", "settle"}
    /\ Acked(Current(t).id)
    /\ GoesOn(t)
    /\ UNCHANGED <<first, group, handled, letters, dead, discarded, inst, admin, faults>>

\* XACK inside the try: its failure counts as a failure of the handler.
xackFails(t) ==
    /\ thread[t].at = "ack"
    /\ Fault
    /\ Reject(t)
    /\ UNCHANGED <<redis, handled, discarded, inst, admin>>

WriteLetter(task) ==
    /\ letters' = Append(letters, [orig |-> task.id, deliveries |-> task.deliveries])
    /\ dead' = dead \cup {Len(letters) + 1}

\* XACK before XADD.
bury_AckFirst(t) ==
    /\ thread[t].at \in {"bury", "settle"}
    /\ IF thread[t].at = "bury"
       THEN Acked(Current(t).id) /\ Goes(t, "settle") /\ UNCHANGED <<letters, dead>>
       ELSE WriteLetter(Current(t)) /\ GoesOn(t) /\ UNCHANGED log
    /\ UNCHANGED <<first, group, handled, discarded, inst, admin, faults>>

bury(t) ==
    /\ thread[t].at = "bury"
    /\ WriteLetter(Current(t))
    /\ Goes(t, "settle")
    /\ UNCHANGED <<log, first, group, handled, discarded, inst, admin, faults>>

\* A command outside the try fails: the rest of the batch or the pass is given up.
commandFails(t) ==
    /\ thread[t].at \in {"claim", "bury", "settle"}
    /\ Fault
    /\ thread' = [thread EXCEPT ![t] = Off]
    /\ UNCHANGED <<redis, handled, discarded, inst, admin>>

-----------------------------------------------------------------------------
(* Dead letters *)

\* requeueDeadLetter: XRANGE; a letter that is gone is a 404.
requeue(a, k) ==
    /\ admin[a] = NoRequest
    /\ admin' = [admin EXCEPT ![a] = [at |-> "add", letter |-> k]]
    /\ UNCHANGED <<redis, handled, discarded, inst, thread, faults>>

\* requeueDeadLetter, XDEL before XADD.
requeueAdds_DeletesFirst(a) ==
    /\ admin[a].at = "add"
    /\ dead' = dead \ {admin[a].letter}
    /\ admin' = [admin EXCEPT ![a].at = "remove"]
    /\ UNCHANGED <<log, first, group, handled, letters, discarded, inst, thread, faults>>

requeueAdds(a) ==
    /\ admin[a].at = "add"
    /\ LET k == admin[a].letter IN XADD(Fresh(log[letters[k].orig].job, k))
    /\ admin' = [admin EXCEPT ![a].at = "remove"]
    /\ UNCHANGED <<group, handled, letters, dead, discarded, inst, thread, faults>>

requeueRemoves(a) ==
    /\ admin[a].at = "remove"
    /\ dead' = dead \ {admin[a].letter}
    /\ admin' = [admin EXCEPT ![a] = NoRequest]
    /\ UNCHANGED <<log, first, group, handled, letters, discarded, inst, thread, faults>>

\* The request fails, or the instance that serves it crashes, between two commands.
requeueStops(a) ==
    /\ admin[a] # NoRequest
    /\ admin' = [admin EXCEPT ![a] = NoRequest]
    /\ UNCHANGED <<redis, handled, discarded, inst, thread, faults>>

discard(k) ==
    /\ dead' = dead \ {k}
    /\ discarded' = discarded \cup {k}
    /\ UNCHANGED <<log, first, group, handled, letters, inst, thread, admin, faults>>

-----------------------------------------------------------------------------

Step(t) ==
    \/ loop(t) \/ reclaim(t) \/ claim(t) \/ handlerReturns(t) \/ handlerThrows(t)
    \/ xack(t) \/ bury(t)

Next ==
    \/ \E job \in Jobs : publish(job)
    \/ \E i \in Instances : start(i) \/ startFails(i) \/ Crash(i)
    \/ \E n \in DOMAIN log : Age(n)
    \/ \E t \in Threads : Step(t) \/ xackFails(t) \/ commandFails(t)
    \/ \E a \in Admins :
          \/ \E k \in dead : requeue(a, k)
          \/ requeueAdds(a) \/ requeueRemoves(a) \/ requeueStops(a)
    \/ \E k \in dead : discard(k)

Spec == Init /\ [][Next]_vars

\* Docker restarts an instance that exits, time passes, timers and replies arrive and
\* handlers return or throw.  Nothing makes an instance without a consumer try again.
Fairness ==
    /\ \A i \in Instances : WF_vars(start(i))
    /\ \A n \in Ids : WF_vars(n \in DOMAIN log /\ Age(n))
    /\ \A t \in Threads : WF_vars(Step(t))

FairSpec == Spec /\ Fairness

-----------------------------------------------------------------------------
(* Properties *)

Owed == {n \in DOMAIN log : n >= first /\ log[n].state # "acked"}

Buried == {letters[k].orig : k \in DOMAIN letters}

\* No crash, failing command or overtaking loses an entry: the group still has it, or
\* a handler has returned, or it is a dead letter, or the stream was trimmed over a
\* backlog of MaxLen younger entries.
NothingIsLost ==
    \A n \in DOMAIN log :
        n \in Owed \cup handled \cup Buried \/ Len(log) - n >= MaxLen

\* A dead letter disappears only when somebody discarded it or when the job is back in
\* the stream: a requeue that stops half-way, or is done twice, does not lose it.
LettersAreKept ==
    \A k \in DOMAIN letters :
        \/ k \in dead \cup discarded
        \/ \E n \in DOMAIN log : log[n].letter = k

\* The number of tries comes from a list that is old when the entry is claimed: yet no
\* entry becomes a dead letter before Redis has delivered it MAX_DELIVERIES times.
DeadAfterDeliveries ==
    \A n \in Buried : log[n].count >= MAX_DELIVERIES

Promise == INSTANCE AtLeastOnce WITH
    published <- Len(log), owed <- Owed, buried <- Buried

\* The commands together keep the promise of an at-least-once queue.
ImplementsAtLeastOnce == Promise!Spec

\* Every entry is handled, or becomes a dead letter, or is trimmed over a backlog:
\* readers and reclaimers share the work so that none starves, unless every instance
\* that would read has failed to start its consumer.
EveryEntrySettles ==
    \A n \in Ids :
        n \in DOMAIN log ~> \/ n \in handled \cup Buried
                            \/ Len(log) - n >= MaxLen
                            \/ \A t \in Threads : t[2] = "loop" => inst[t[1]] = "deaf"
=============================================================================
