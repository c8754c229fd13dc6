-------------------------- MODULE StreamQueueProofs --------------------------
(***************************************************************************)
(* Theorems about StreamQueue, for every set of jobs, instances, threads   *)
(* and administrators and every bound, checked by TLAPS.                   *)
(***************************************************************************)
EXTENDS StreamQueue, TLAPS, SequenceTheorems

-----------------------------------------------------------------------------
(* Types *)

\* A function over an initial segment is a sequence.
LEMMA Sequence ==
    ASSUME NEW S, NEW n \in Nat, NEW f \in [1..n -> S]
    PROVE  f \in Seq(S) /\ Len(f) = n /\ DOMAIN f = 1..n
  OBVIOUS

\* A sequence is a function over an initial segment.
LEMMA Segment ==
    ASSUME NEW S, NEW s \in Seq(S)
    PROVE  Len(s) \in Nat /\ DOMAIN s = 1..Len(s) /\ s \in [1..Len(s) -> S]
  BY LenProperties

\* What a thread with a task in hand looks like.
LEMMA CurrentTask ==
    ASSUME TypeOK, NEW t \in Threads, thread[t].at # "off"
    PROVE  /\ Current(t) = thread[t].todo[1] /\ Current(t) \in Task
           /\ thread[t] \in Thread /\ 1 \in DOMAIN thread[t].todo
<1>1. thread[t] \in Thread /\ thread[t].todo # <<>>
  BY DEF TypeOK
<1>2. thread[t].todo \in Seq(Task)
  BY <1>1 DEF Thread
<1>3. Len(thread[t].todo) \in Nat \ {0}
  BY <1>1, <1>2, EmptySeq
<1>4. 1 \in 1..Len(thread[t].todo) /\ DOMAIN thread[t].todo = 1..Len(thread[t].todo)
  BY <1>2, <1>3, LenProperties
<1>5. Head(thread[t].todo) \in Task
  BY <1>1, <1>2, HeadTailProperties
<1> QED BY <1>1, <1>4, <1>5 DEF Current

\* Moving to another step with the same tasks.
LEMMA GoesType ==
    ASSUME TypeOK, NEW t \in Threads, thread[t].at # "off",
           NEW at \in {"claim", "handle", "ack", "bury", "settle"}, Goes(t, at)
    PROVE  /\ thread' \in [Threads -> Thread]
           /\ \A u \in Threads : thread'[u].at # "off" => thread'[u].todo # <<>>
           /\ thread'[t].at = at /\ thread'[t].todo = thread[t].todo
           /\ \A u \in Threads \ {t} : thread'[u] = thread[u]
<1>1. thread \in [Threads -> Thread] /\ thread[t] \in Thread
  BY DEF TypeOK
<1>2. [thread[t] EXCEPT !.at = at] \in Thread
  BY <1>1 DEF Thread
<1> QED BY <1>1, <1>2 DEF Goes, TypeOK, Thread

\* Going on to the next task.
LEMMA GoesOnType ==
    ASSUME TypeOK, NEW t \in Threads, thread[t].at # "off", GoesOn(t)
    PROVE  /\ thread' \in [Threads -> Thread]
           /\ \A u \in Threads : thread'[u].at # "off" => thread'[u].todo # <<>>
           /\ \A u \in Threads \ {t} : thread'[u] = thread[u]
           /\ \/ thread'[t] = Off
              \/ /\ thread'[t].at = IF t[2] = "loop" THEN "handle" ELSE "claim"
                 /\ \A k \in DOMAIN thread'[t].todo :
                      k + 1 \in DOMAIN thread[t].todo
                      /\ thread'[t].todo[k] = thread[t].todo[k + 1]
<1> DEFINE s == thread[t].todo
<1> DEFINE next == [at |-> IF t[2] = "loop" THEN "handle" ELSE "claim", todo |-> Tail(s)]
<1>1. thread \in [Threads -> Thread] /\ thread[t] \in Thread /\ s \in Seq(Task) /\ s # <<>>
  BY DEF TypeOK, Thread
<1>2. /\ Tail(s) \in Seq(Task) /\ Len(Tail(s)) = Len(s) - 1
      /\ \A k \in 1..Len(Tail(s)) : Tail(s)[k] = s[k + 1]
  <2> HIDE DEF s
  <2> QED BY <1>1, HeadTailProperties
<1>3. /\ Len(s) \in Nat /\ DOMAIN s = 1..Len(s)
      /\ Len(Tail(s)) \in Nat /\ DOMAIN Tail(s) = 1..Len(Tail(s))
  <2> HIDE DEF s
  <2> QED BY <1>1, <1>2, Segment
<1>4. \A k \in DOMAIN Tail(s) : k + 1 \in DOMAIN s /\ Tail(s)[k] = s[k + 1]
  <2> HIDE DEF s
  <2> QED BY <1>2, <1>3
<1>5. thread' = [thread EXCEPT ![t] = IF Tail(s) = <<>> THEN Off ELSE next]
  BY DEF GoesOn
<1>6. Off \in Thread /\ next \in Thread
  BY <1>2, EmptySeq DEF Off, Thread
<1>7. CASE Tail(s) = <<>>
  BY <1>1, <1>5, <1>6, <1>7 DEF TypeOK, Off
<1>8. CASE Tail(s) # <<>>
  BY <1>1, <1>4, <1>5, <1>6, <1>8 DEF TypeOK
<1> QED BY <1>7, <1>8

\* Giving up the rest.
LEMMA OffType ==
    ASSUME TypeOK, NEW t \in Threads, thread' = [thread EXCEPT ![t] = Off]
    PROVE  /\ thread' \in [Threads -> Thread]
           /\ \A u \in Threads : thread'[u].at # "off" => thread'[u].todo # <<>>
           /\ thread'[t] = Off
           /\ \A u \in Threads \ {t} : thread'[u] = thread[u]
<1>1. Off \in Thread
  BY EmptySeq DEF Off, Thread
<1> QED BY <1>1 DEF TypeOK, Off

LEMMA FreshType ==
    ASSUME NEW job \in Jobs, NEW letter \in Nat
    PROVE  Fresh(job, letter) \in Entry
  BY QueueAssumption DEF Fresh, Entry

\* Changing entries without adding any.
LEMMA LogType ==
    ASSUME TypeOK, log' \in [DOMAIN log -> Entry]
    PROVE  log' \in Seq(Entry) /\ Len(log') = Len(log) /\ DOMAIN log' = DOMAIN log
<1>1. log \in Seq(Entry)
  BY DEF TypeOK
<1>2. Len(log) \in Nat /\ DOMAIN log = 1..Len(log)
  BY <1>1, Segment
<1> QED BY <1>2, Sequence

\* Adding one.
LEMMA XADDType ==
    ASSUME TypeOK, NEW e \in Entry, XADD(e)
    PROVE  /\ log' \in Seq(Entry) /\ Len(log') = Len(log) + 1 /\ Len(log') <= MaxEntries
           /\ Len(log) \in Nat /\ DOMAIN log = 1..Len(log) /\ DOMAIN log' = 1..Len(log) + 1
           /\ \A n \in DOMAIN log : log'[n] = log[n]
           /\ log'[Len(log) + 1] = e
           /\ first' \in 1..MaxEntries + 1 /\ first <= first' /\ first' <= Len(log) + 1
           /\ first' = first \/ Len(log) + 2 - first' >= MaxLen
<1>1. log \in Seq(Entry) /\ log' = Append(log, e) /\ Len(log) < MaxEntries
  BY DEF TypeOK, XADD
<1>2. /\ log' \in Seq(Entry) /\ Len(log') = Len(log) + 1
      /\ \A n \in 1..Len(log) : log'[n] = log[n]
      /\ log'[Len(log) + 1] = e
  BY <1>1, AppendProperties
<1>3. /\ Len(log) \in Nat /\ DOMAIN log = 1..Len(log) /\ DOMAIN log' = 1..Len(log')
  BY <1>1, <1>2, Segment
<1>4. first \in 1..MaxEntries + 1 /\ MaxEntries \in Nat
  BY QueueAssumption DEF TypeOK
<1>5. /\ first' \in 1..MaxEntries + 1 /\ first <= first' /\ first' <= Len(log) + 1
      /\ first' = first \/ Len(log) + 2 - first' >= MaxLen
  BY <1>1, <1>3, <1>4 DEF XADD
<1> QED BY <1>1, <1>2, <1>3, <1>4, <1>5
LEMMA MoreType ==
    ASSUME NEW n \in 0..MAX_DELIVERIES
    PROVE  More(n) \in 0..MAX_DELIVERIES /\ n <= More(n)
  BY QueueAssumption DEF More

LEMMA FirstTry == 1 \in 0..MAX_DELIVERIES
  BY QueueAssumption

LEMMA InitType == Init => TypeOK
<1> SUFFICES ASSUME Init PROVE TypeOK
  OBVIOUS
<1>1. <<>> \in Seq(Entry) /\ <<>> \in Seq(Letter) /\ <<>> \in Seq(Task) /\ Len(<<>>) = 0
  BY EmptySeq
<1>2. Off \in Thread /\ NoRequest \in Request
  BY <1>1 DEF Off, Thread, NoRequest, Request
<1>3. /\ log \in Seq(Entry) /\ Len(log) <= MaxEntries
      /\ first \in 1..MaxEntries + 1 /\ faults \in 0..MaxFaults
  BY <1>1, QueueAssumption DEF Init
<1>4. /\ thread \in [Threads -> Thread]
      /\ \A t \in Threads : thread[t].at # "off" => thread[t].todo # <<>>
  BY <1>2 DEF Init, Off
<1> QED BY <1>1, <1>2, <1>3, <1>4 DEF Init, TypeOK

\* Reading a batch, or listing what hangs, puts one task per entry into the thread.
LEMMA TasksType ==
    ASSUME TypeOK, NEW t \in Threads, NEW max \in Nat, NEW S \in SUBSET DOMAIN log,
           NEW s \in Oldest(S, max), NEW at \in {"claim", "handle"},
           NEW tries \in [DOMAIN s -> 0..MAX_DELIVERIES],
           thread' = [thread EXCEPT ![t] = [at |-> at,
               todo |-> [k \in DOMAIN s |-> [id |-> s[k], deliveries |-> tries[k]]]]]
    PROVE  /\ thread' \in [Threads -> Thread]
           /\ \A u \in Threads : thread'[u].at # "off" => thread'[u].todo # <<>>
           /\ thread'[t].at = at /\ DOMAIN thread'[t].todo = DOMAIN s
           /\ \A k \in DOMAIN s :
                /\ s[k] \in S
                /\ thread'[t].todo[k].id = s[k] /\ thread'[t].todo[k].deliveries = tries[k]
           /\ \A u \in Threads \ {t} : thread'[u] = thread[u]
<1> DEFINE todo == [k \in DOMAIN s |-> [id |-> s[k], deliveries |-> tries[k]]]
<1>1. PICK n \in 1..max : s \in [1..n -> S]
  BY DEF Oldest
<1>2. \A i \in DOMAIN log : i \in Ids
  <2>1. log \in Seq(Entry) /\ Len(log) <= MaxEntries
    BY DEF TypeOK
  <2>2. Len(log) \in Nat /\ DOMAIN log = 1..Len(log)
    BY <2>1, Segment
  <2> QED BY <2>1, <2>2, QueueAssumption DEF Ids
<1>3. DOMAIN s = 1..n /\ n \in Nat \ {0} /\ \A k \in DOMAIN s : s[k] \in S
  BY <1>1
<1>4. todo \in [1..n -> Task]
  BY <1>2, <1>3 DEF Task
<1>5. todo \in Seq(Task) /\ Len(todo) = n /\ DOMAIN todo = DOMAIN s
  <2> HIDE DEF todo
  <2> QED BY <1>3, <1>4, Sequence
<1>6. todo # <<>>
  <2> HIDE DEF todo
  <2> QED BY <1>3, <1>5, EmptySeq
<1>7. [at |-> at, todo |-> todo] \in Thread
  <2> HIDE DEF todo
  <2> QED BY <1>5 DEF Thread
<1>8. /\ thread' \in [Threads -> Thread]
      /\ \A u \in Threads : thread'[u].at # "off" => thread'[u].todo # <<>>
      /\ thread'[t].at = at /\ thread'[t].todo = todo
      /\ \A u \in Threads \ {t} : thread'[u] = thread[u]
  <2>1. thread' = [thread EXCEPT ![t] = [at |-> at, todo |-> todo]]
    OBVIOUS
  <2> HIDE DEF todo
  <2> QED BY <1>6, <1>7, <2>1 DEF TypeOK
<1> QED BY <1>3, <1>5, <1>8
\* Threads work on entries there are.
TasksExist ==
    \A t \in Threads : \A k \in DOMAIN thread[t].todo : thread[t].todo[k].id \in DOMAIN log

\* Entries change, one at a time.
LEMMA EntryType ==
    ASSUME TypeOK, NEW n, NEW e \in Entry, log' = [log EXCEPT ![n] = e]
    PROVE  log' \in [DOMAIN log -> Entry]
<1>1. log \in Seq(Entry)
  BY DEF TypeOK
<1>2. log \in [DOMAIN log -> Entry]
  BY <1>1, Segment
<1> QED BY <1>2

\* The steps of threads.
LEMMA StepType ==
    ASSUME TypeOK, TasksExist, NEW t \in Threads,
           Step(t) \/ xackFails(t) \/ commandFails(t)
    PROVE  TypeOK'
<1>1. /\ log \in [DOMAIN log -> Entry] /\ log \in Seq(Entry) /\ DOMAIN log \subseteq Ids
      /\ \A n \in DOMAIN log : log[n].count \in 0..MAX_DELIVERIES
  <2>1. log \in Seq(Entry) /\ Len(log) <= MaxEntries
    BY DEF TypeOK
  <2>2. /\ Len(log) \in Nat /\ DOMAIN log = 1..Len(log) /\ log \in [1..Len(log) -> Entry]
    BY <2>1, Segment
  <2> QED BY <2>1, <2>2, QueueAssumption DEF Ids, Entry
<1>2. ASSUME log' \in [DOMAIN log -> Entry],
             thread' \in [Threads -> Thread],
             \A u \in Threads : thread'[u].at # "off" => thread'[u].todo # <<>>,
             UNCHANGED <<first, group, handled, letters, dead, discarded, inst, admin>>,
             faults' \in 0..MaxFaults
      PROVE  TypeOK'
  BY <1>2, LogType DEF TypeOK
<1>3. faults \in 0..MaxFaults /\ (Fault => faults' \in 0..MaxFaults)
  BY QueueAssumption DEF TypeOK, Fault
<1>4. CASE loop(t)
  <2> PICK batch \in Oldest(Deliverable, Count) :
           /\ log' = [n \in DOMAIN log |->
                        IF \E k \in DOMAIN batch : batch[k] = n
                        THEN [log[n] EXCEPT !.state = "pending", !.count = 1] ELSE log[n]]
           /\ thread' = [thread EXCEPT ![t] = [at |-> "handle",
                  todo |-> [k \in DOMAIN batch |-> [id |-> batch[k], deliveries |-> 1]]]]
    BY <1>4 DEF loop
  <2>0. 1 \in 0..MAX_DELIVERIES
    BY FirstTry
  <2>1. log' \in [DOMAIN log -> Entry]
    <3>1. \A n \in DOMAIN log : [log[n] EXCEPT !.state = "pending", !.count = 1] \in Entry
      BY <1>1, <2>0 DEF Entry
    <3> QED BY <1>1, <3>1
  <2> DEFINE tries == [k \in DOMAIN batch |-> 1]
  <2>2. tries \in [DOMAIN batch -> 0..MAX_DELIVERIES]
    BY <2>0
  <2>3. thread' = [thread EXCEPT ![t] = [at |-> "handle",
             todo |-> [k \in DOMAIN batch |-> [id |-> batch[k], deliveries |-> tries[k]]]]]
    OBVIOUS
  <2>4. Deliverable \in SUBSET DOMAIN log /\ Count \in Nat
    BY QueueAssumption DEF Deliverable
  <2>5. /\ thread' \in [Threads -> Thread]
        /\ \A u \in Threads : thread'[u].at # "off" => thread'[u].todo # <<>>
    <3> HIDE DEF tries
    <3> QED BY <2>2, <2>3, <2>4, TasksType
  <2> QED BY <1>2, <1>3, <1>4, <2>1, <2>5 DEF loop
<1>5. CASE reclaim(t)
  <2> PICK ids \in Oldest(Stale, Listed) :
           thread' = [thread EXCEPT ![t] = [at |-> "claim",
               todo |-> [k \in DOMAIN ids |->
                           [id |-> ids[k], deliveries |-> More(log[ids[k]].count)]]]]
    BY <1>5 DEF reclaim
  <2> DEFINE tries == [k \in DOMAIN ids |-> More(log[ids[k]].count)]
  <2>1. Stale \in SUBSET DOMAIN log /\ Listed \in Nat
    BY QueueAssumption DEF Stale
  <2>2. \A k \in DOMAIN ids : ids[k] \in DOMAIN log
    BY <2>1 DEF Oldest
  <2>3. tries \in [DOMAIN ids -> 0..MAX_DELIVERIES]
    BY <1>1, <2>2, MoreType
  <2>4. thread' = [thread EXCEPT ![t] = [at |-> "claim",
             todo |-> [k \in DOMAIN ids |-> [id |-> ids[k], deliveries |-> tries[k]]]]]
    OBVIOUS
  <2>5. /\ thread' \in [Threads -> Thread]
        /\ \A u \in Threads : thread'[u].at # "off" => thread'[u].todo # <<>>
    <3> HIDE DEF tries
    <3> QED BY <2>1, <2>3, <2>4, TasksType
  <2>6. log' \in [DOMAIN log -> Entry]
    BY <1>1, <1>5 DEF reclaim, redis
  <2> QED BY <1>2, <1>3, <1>5, <2>5, <2>6 DEF reclaim, redis
<1>6. ASSUME thread[t].at # "off"
      PROVE  /\ Current(t).id \in DOMAIN log /\ Current(t) \in Task
             /\ log[Current(t).id] \in Entry
  BY <1>1, <1>6, CurrentTask DEF TasksExist
<1>7. ASSUME thread[t].at # "off", Acked(Current(t).id)
      PROVE  log' \in [DOMAIN log -> Entry]
  BY <1>1, <1>6, <1>7 DEF Acked, Entry
<1>8. ASSUME thread[t].at # "off", Reject(t)
      PROVE  /\ thread' \in [Threads -> Thread]
             /\ \A u \in Threads : thread'[u].at # "off" => thread'[u].todo # <<>>
  BY <1>8, GoesType, GoesOnType DEF Reject
<1>9. CASE claim(t)
  <2> DEFINE n == Current(t).id
  <2>1. thread[t].at # "off" /\ n \in DOMAIN log /\ log[n] \in Entry
    BY <1>6, <1>9 DEF claim
  <2>2. More(log[n].count) \in 0..MAX_DELIVERIES
    BY <2>1, MoreType DEF Entry
  <2>3. log' \in [DOMAIN log -> Entry]
    <3>1. \/ log' = [log EXCEPT ![n] = [log[n] EXCEPT !.state = "pending",
                                                      !.count = More(log[n].count)]]
          \/ log' = [log EXCEPT ![n] = [log[n] EXCEPT !.state = "acked"]]
          \/ log' = log
      BY <1>1, <1>9, <2>1 DEF claim
    <3>2. /\ [log[n] EXCEPT !.state = "pending", !.count = More(log[n].count)] \in Entry
          /\ [log[n] EXCEPT !.state = "acked"] \in Entry
      BY <2>1, <2>2 DEF Entry
    <3> HIDE DEF n
    <3> QED BY <1>1, <3>1, <3>2, EntryType
  <2>4. /\ thread' \in [Threads -> Thread]
        /\ \A u \in Threads : thread'[u].at # "off" => thread'[u].todo # <<>>
    <3>1. Goes(t, "handle") \/ GoesOn(t)
      BY <1>9 DEF claim
    <3> QED BY <2>1, <3>1, GoesType, GoesOnType
  <2> QED BY <1>2, <1>3, <1>9, <2>3, <2>4 DEF claim
<1>10. CASE handlerReturns(t)
  <2>1. thread[t].at # "off" /\ Goes(t, "ack")
    BY <1>10 DEF handlerReturns
  <2>2. handled' \subseteq DOMAIN log
    BY <1>6, <1>10, <2>1 DEF handlerReturns, TypeOK
  <2>3. /\ thread' \in [Threads -> Thread]
        /\ \A u \in Threads : thread'[u].at # "off" => thread'[u].todo # <<>>
    BY <2>1, GoesType
  <2> QED BY <1>10, <2>2, <2>3 DEF handlerReturns, redis, TypeOK
<1>11. CASE handlerThrows(t)
  <2>1. thread[t].at # "off" /\ Reject(t) /\ log' \in [DOMAIN log -> Entry]
    BY <1>1, <1>11 DEF handlerThrows, redis
  <2> QED BY <1>2, <1>3, <1>8, <1>11, <2>1 DEF handlerThrows, redis
<1>12. CASE xack(t)
  <2>1. thread[t].at # "off" /\ Acked(Current(t).id) /\ GoesOn(t)
    BY <1>12 DEF xack
  <2> QED BY <1>2, <1>3, <1>7, <1>12, <2>1, GoesOnType DEF xack
<1>13. CASE bury(t)
  <2>1. thread[t].at # "off" /\ Goes(t, "settle") /\ WriteLetter(Current(t))
    BY <1>13 DEF bury
  <2>2. [orig |-> Current(t).id, deliveries |-> Current(t).deliveries] \in Letter
    BY <1>6, <2>1 DEF Task, Letter
  <2>3. /\ letters' \in Seq(Letter) /\ dead' \subseteq DOMAIN letters'
        /\ discarded \subseteq DOMAIN letters'
    <3> DEFINE letter == [orig |-> Current(t).id, deliveries |-> Current(t).deliveries]
    <3>1. letter \in Letter /\ letters \in Seq(Letter) /\ letters' = Append(letters, letter)
      BY <2>1, <2>2 DEF TypeOK, WriteLetter
    <3>2. letters' \in Seq(Letter) /\ Len(letters') = Len(letters) + 1
      <4> HIDE DEF letter
      <4> QED BY <3>1, AppendProperties
    <3>3. /\ Len(letters) \in Nat /\ DOMAIN letters = 1..Len(letters)
          /\ DOMAIN letters' = 1..Len(letters')
      BY <3>1, <3>2, Segment
    <3> QED BY <2>1, <3>2, <3>3 DEF WriteLetter, TypeOK
  <2>4. /\ thread' \in [Threads -> Thread]
        /\ \A u \in Threads : thread'[u].at # "off" => thread'[u].todo # <<>>
    BY <2>1, GoesType
  <2> QED BY <1>13, <2>3, <2>4 DEF bury, TypeOK
<1>14. CASE xackFails(t)
  <2>1. thread[t].at # "off" /\ Reject(t) /\ log' \in [DOMAIN log -> Entry]
    BY <1>1, <1>14 DEF xackFails, redis
  <2> QED BY <1>2, <1>3, <1>8, <1>14, <2>1 DEF xackFails, redis
<1>15. CASE commandFails(t)
  <2>1. /\ log' \in [DOMAIN log -> Entry]
        /\ thread' \in [Threads -> Thread]
        /\ \A u \in Threads : thread'[u].at # "off" => thread'[u].todo # <<>>
    BY <1>1, <1>15, OffType DEF commandFails, redis
  <2> QED BY <1>2, <1>3, <1>15, <2>1 DEF commandFails, redis
<1> QED BY <1>4, <1>5, <1>9, <1>10, <1>11, <1>12, <1>13, <1>14, <1>15 DEF Step

\* Dead letters are of entries there are, and administrators work on such letters.
LettersExist ==
    /\ \A k \in DOMAIN letters : letters[k].orig \in DOMAIN log
    /\ \A a \in Admins : admin[a].at # "off" => admin[a].letter \in DOMAIN letters

\* The job and the letter a requeued entry comes from.
LEMMA RequeuedType ==
    ASSUME TypeOK, LettersExist, NEW a \in Admins, requeueAdds(a)
    PROVE  /\ admin[a].letter \in DOMAIN letters /\ admin[a].letter \in Nat
           /\ Fresh(log[letters[admin[a].letter].orig].job, admin[a].letter) \in Entry
<1> DEFINE k == admin[a].letter
<1>1. /\ log \in Seq(Entry) /\ letters \in Seq(Letter) /\ admin[a] \in Request
      /\ k \in DOMAIN letters /\ letters[k].orig \in DOMAIN log
  BY DEF TypeOK, LettersExist, requeueAdds
<1>2. log[letters[k].orig] \in Entry
  BY <1>1, Segment
<1>3. k \in Nat
  BY <1>1 DEF Request
<1> QED BY <1>1, <1>2, <1>3, FreshType DEF Entry

\* The steps of publishers, instances, administrators and time.
LEMMA OtherType ==
    ASSUME TypeOK, LettersExist,
           \/ \E job \in Jobs : publish(job)
           \/ \E i \in Instances : start(i) \/ startFails(i) \/ Crash(i)
           \/ \E n \in DOMAIN log : Age(n)
           \/ \E a \in Admins :
                 \/ \E k \in dead : requeue(a, k)
                 \/ requeueAdds(a) \/ requeueRemoves(a) \/ requeueStops(a)
           \/ \E k \in dead : discard(k)
    PROVE  TypeOK'
<1>1. CASE \E job \in Jobs : publish(job)
  <2> PICK job \in Jobs : publish(job)
    BY <1>1
  <2>1. Fresh(job, 0) \in Entry
    BY FreshType
  <2>2. XADD(Fresh(job, 0))
    BY DEF publish
  <2>3. handled \subseteq DOMAIN log'
    BY <2>1, <2>2, XADDType DEF TypeOK
  <2> QED BY <2>1, <2>2, <2>3, XADDType DEF publish, TypeOK
<1>2. CASE \E i \in Instances : start(i)
  BY <1>2 DEF start, ensureGroup, TypeOK
<1>3. CASE \E i \in Instances : startFails(i)
  BY <1>3, QueueAssumption DEF startFails, Fault, redis, TypeOK
<1>4. CASE \E i \in Instances : Crash(i)
  <2> PICK i \in Instances : Crash(i)
    BY <1>4
  <2>1. Off \in Thread
    BY EmptySeq DEF Off, Thread
  <2>2. /\ thread' \in [Threads -> Thread]
        /\ \A u \in Threads : thread'[u].at # "off" => thread'[u].todo # <<>>
    BY <2>1 DEF Crash, TypeOK, Off
  <2>3. faults' \in 0..MaxFaults
    BY QueueAssumption DEF Crash, Fault, TypeOK
  <2> QED BY <2>2, <2>3 DEF Crash, redis, TypeOK
<1>5. CASE \E n \in DOMAIN log : Age(n)
  <2> PICK n \in DOMAIN log : Age(n)
    BY <1>5
  <2>1. log \in Seq(Entry)
    BY DEF TypeOK
  <2>2. log[n] \in Entry
    BY <2>1, Segment
  <2>3. [log[n] EXCEPT !.state = "idle"] \in Entry
    BY <2>2 DEF Entry
  <2>4. log' = [log EXCEPT ![n] = [log[n] EXCEPT !.state = "idle"]]
    BY DEF Age
  <2>5. log' \in [DOMAIN log -> Entry]
    BY <2>3, <2>4, EntryType
  <2> QED BY <2>5, LogType DEF Age, TypeOK
<1>6. ASSUME NEW a \in Admins, NEW k \in dead, requeue(a, k)
      PROVE  TypeOK'
  <2>1. letters \in Seq(Letter) /\ k \in DOMAIN letters
    BY DEF TypeOK
  <2>2. k \in Nat
    BY <2>1, Segment
  <2> QED BY <1>6, <2>2 DEF requeue, redis, TypeOK, Request
<1>7. ASSUME NEW a \in Admins, requeueAdds(a)
      PROVE  TypeOK'
  <2> DEFINE k == admin[a].letter
  <2> DEFINE e == Fresh(log[letters[k].orig].job, k)
  <2>1. e \in Entry /\ XADD(e)
    BY <1>7, RequeuedType DEF requeueAdds
  <2>2. /\ log' \in Seq(Entry) /\ Len(log') <= MaxEntries /\ DOMAIN log \subseteq DOMAIN log'
        /\ first' \in 1..MaxEntries + 1
    <3> HIDE DEF e
    <3> QED BY <2>1, XADDType
  <2>3. admin' \in [Admins -> Request]
    BY <1>7 DEF requeueAdds, TypeOK, Request
  <2> QED BY <1>7, <2>2, <2>3 DEF requeueAdds, TypeOK
<1>8. ASSUME NEW a \in Admins, requeueRemoves(a) \/ requeueStops(a)
      PROVE  TypeOK'
  BY <1>8 DEF requeueRemoves, requeueStops, redis, TypeOK, Request, NoRequest
<1>9. CASE \E k \in dead : discard(k)
  BY <1>9 DEF discard, TypeOK
<1> QED BY <1>1, <1>2, <1>3, <1>4, <1>5, <1>6, <1>7, <1>8, <1>9

-----------------------------------------------------------------------------
(* The inductive invariant *)

\* A task that still has to be claimed: reclaim takes its number of tries from a list.
Waits(t, k) == t[2] # "loop" /\ (thread[t].at = "claim" \/ k # 1)

\* How often Redis has delivered the entry, or will have when it is claimed.
Delivered(t, k) ==
    LET n == log[thread[t].todo[k].id].count IN IF Waits(t, k) THEN More(n) ELSE n

\* A task never counts more tries than Redis does, and a thread that is about to
\* acknowledge or bury has the reason for it.
TaskInv(t) ==
    /\ \A k \in DOMAIN thread[t].todo :
          /\ thread[t].todo[k].id \in DOMAIN log
          /\ thread[t].todo[k].deliveries <= Delivered(t, k)
    /\ thread[t].at = "ack" => Current(t).id \in handled
    /\ thread[t].at = "bury" => Current(t).deliveries >= MAX_DELIVERIES
    /\ thread[t].at = "settle" => Current(t).id \in Buried

EntriesInv ==
    /\ \A n \in DOMAIN log :
          /\ log[n].state = "new" => log[n].count = 0
          /\ log[n].state = "acked" => n < first \/ n \in handled \cup Buried
          /\ n < first => Len(log) - n >= MaxLen
    /\ DeadAfterDeliveries

\* A request removes a letter when its job is back in the stream.
LettersInv ==
    /\ LettersAreKept
    /\ \A a \in Admins : admin[a].at = "remove" =>
          \E n \in DOMAIN log : log[n].letter = admin[a].letter

QueueInv ==
    TypeOK /\ LettersExist /\ (\A t \in Threads : TaskInv(t)) /\ EntriesInv /\ LettersInv

\* What no step takes back.
Lasting ==
    /\ DOMAIN log \subseteq DOMAIN log'
    /\ \A n \in DOMAIN log :
          log'[n].letter = log[n].letter /\ log[n].count <= log'[n].count
    /\ handled \subseteq handled'
    /\ DOMAIN letters \subseteq DOMAIN letters'
    /\ \A k \in DOMAIN letters : letters'[k] = letters[k]

\* Entries are records with a count.
LEMMA EntryAt ==
    ASSUME TypeOK, NEW n \in DOMAIN log
    PROVE  log[n] \in Entry /\ log[n].count \in 0..MAX_DELIVERIES /\ log[n].count \in Nat
           /\ n \in Nat /\ n <= Len(log) /\ Len(log) \in Nat
<1>1. log \in Seq(Entry)
  BY DEF TypeOK
<1>2. log[n] \in Entry /\ n \in 1..Len(log) /\ Len(log) \in Nat
  BY <1>1, Segment
<1> QED BY <1>2, QueueAssumption DEF Entry

LEMMA MoreGrows ==
    ASSUME NEW m \in 0..MAX_DELIVERIES, NEW n \in 0..MAX_DELIVERIES, m <= n
    PROVE  More(m) <= More(n)
  BY QueueAssumption DEF More

LEMMA BuriedLasts ==
    ASSUME Lasting
    PROVE  Buried \subseteq Buried'
  BY DEF Lasting, Buried

LEMMA TaskAt ==
    ASSUME TypeOK, NEW t \in Threads, NEW k \in DOMAIN thread[t].todo
    PROVE  /\ thread[t].todo[k].deliveries \in 0..MAX_DELIVERIES
           /\ thread[t].todo[k].deliveries \in Nat /\ k \in Nat /\ k # 0
<1>1. thread[t].todo \in Seq(Task)
  BY DEF TypeOK, Thread
<1>2. thread[t].todo[k] \in Task /\ k \in Nat /\ k # 0
  BY <1>1, Segment
<1> QED BY <1>2, QueueAssumption DEF Task

\* What a task may count only grows.
LEMMA DeliveredGrows ==
    ASSUME TypeOK, TypeOK', Lasting, NEW t \in Threads, NEW k \in DOMAIN thread[t].todo,
           thread[t].todo[k].id \in DOMAIN log,
           thread[t].todo[k].deliveries <= Delivered(t, k)
    PROVE  LET n == thread[t].todo[k].id
               d == thread[t].todo[k].deliveries
           IN  /\ n \in DOMAIN log' /\ d <= More(log'[n].count)
               /\ ~Waits(t, k) => d <= log'[n].count
               /\ log'[n].count \in Nat
<1> DEFINE n == thread[t].todo[k].id
<1> DEFINE d == thread[t].todo[k].deliveries
<1> DEFINE c == log[n].count
<1>1. /\ d \in Nat /\ c \in 0..MAX_DELIVERIES /\ c \in Nat
      /\ log'[n].count \in 0..MAX_DELIVERIES /\ log'[n].count \in Nat
      /\ c <= log'[n].count /\ n \in DOMAIN log'
  <2>1. n \in DOMAIN log'
    BY DEF Lasting
  <2>2. log'[n].count \in 0..MAX_DELIVERIES /\ log'[n].count \in Nat
    <3>1. log' \in Seq(Entry)
      BY DEF TypeOK
    <3>2. log'[n] \in Entry
      BY <2>1, <3>1, Segment
    <3> QED BY <3>2, QueueAssumption DEF Entry
  <2>3. c \in 0..MAX_DELIVERIES /\ c \in Nat /\ d \in Nat
    BY EntryAt, TaskAt
  <2> QED BY <2>1, <2>2, <2>3 DEF Lasting
<1>2. /\ More(c) <= More(log'[n].count) /\ More(c) \in Nat /\ More(log'[n].count) \in Nat
      /\ c <= More(c)
  BY <1>1, MoreGrows, MoreType, QueueAssumption
<1>3. d <= Delivered(t, k) /\ Delivered(t, k) = IF Waits(t, k) THEN More(c) ELSE c
  BY DEF Delivered
<1>4. d <= More(log'[n].count) /\ (~Waits(t, k) => d <= log'[n].count)
  <2> HIDE DEF n, d, c
  <2> QED BY <1>1, <1>2, <1>3
<1> QED BY <1>1, <1>4

\* Threads that do not move keep their invariant.
LEMMA TaskLasts ==
    ASSUME TypeOK, TypeOK', Lasting, NEW t \in Threads, TaskInv(t), thread'[t] = thread[t]
    PROVE  TaskInv(t)'
<1>1. ASSUME NEW k \in DOMAIN thread[t].todo
      PROVE  /\ thread[t].todo[k].id \in DOMAIN log'
             /\ thread[t].todo[k].deliveries <= Delivered(t, k)'
  <2>1. /\ thread[t].todo[k].id \in DOMAIN log
        /\ thread[t].todo[k].deliveries <= Delivered(t, k)
    BY DEF TaskInv
  <2> QED BY <2>1, DeliveredGrows DEF Delivered, Waits
<1>2. handled \subseteq handled' /\ Buried \subseteq Buried'
  BY BuriedLasts DEF Lasting
<1> QED BY <1>1, <1>2 DEF TaskInv, Current

\* A thread that goes on to its next task.
LEMMA GoesOnInv ==
    ASSUME QueueInv, TypeOK', Lasting, NEW t \in Threads, thread[t].at # "off", GoesOn(t)
    PROVE  \A u \in Threads : TaskInv(u)'
<1>1. TypeOK /\ \A u \in Threads : TaskInv(u)
  BY DEF QueueInv
<1>2. \A u \in Threads \ {t} : thread'[u] = thread[u]
  BY <1>1, GoesOnType
<1>3. TaskInv(t)'
  <2>1. CASE thread'[t] = Off
    <3>1. thread'[t].at = "off" /\ DOMAIN thread'[t].todo = {}
      BY <2>1 DEF Off
    <3> QED BY <3>1 DEF TaskInv
  <2>2. CASE thread'[t] # Off
    <3>1. /\ thread'[t].at = IF t[2] = "loop" THEN "handle" ELSE "claim"
          /\ \A k \in DOMAIN thread'[t].todo :
                k + 1 \in DOMAIN thread[t].todo
                /\ thread'[t].todo[k] = thread[t].todo[k + 1]
      BY <1>1, <2>2, GoesOnType
    <3>2. ASSUME NEW k \in DOMAIN thread'[t].todo
          PROVE  /\ thread'[t].todo[k].id \in DOMAIN log'
                 /\ thread'[t].todo[k].deliveries <= Delivered(t, k)'
      <4>1. k + 1 \in DOMAIN thread[t].todo /\ thread'[t].todo[k] = thread[t].todo[k + 1]
        BY <3>1
      <4>2. /\ thread[t].todo[k + 1].id \in DOMAIN log
            /\ thread[t].todo[k + 1].deliveries <= Delivered(t, k + 1)
        BY <1>1, <4>1 DEF TaskInv
      <4>3. t[2] = "loop" => ~Waits(t, k + 1) /\ ~Waits(t, k)'
        BY DEF Waits
      <4>4. t[2] # "loop" => Waits(t, k)'
        BY <3>1 DEF Waits
      <4> QED BY <1>1, <4>1, <4>2, <4>3, <4>4, DeliveredGrows DEF Delivered
    <3> QED BY <3>1, <3>2 DEF TaskInv
  <2> QED BY <2>1, <2>2
<1> QED BY <1>1, <1>2, <1>3, TaskLasts

\* A thread that takes its task one step further.
LEMMA GoesInv ==
    ASSUME QueueInv, TypeOK', Lasting, NEW t \in Threads, thread[t].at # "off",
           NEW at \in {"handle", "ack", "bury", "settle"}, Goes(t, at),
           thread[t].at = "claim" =>
              log'[Current(t).id].count = More(log[Current(t).id].count),
           at = "ack" => Current(t).id \in handled',
           at = "bury" => Current(t).deliveries >= MAX_DELIVERIES,
           at = "settle" => Current(t).id \in Buried'
    PROVE  \A u \in Threads : TaskInv(u)'
<1>1. TypeOK /\ \A u \in Threads : TaskInv(u)
  BY DEF QueueInv
<1>2. /\ thread'[t].at = at /\ thread'[t].todo = thread[t].todo
      /\ \A u \in Threads \ {t} : thread'[u] = thread[u]
  BY <1>1, GoesType
<1>3. Current(t)' = Current(t)
  BY <1>2 DEF Current
<1>4. ASSUME NEW k \in DOMAIN thread[t].todo
      PROVE  /\ thread[t].todo[k].id \in DOMAIN log'
             /\ thread[t].todo[k].deliveries <= Delivered(t, k)'
  <2>1. /\ thread[t].todo[k].id \in DOMAIN log
        /\ thread[t].todo[k].deliveries <= Delivered(t, k)
    BY <1>1 DEF TaskInv
  <2>2. Waits(t, k)' => Waits(t, k)
    BY <1>2 DEF Waits
  <2>3. CASE Waits(t, k)' \/ ~Waits(t, k)
    BY <1>1, <1>2, <2>1, <2>2, <2>3, DeliveredGrows DEF Delivered
  <2>4. CASE ~Waits(t, k)' /\ Waits(t, k)
    <3>1. thread[t].at = "claim" /\ k = 1
      BY <1>2, <2>4 DEF Waits
    <3>2. thread[t].todo[k] = Current(t)
      BY <1>1, <3>1, CurrentTask
    <3> QED BY <1>2, <2>1, <2>4, <3>1, <3>2, DeliveredGrows, <1>1 DEF Delivered
  <2> QED BY <2>3, <2>4
<1>5. TaskInv(t)'
  BY <1>2, <1>3, <1>4 DEF TaskInv
<1> QED BY <1>1, <1>2, <1>5, TaskLasts

\* Threads that stop.
LEMMA OffInv ==
    ASSUME QueueInv, TypeOK', Lasting,
           \A u \in Threads : thread'[u] = thread[u] \/ thread'[u] = Off
    PROVE  \A u \in Threads : TaskInv(u)'
<1> SUFFICES ASSUME NEW u \in Threads PROVE TaskInv(u)'
  OBVIOUS
<1>1. CASE thread'[u] = Off
  <2>1. thread'[u].at = "off" /\ DOMAIN thread'[u].todo = {}
    BY <1>1 DEF Off
  <2> QED BY <2>1 DEF TaskInv
<1>2. CASE thread'[u] = thread[u]
  BY <1>2, TaskLasts DEF QueueInv
<1> QED BY <1>1, <1>2

\* Entries that change, and letters that are written, by the rules.
LEMMA EntriesStep ==
    ASSUME QueueInv, TypeOK', Lasting, first' = first,
           DOMAIN log' = DOMAIN log, Len(log') = Len(log),
           \A n \in DOMAIN log :
              /\ log'[n].state = "new" => log'[n] = log[n]
              /\ log'[n].state = "acked" =>
                   log[n].state = "acked" \/ n < first \/ n \in handled \cup Buried,
           \A k \in DOMAIN letters' \ DOMAIN letters :
              letters'[k].orig \in DOMAIN log /\ log[letters'[k].orig].count >= MAX_DELIVERIES
    PROVE  EntriesInv'
<1>1. EntriesInv /\ handled \subseteq handled' /\ Buried \subseteq Buried'
  BY BuriedLasts DEF QueueInv, Lasting
<1>2. ASSUME NEW n \in DOMAIN log'
      PROVE  /\ log'[n].state = "new" => log'[n].count = 0
             /\ log'[n].state = "acked" => n < first' \/ n \in handled' \cup Buried'
             /\ n < first' => Len(log') - n >= MaxLen
  BY <1>1 DEF EntriesInv
<1>3. ASSUME NEW k \in DOMAIN letters'
      PROVE  log'[letters'[k].orig].count >= MAX_DELIVERIES
  <2> DEFINE n == letters'[k].orig
  <2>1. n \in DOMAIN log /\ log[n].count >= MAX_DELIVERIES
    <3>1. CASE k \in DOMAIN letters
      <4>1. letters'[k] = letters[k]
        BY <3>1 DEF Lasting
      <4>2. letters[k].orig \in DOMAIN log /\ letters[k].orig \in Buried
        BY <3>1 DEF QueueInv, LettersExist, Buried
      <4>3. log[letters[k].orig].count >= MAX_DELIVERIES
        BY <1>1, <4>2 DEF EntriesInv, DeadAfterDeliveries
      <4> QED BY <4>1, <4>2, <4>3
    <3> QED BY <3>1
  <2>2. log[n].count <= log'[n].count /\ log[n].count \in Nat /\ n \in DOMAIN log'
    BY <2>1, EntryAt DEF Lasting, QueueInv
  <2>3. log'[n].count \in Nat
    <3>1. log' \in Seq(Entry)
      BY DEF TypeOK
    <3>2. log'[n] \in Entry
      BY <2>2, <3>1, Segment
    <3> QED BY <3>2, QueueAssumption DEF Entry
  <2> HIDE DEF n
  <2>4. log'[n].count >= MAX_DELIVERIES
    BY <2>1, <2>2, <2>3, QueueAssumption
  <2> QED BY <2>4 DEF n
<1>4. DeadAfterDeliveries'
  BY <1>3 DEF DeadAfterDeliveries, Buried
<1> QED BY <1>2, <1>4 DEF EntriesInv

\* Letters that are written, or thrown away by an administrator.
LEMMA LettersStep ==
    ASSUME QueueInv, Lasting, admin' = admin,
           dead \cup discarded \subseteq dead' \cup discarded',
           \A k \in DOMAIN letters' \ DOMAIN letters :
              letters'[k].orig \in DOMAIN log /\ k \in dead'
    PROVE  LettersExist' /\ LettersInv'
<1>1. LettersExist'
  BY DEF LettersExist, QueueInv, Lasting
<1>2. LettersAreKept'
  BY DEF LettersAreKept, LettersInv, QueueInv, Lasting
<1>3. \A a \in Admins : admin'[a].at = "remove" =>
          \E n \in DOMAIN log' : log'[n].letter = admin'[a].letter
  BY DEF LettersInv, QueueInv, Lasting
<1> QED BY <1>1, <1>2, <1>3 DEF LettersInv

-----------------------------------------------------------------------------
(* The invariant is inductive *)

\* One entry changes, the letters do not.
LEMMA EntryStep ==
    ASSUME TypeOK, NEW n \in DOMAIN log, NEW e \in Entry, log' = [log EXCEPT ![n] = e],
           e.letter = log[n].letter, log[n].count <= e.count,
           handled' = handled, letters' = letters
    PROVE  /\ Lasting /\ DOMAIN log' = DOMAIN log /\ Len(log') = Len(log)
           /\ log'[n] = e /\ \A m \in DOMAIN log : m # n => log'[m] = log[m]
<1>1. DOMAIN log' = DOMAIN log /\ Len(log') = Len(log)
  BY EntryType, LogType
<1>2. log'[n] = e /\ \A m \in DOMAIN log : m # n => log'[m] = log[m]
  BY <1>1
<1>3. \A m \in DOMAIN log : log[m].count <= log[m].count
  BY EntryAt
<1> QED BY <1>1, <1>2, <1>3 DEF Lasting

\* The entries stay what they are.
LEMMA SameEntries ==
    ASSUME TypeOK, log' = log, handled \subseteq handled',
           DOMAIN letters \subseteq DOMAIN letters',
           \A k \in DOMAIN letters : letters'[k] = letters[k]
    PROVE  Lasting
<1>1. \A m \in DOMAIN log : log[m].count <= log[m].count
  BY EntryAt
<1> QED BY <1>1 DEF Lasting

\* Writing a letter.
LEMMA LetterStep ==
    ASSUME TypeOK, NEW task, WriteLetter(task), task \in Task
    PROVE  /\ DOMAIN letters \subseteq DOMAIN letters'
           /\ \A k \in DOMAIN letters : letters'[k] = letters[k]
           /\ \A k \in DOMAIN letters' \ DOMAIN letters :
                 letters'[k].orig = task.id /\ k \in dead'
           /\ \E k \in DOMAIN letters' : letters'[k].orig = task.id
           /\ dead \subseteq dead'
<1> DEFINE letter == [orig |-> task.id, deliveries |-> task.deliveries]
<1>1. /\ letters \in Seq(Letter) /\ letter \in Letter
      /\ letters' = Append(letters, letter) /\ dead' = dead \cup {Len(letters) + 1}
  BY DEF TypeOK, WriteLetter, Task, Letter
<1>2. /\ letters' \in Seq(Letter) /\ Len(letters') = Len(letters) + 1
      /\ \A k \in 1..Len(letters) : letters'[k] = letters[k]
      /\ letters'[Len(letters) + 1] = letter
  <2> HIDE DEF letter
  <2> QED BY <1>1, AppendProperties
<1>3. /\ Len(letters) \in Nat /\ DOMAIN letters = 1..Len(letters)
      /\ DOMAIN letters' = 1..Len(letters')
  BY <1>1, <1>2, Segment
<1>4. letter.orig = task.id
  OBVIOUS
<1> HIDE DEF letter
<1>5. \A k \in DOMAIN letters' \ DOMAIN letters : k = Len(letters) + 1
  BY <1>2, <1>3
<1>6. Len(letters) + 1 \in DOMAIN letters' /\ DOMAIN letters \subseteq DOMAIN letters'
  BY <1>2, <1>3
<1> QED BY <1>1, <1>2, <1>3, <1>4, <1>5, <1>6

\* A step of a thread that writes no letter keeps the invariant if it keeps the tasks'.
LEMMA QuietStep ==
    ASSUME QueueInv, TypeOK', Lasting, UNCHANGED <<first, letters, admin>>,
           dead \cup discarded \subseteq dead' \cup discarded',
           \A u \in Threads : TaskInv(u)',
           DOMAIN log' = DOMAIN log, Len(log') = Len(log),
           \A n \in DOMAIN log :
              /\ log'[n].state = "new" => log'[n] = log[n]
              /\ log'[n].state = "acked" =>
                   log[n].state = "acked" \/ n < first \/ n \in handled \cup Buried
    PROVE  QueueInv'
<1>1. EntriesInv'
  BY EntriesStep
<1>2. LettersExist' /\ LettersInv'
  BY LettersStep
<1> QED BY <1>1, <1>2 DEF QueueInv

\* A failure leads to the dead letters or to the next task.
LEMMA RejectInv ==
    ASSUME QueueInv, TypeOK', Lasting, NEW t \in Threads, thread[t].at \in {"handle", "ack"},
           Reject(t)
    PROVE  \A u \in Threads : TaskInv(u)'
<1>1. CASE GivesUp(Current(t)) /\ Goes(t, "bury")
  BY <1>1, GoesInv DEF GivesUp
<1>2. CASE GoesOn(t)
  BY <1>2, GoesOnInv
<1> QED BY <1>1, <1>2 DEF Reject

\* Reading a batch: what is read had not been delivered.
LEMMA LoopInv ==
    ASSUME QueueInv, TypeOK', NEW t \in Threads, loop(t)
    PROVE  QueueInv'
<1>0. PICK batch \in Oldest(Deliverable, Count) :
         /\ log' = [n \in DOMAIN log |->
                      IF \E k \in DOMAIN batch : batch[k] = n
                      THEN [log[n] EXCEPT !.state = "pending", !.count = 1] ELSE log[n]]
         /\ thread' = [thread EXCEPT ![t] = [at |-> "handle",
                todo |-> [k \in DOMAIN batch |-> [id |-> batch[k], deliveries |-> 1]]]]
  BY DEF loop
<1>1. TypeOK /\ UNCHANGED <<first, group, handled, letters, dead, discarded, inst, admin>>
  BY DEF QueueInv, loop
<1>2. Deliverable \in SUBSET DOMAIN log /\ Count \in Nat
  BY QueueAssumption DEF Deliverable
<1>3. /\ thread'[t].at = "handle" /\ DOMAIN thread'[t].todo = DOMAIN batch
      /\ \A k \in DOMAIN batch :
           /\ batch[k] \in Deliverable
           /\ thread'[t].todo[k].id = batch[k] /\ thread'[t].todo[k].deliveries = 1
      /\ \A u \in Threads \ {t} : thread'[u] = thread[u]
  <2> DEFINE tries == [k \in DOMAIN batch |-> 1]
  <2>1. tries \in [DOMAIN batch -> 0..MAX_DELIVERIES]
    BY FirstTry
  <2>2. thread' = [thread EXCEPT ![t] = [at |-> "handle",
             todo |-> [k \in DOMAIN batch |-> [id |-> batch[k], deliveries |-> tries[k]]]]]
    BY <1>0
  <2>3. \A k \in DOMAIN batch : tries[k] = 1
    OBVIOUS
  <2> HIDE DEF tries
  <2>4. /\ thread'[t].at = "handle" /\ DOMAIN thread'[t].todo = DOMAIN batch
        /\ \A k \in DOMAIN batch :
             /\ batch[k] \in Deliverable
             /\ thread'[t].todo[k].id = batch[k] /\ thread'[t].todo[k].deliveries = tries[k]
        /\ \A u \in Threads \ {t} : thread'[u] = thread[u]
    BY <1>1, <1>2, <2>1, <2>2, TasksType
  <2> QED BY <2>3, <2>4
<1>4. \A n \in DOMAIN log : /\ log[n] \in Entry
                            /\ log[n].count \in Nat
                            /\ log[n].state = "new" => log[n].count = 0
  BY <1>1, EntryAt DEF QueueInv, EntriesInv
<1> DEFINE batched == {batch[k] : k \in DOMAIN batch}
<1> DEFINE read(n) == [log[n] EXCEPT !.state = "pending", !.count = 1]
<1>5. log' = [n \in DOMAIN log |-> IF n \in batched THEN read(n) ELSE log[n]]
  BY <1>0
<1>6. \A n \in batched : n \in DOMAIN log /\ log[n].state = "new"
  BY <1>3 DEF Deliverable
<1>7. \A n \in DOMAIN log :
         /\ read(n) \in Entry /\ read(n).letter = log[n].letter
         /\ read(n).count = 1 /\ read(n).state = "pending"
  BY <1>4, FirstTry DEF Entry
<1> HIDE DEF batched, read
<1>8. DOMAIN log' = DOMAIN log /\ Len(log') = Len(log)
  <2>1. log' \in [DOMAIN log -> Entry]
    BY <1>4, <1>5, <1>7
  <2> QED BY <1>1, <2>1, LogType
<1>9. ASSUME NEW n \in DOMAIN log
      PROVE  /\ log'[n].letter = log[n].letter /\ log[n].count <= log'[n].count
             /\ log'[n].state \in {"new", "acked"} => log'[n] = log[n]
             /\ n \in batched => log'[n].count = 1
  <2>1. CASE n \in batched
    <3>1. log'[n] = read(n) /\ log[n].count = 0
      BY <1>4, <1>5, <1>6, <2>1
    <3> QED BY <1>7, <3>1
  <2>2. CASE n \notin batched
    <3>1. log'[n] = log[n] /\ log[n].count <= log[n].count
      BY <1>4, <1>5, <2>2
    <3> QED BY <2>2, <3>1
  <2> QED BY <2>1, <2>2
<1>10. Lasting
  BY <1>1, <1>8, <1>9 DEF Lasting
<1>11. TaskInv(t)'
  <2>1. ASSUME NEW k \in DOMAIN thread'[t].todo
        PROVE  /\ thread'[t].todo[k].id \in DOMAIN log'
               /\ thread'[t].todo[k].deliveries <= Delivered(t, k)'
    <3>1. batch[k] \in batched
      BY <1>3, <2>1 DEF batched
    <3>2. /\ thread'[t].todo[k].id \in DOMAIN log' /\ thread'[t].todo[k].deliveries = 1
          /\ log'[thread'[t].todo[k].id].count = 1
      BY <1>3, <1>6, <1>8, <1>9, <2>1, <3>1
    <3>3. ~Waits(t, k)'
      BY DEF Waits, loop
    <3>4. Delivered(t, k)' = 1
      BY <3>2, <3>3 DEF Delivered
    <3> QED BY <3>2, <3>4
  <2>2. thread'[t].at = "handle"
    BY <1>3
  <2> QED BY <2>1, <2>2 DEF TaskInv
<1>12. \A u \in Threads : TaskInv(u)'
  BY <1>1, <1>3, <1>10, <1>11, TaskLasts DEF QueueInv
<1> QED BY <1>1, <1>8, <1>9, <1>10, <1>12, QuietStep

\* Listing what hangs: the number of tries counts the claim that is to come.
LEMMA ReclaimInv ==
    ASSUME QueueInv, TypeOK', NEW t \in Threads, reclaim(t)
    PROVE  QueueInv'
<1>0. PICK ids \in Oldest(Stale, Listed) :
         thread' = [thread EXCEPT ![t] = [at |-> "claim",
             todo |-> [k \in DOMAIN ids |->
                         [id |-> ids[k], deliveries |-> More(log[ids[k]].count)]]]]
  BY DEF reclaim
<1>1. TypeOK /\ UNCHANGED <<log, first, group, handled, letters, dead, discarded, inst, admin>>
  BY DEF QueueInv, reclaim, redis
<1>2. Stale \in SUBSET DOMAIN log /\ Listed \in Nat
  BY QueueAssumption DEF Stale
<1>3. \A k \in DOMAIN ids : ids[k] \in DOMAIN log
  BY <1>2 DEF Oldest
<1>4. \A k \in DOMAIN ids : /\ More(log[ids[k]].count) \in 0..MAX_DELIVERIES
                            /\ More(log[ids[k]].count) <= More(log[ids[k]].count)
  BY <1>1, <1>3, EntryAt, MoreType, MoreGrows
<1> DEFINE tries == [k \in DOMAIN ids |-> More(log[ids[k]].count)]
<1>5. tries \in [DOMAIN ids -> 0..MAX_DELIVERIES]
  BY <1>4
<1>6. thread' = [thread EXCEPT ![t] = [at |-> "claim",
           todo |-> [k \in DOMAIN ids |-> [id |-> ids[k], deliveries |-> tries[k]]]]]
  BY <1>0
<1>7. \A k \in DOMAIN ids : tries[k] = More(log[ids[k]].count)
  OBVIOUS
<1> HIDE DEF tries
<1>8. /\ thread'[t].at = "claim" /\ DOMAIN thread'[t].todo = DOMAIN ids
      /\ \A k \in DOMAIN ids :
           thread'[t].todo[k].id = ids[k] /\ thread'[t].todo[k].deliveries = tries[k]
      /\ \A u \in Threads \ {t} : thread'[u] = thread[u]
  BY <1>1, <1>2, <1>5, <1>6, TasksType
<1>9. Lasting
  BY <1>1, SameEntries
<1>10. TaskInv(t)'
  <2>1. ASSUME NEW k \in DOMAIN thread'[t].todo
        PROVE  /\ thread'[t].todo[k].id \in DOMAIN log'
               /\ thread'[t].todo[k].deliveries <= Delivered(t, k)'
    <3>1. /\ thread'[t].todo[k].id = ids[k] /\ ids[k] \in DOMAIN log
          /\ thread'[t].todo[k].deliveries = More(log[ids[k]].count)
      BY <1>3, <1>7, <1>8, <2>1
    <3>2. Waits(t, k)'
      BY <1>8 DEF Waits, reclaim
    <3>3. Delivered(t, k)' = More(log[ids[k]].count)
      BY <1>1, <3>1, <3>2 DEF Delivered
    <3> QED BY <1>1, <1>4, <1>8, <2>1, <3>1, <3>3
  <2>2. thread'[t].at = "claim"
    BY <1>8
  <2> QED BY <2>1, <2>2 DEF TaskInv
<1>11. \A u \in Threads : TaskInv(u)'
  BY <1>1, <1>8, <1>9, <1>10, TaskLasts DEF QueueInv
<1> QED BY <1>1, <1>9, <1>11, QuietStep

LEMMA ClaimInv ==
    ASSUME QueueInv, TypeOK', NEW t \in Threads, claim(t)
    PROVE  QueueInv'
<1> DEFINE n == Current(t).id
<1>1. /\ TypeOK /\ UNCHANGED <<first, group, handled, letters, dead, discarded, inst, admin>>
      /\ thread[t].at = "claim"
  BY DEF QueueInv, claim
<1>2. n \in DOMAIN log
  BY <1>1, CurrentTask DEF QueueInv, TaskInv
<1>3. log[n] \in Entry /\ log[n].count \in 0..MAX_DELIVERIES /\ log[n].count \in Nat
  BY <1>1, <1>2, EntryAt
<1> DEFINE claimed == [log[n] EXCEPT !.state = "pending", !.count = More(log[n].count)]
<1> DEFINE forgotten == [log[n] EXCEPT !.state = "acked"]
<1>4. /\ claimed \in Entry /\ forgotten \in Entry
      /\ claimed.letter = log[n].letter /\ forgotten.letter = log[n].letter
      /\ claimed.state = "pending" /\ claimed.count = More(log[n].count)
      /\ forgotten.state = "acked" /\ forgotten.count = log[n].count
      /\ log[n].count <= More(log[n].count) /\ log[n].count <= log[n].count
  <2>1. More(log[n].count) \in 0..MAX_DELIVERIES /\ log[n].count <= More(log[n].count)
    BY <1>3, MoreType
  <2>2. /\ claimed \in Entry /\ claimed.letter = log[n].letter
        /\ claimed.state = "pending" /\ claimed.count = More(log[n].count)
    BY <1>3, <2>1 DEF Entry
  <2>3. /\ forgotten \in Entry /\ forgotten.letter = log[n].letter
        /\ forgotten.state = "acked" /\ forgotten.count = log[n].count
    BY <1>3 DEF Entry
  <2>4. log[n].count <= log[n].count
    BY <1>3
  <2> QED BY <2>1, <2>2, <2>3, <2>4
<1>5. \/ log' = [log EXCEPT ![n] = claimed] /\ Goes(t, "handle")
      \/ log' = [log EXCEPT ![n] = forgotten] /\ n < first /\ GoesOn(t)
      \/ log' = log /\ GoesOn(t)
  BY DEF claim
<1> HIDE DEF claimed, forgotten
<1>6. CASE log' = [log EXCEPT ![n] = claimed] /\ Goes(t, "handle")
  <2>1. /\ Lasting /\ DOMAIN log' = DOMAIN log /\ Len(log') = Len(log) /\ log'[n] = claimed
        /\ \A m \in DOMAIN log : m # n => log'[m] = log[m]
    BY <1>1, <1>2, <1>4, <1>6, EntryStep
  <2>2. \A u \in Threads : TaskInv(u)'
    BY <1>1, <1>4, <1>6, <2>1, GoesInv
  <2>3. \A m \in DOMAIN log : log'[m].state \in {"new", "acked"} => log'[m] = log[m]
    BY <1>4, <2>1
  <2> QED BY <1>1, <2>1, <2>2, <2>3, QuietStep
<1>7. CASE log' = [log EXCEPT ![n] = forgotten] /\ n < first /\ GoesOn(t)
  <2>1. /\ Lasting /\ DOMAIN log' = DOMAIN log /\ Len(log') = Len(log) /\ log'[n] = forgotten
        /\ \A m \in DOMAIN log : m # n => log'[m] = log[m]
    BY <1>1, <1>2, <1>4, <1>7, EntryStep
  <2>2. \A u \in Threads : TaskInv(u)'
    BY <1>1, <1>7, <2>1, GoesOnInv
  <2>3. \A m \in DOMAIN log : /\ log'[m].state = "new" => log'[m] = log[m]
                              /\ log'[m].state = "acked" => log[m].state = "acked" \/ m < first
    BY <1>4, <1>7, <2>1
  <2> QED BY <1>1, <2>1, <2>2, <2>3, QuietStep
<1>8. CASE log' = log /\ GoesOn(t)
  <2>1. Lasting
    BY <1>1, <1>8, SameEntries
  <2>2. \A u \in Threads : TaskInv(u)'
    BY <1>1, <1>8, <2>1, GoesOnInv
  <2> QED BY <1>1, <1>8, <2>1, <2>2, QuietStep
<1> QED BY <1>5, <1>6, <1>7, <1>8

\* Handlers, and failures of what a thread does.
LEMMA HandleInv ==
    ASSUME QueueInv, TypeOK', NEW t \in Threads,
           handlerReturns(t) \/ handlerThrows(t) \/ xackFails(t) \/ commandFails(t)
    PROVE  QueueInv'
<1>1. /\ TypeOK /\ UNCHANGED <<log, first, letters, dead, discarded, admin>>
      /\ handled \subseteq handled'
  BY DEF QueueInv, handlerReturns, handlerThrows, xackFails, commandFails, redis
<1>2. Lasting
  BY <1>1, SameEntries
<1>3. \A u \in Threads : TaskInv(u)'
  <2>1. CASE handlerReturns(t)
    BY <1>2, <2>1, GoesInv DEF handlerReturns
  <2>2. CASE handlerThrows(t) \/ xackFails(t)
    BY <1>2, <2>2, RejectInv DEF handlerThrows, xackFails
  <2>3. CASE commandFails(t)
    <3>1. \A u \in Threads : thread'[u] = thread[u] \/ thread'[u] = Off
      BY <1>1, <2>3, OffType DEF commandFails
    <3> QED BY <1>2, <3>1, OffInv
  <2> QED BY <2>1, <2>2, <2>3
<1> QED BY <1>1, <1>2, <1>3, QuietStep

\* An entry is acknowledged after a handler has returned or a letter has been written.
LEMMA XackInv ==
    ASSUME QueueInv, TypeOK', NEW t \in Threads, xack(t)
    PROVE  QueueInv'
<1> DEFINE n == Current(t).id
<1>1. /\ TypeOK /\ UNCHANGED <<first, group, handled, letters, dead, discarded, inst, admin>>
      /\ thread[t].at \in {"ack", "settle"} /\ GoesOn(t)
  BY DEF QueueInv, xack
<1>2. n \in DOMAIN log /\ n \in handled \cup Buried
  BY <1>1, CurrentTask DEF QueueInv, TaskInv
<1>3. log[n] \in Entry /\ log[n].count \in Nat
  BY <1>1, <1>2, EntryAt
<1> DEFINE acked == [log[n] EXCEPT !.state = "acked"]
<1>4. /\ acked \in Entry /\ acked.letter = log[n].letter
      /\ acked.state = "acked" /\ log[n].count <= acked.count
  BY <1>3 DEF Entry
<1>5. log' = [log EXCEPT ![n] = acked]
  BY DEF xack, Acked
<1> HIDE DEF acked
<1>6. /\ Lasting /\ DOMAIN log' = DOMAIN log /\ Len(log') = Len(log) /\ log'[n] = acked
      /\ \A m \in DOMAIN log : m # n => log'[m] = log[m]
  BY <1>1, <1>2, <1>4, <1>5, EntryStep
<1>7. \A u \in Threads : TaskInv(u)'
  BY <1>1, <1>6, GoesOnInv
<1>8. \A m \in DOMAIN log :
         /\ log'[m].state = "new" => log'[m] = log[m]
         /\ log'[m].state = "acked" => log[m].state = "acked" \/ m \in handled \cup Buried
  BY <1>2, <1>4, <1>6
<1> QED BY <1>1, <1>6, <1>7, <1>8, QuietStep

\* The letter is of an entry that Redis has delivered often enough.
LEMMA BuryInv ==
    ASSUME QueueInv, TypeOK', NEW t \in Threads, bury(t)
    PROVE  QueueInv'
<1> DEFINE n == Current(t).id
<1>1. /\ TypeOK /\ UNCHANGED <<log, first, group, handled, discarded, inst, admin>>
      /\ thread[t].at = "bury" /\ WriteLetter(Current(t)) /\ Goes(t, "settle")
  BY DEF QueueInv, bury
<1>2. /\ Current(t) = thread[t].todo[1] /\ Current(t) \in Task /\ 1 \in DOMAIN thread[t].todo
      /\ n \in DOMAIN log /\ Current(t).deliveries <= Delivered(t, 1)
      /\ Current(t).deliveries >= MAX_DELIVERIES
  BY <1>1, CurrentTask DEF QueueInv, TaskInv
<1>3. log[n].count >= MAX_DELIVERIES
  <2>1. Delivered(t, 1) = log[n].count
    BY <1>1, <1>2 DEF Delivered, Waits
  <2>2. log[n].count \in Nat /\ Current(t).deliveries \in Nat
    BY <1>1, <1>2, EntryAt, TaskAt
  <2> QED BY <1>2, <2>1, <2>2, QueueAssumption
<1>4. /\ DOMAIN letters \subseteq DOMAIN letters'
      /\ \A k \in DOMAIN letters : letters'[k] = letters[k]
      /\ \A k \in DOMAIN letters' \ DOMAIN letters : letters'[k].orig = n /\ k \in dead'
      /\ \E k \in DOMAIN letters' : letters'[k].orig = n
      /\ dead \subseteq dead'
  BY <1>1, <1>2, LetterStep
<1>5. Lasting
  BY <1>1, <1>4, SameEntries
<1>6. n \in Buried'
  BY <1>4 DEF Buried
<1>7. \A u \in Threads : TaskInv(u)'
  BY <1>1, <1>5, <1>6, GoesInv
<1>8. EntriesInv'
  BY <1>1, <1>2, <1>3, <1>4, <1>5, EntriesStep
<1>9. LettersExist' /\ LettersInv'
  BY <1>1, <1>2, <1>4, <1>5, LettersStep
<1> QED BY <1>7, <1>8, <1>9 DEF QueueInv

\* An entry is added: the stream may be trimmed, over a backlog of MaxLen younger ones.
LEMMA AddStep ==
    ASSUME QueueInv, TypeOK', NEW job \in Jobs, NEW letter \in Nat, XADD(Fresh(job, letter)),
           UNCHANGED <<handled, letters, thread>>
    PROVE  /\ Lasting /\ EntriesInv' /\ \A u \in Threads : TaskInv(u)'
           /\ \E n \in DOMAIN log' : log'[n].letter = letter
<1> DEFINE e == Fresh(job, letter)
<1>1. e \in Entry /\ e.state = "new" /\ e.count = 0 /\ e.letter = letter
  BY FreshType DEF Fresh
<1>2. TypeOK /\ EntriesInv
  BY DEF QueueInv
<1>3. XADD(e)
  OBVIOUS
<1> HIDE DEF e
<1>4. /\ Len(log') = Len(log) + 1 /\ Len(log) \in Nat
      /\ DOMAIN log = 1..Len(log) /\ DOMAIN log' = 1..Len(log) + 1
      /\ \A n \in DOMAIN log : log'[n] = log[n]
      /\ log'[Len(log) + 1] = e
      /\ first' \in 1..MaxEntries + 1 /\ first <= first' /\ first' <= Len(log) + 1
      /\ first' = first \/ Len(log) + 2 - first' >= MaxLen
  BY <1>1, <1>2, <1>3, XADDType
<1>5. Lasting
  <2>1. \A n \in DOMAIN log : log[n].count <= log[n].count
    BY <1>2, EntryAt
  <2> QED BY <1>4, <2>1 DEF Lasting
<1>6. \A u \in Threads : TaskInv(u)'
  BY <1>2, <1>5, TaskLasts DEF QueueInv
<1>7. Buried' = Buried
  BY DEF Buried
<1>8. ASSUME NEW n \in DOMAIN log'
      PROVE  /\ log'[n].state = "new" => log'[n].count = 0
             /\ log'[n].state = "acked" => n < first' \/ n \in handled' \cup Buried'
             /\ n < first' => Len(log') - n >= MaxLen
  <2>1. CASE n = Len(log) + 1
    BY <1>1, <1>4, <2>1, QueueAssumption
  <2>2. CASE n \in DOMAIN log
    <3>1. /\ log[n].state = "new" => log[n].count = 0
          /\ log[n].state = "acked" => n < first \/ n \in handled \cup Buried
          /\ n < first => Len(log) - n >= MaxLen
      BY <1>2, <2>2 DEF EntriesInv
    <3>2. first \in Nat /\ first' \in Nat /\ n \in Nat /\ MaxLen \in Nat
      BY <1>2, <1>4, <2>2, QueueAssumption DEF TypeOK
    <3>3. n < first' => Len(log') - n >= MaxLen
      BY <1>4, <3>1, <3>2
    <3>4. n < first => n < first'
      BY <1>4, <3>2
    <3> QED BY <1>4, <1>7, <2>2, <3>1, <3>3, <3>4
  <2>3. n \in DOMAIN log \/ n = Len(log) + 1
    BY <1>4
  <2> QED BY <2>1, <2>2, <2>3
<1>9. DeadAfterDeliveries'
  <2>1. \A n \in Buried : n \in DOMAIN log
    BY DEF Buried, QueueInv, LettersExist
  <2> QED BY <1>2, <1>4, <1>7, <2>1 DEF EntriesInv, DeadAfterDeliveries
<1>10. Len(log) + 1 \in DOMAIN log'
  BY <1>4
<1> QED BY <1>1, <1>4, <1>5, <1>6, <1>8, <1>9, <1>10 DEF EntriesInv

LEMMA PublishInv ==
    ASSUME QueueInv, TypeOK', NEW job \in Jobs, publish(job)
    PROVE  QueueInv'
<1>1. Lasting /\ EntriesInv' /\ \A u \in Threads : TaskInv(u)'
  BY AddStep DEF publish
<1>2. LettersExist' /\ LettersInv'
  BY <1>1, LettersStep DEF publish
<1> QED BY <1>1, <1>2 DEF QueueInv

\* Instances come and go, and time passes.
LEMMA InstanceInv ==
    ASSUME QueueInv, TypeOK',
           (\E i \in Instances : start(i) \/ startFails(i) \/ Crash(i))
           \/ (\E n \in DOMAIN log : Age(n))
    PROVE  QueueInv'
<1>1. TypeOK /\ UNCHANGED <<first, handled, letters, dead, discarded, admin>>
  BY DEF QueueInv, start, startFails, Crash, Age, redis
<1>2. CASE \E n \in DOMAIN log : Age(n)
  <2>0. PICK n \in DOMAIN log : Age(n)
    BY <1>2
  <2>1. log[n] \in Entry /\ log[n].count \in Nat
    BY <1>1, EntryAt
  <2> DEFINE old == [log[n] EXCEPT !.state = "idle"]
  <2>2. /\ old \in Entry /\ old.letter = log[n].letter
        /\ old.state = "idle" /\ log[n].count <= old.count
    BY <2>1 DEF Entry
  <2>3. log' = [log EXCEPT ![n] = old] /\ thread' = thread
    BY <2>0 DEF Age
  <2> HIDE DEF old
  <2>4. /\ Lasting /\ DOMAIN log' = DOMAIN log /\ Len(log') = Len(log) /\ log'[n] = old
        /\ \A m \in DOMAIN log : m # n => log'[m] = log[m]
    BY <1>1, <2>2, <2>3, EntryStep
  <2>5. \A u \in Threads : TaskInv(u)'
    BY <2>3, <2>4, OffInv
  <2>6. \A m \in DOMAIN log : log'[m].state \in {"new", "acked"} => log'[m] = log[m]
    BY <2>2, <2>4
  <2> QED BY <1>1, <2>4, <2>5, <2>6, QuietStep
<1>3. CASE \E i \in Instances : start(i) \/ startFails(i) \/ Crash(i)
  <2>1. log' = log /\ \A u \in Threads : thread'[u] = thread[u] \/ thread'[u] = Off
    BY <1>3 DEF start, ensureGroup, startFails, Crash, redis
  <2>2. Lasting
    BY <1>1, <2>1, SameEntries
  <2>3. \A u \in Threads : TaskInv(u)'
    BY <2>1, <2>2, OffInv
  <2> QED BY <1>1, <2>1, <2>2, <2>3, QuietStep
<1> QED BY <1>2, <1>3

\* Administrators: a letter goes when it is discarded or its job is back in the stream.
LEMMA AdminInv ==
    ASSUME QueueInv, TypeOK',
           \/ \E a \in Admins :
                 \/ \E k \in dead : requeue(a, k)
                 \/ requeueAdds(a) \/ requeueRemoves(a) \/ requeueStops(a)
           \/ \E k \in dead : discard(k)
    PROVE  QueueInv'
<1>1. /\ TypeOK /\ LettersExist /\ LettersInv /\ UNCHANGED <<handled, letters, thread>>
      /\ admin \in [Admins -> Request]
  BY DEF QueueInv, TypeOK, requeue, requeueAdds, requeueRemoves, requeueStops, discard, redis
<1>2. ASSUME NEW a \in Admins, requeueAdds(a)
      PROVE  QueueInv'
  <2> DEFINE k == admin[a].letter
  <2>1. k \in DOMAIN letters /\ k \in Nat /\ log[letters[k].orig].job \in Jobs
    <3>1. k \in DOMAIN letters /\ k \in Nat
      BY <1>1, <1>2, RequeuedType
    <3>2. log[letters[k].orig] \in Entry
      BY <1>1, <3>1, EntryAt DEF LettersExist
    <3> QED BY <3>1, <3>2 DEF Entry
  <2>2. /\ Lasting /\ EntriesInv' /\ \A u \in Threads : TaskInv(u)'
        /\ \E n \in DOMAIN log' : log'[n].letter = k
    BY <1>1, <1>2, <2>1, AddStep DEF requeueAdds
  <2>3. /\ \A b \in Admins : admin'[b].letter = admin[b].letter
        /\ \A b \in Admins \ {a} : admin'[b] = admin[b]
        /\ admin[a].at # "off" /\ UNCHANGED <<dead, discarded>>
    BY <1>1, <1>2 DEF requeueAdds, Request
  <2>4. LettersExist'
    BY <1>1, <2>2, <2>3 DEF LettersExist, Lasting
  <2>5. LettersAreKept'
    BY <1>1, <2>2, <2>3 DEF LettersInv, LettersAreKept, Lasting
  <2>6. \A b \in Admins : admin'[b].at = "remove" =>
            \E n \in DOMAIN log' : log'[n].letter = admin'[b].letter
    BY <1>1, <2>2, <2>3 DEF LettersInv, Lasting
  <2> QED BY <2>2, <2>4, <2>5, <2>6 DEF QueueInv, LettersInv
<1>3. CASE \/ \E a \in Admins :
                 (\E k \in dead : requeue(a, k)) \/ requeueRemoves(a) \/ requeueStops(a)
           \/ \E k \in dead : discard(k)
  <2>1. log' = log /\ first' = first
    BY <1>3 DEF requeue, requeueRemoves, requeueStops, discard, redis
  <2>2. Lasting
    BY <1>1, <2>1, SameEntries
  <2>3. \A u \in Threads : TaskInv(u)'
    BY <1>1, <2>2, OffInv
  <2>4. EntriesInv'
    BY <1>1, <2>1, <2>2, EntriesStep
  <2>5. LettersExist'
    <3>1. ASSUME NEW a \in Admins, NEW k \in dead, requeue(a, k)
          PROVE  LettersExist'
      <4>1. k \in DOMAIN letters
        BY <1>1 DEF TypeOK
      <4>2. /\ admin'[a].letter = k
            /\ \A b \in Admins \ {a} : admin'[b] = admin[b]
        BY <1>1, <3>1 DEF requeue
      <4> QED BY <1>1, <2>1, <4>1, <4>2 DEF LettersExist
    <3>2. ASSUME NEW a \in Admins, requeueRemoves(a) \/ requeueStops(a)
          PROVE  LettersExist'
      <4>1. /\ admin'[a].at = "off"
            /\ \A b \in Admins \ {a} : admin'[b] = admin[b]
        BY <1>1, <3>2 DEF requeueRemoves, requeueStops, NoRequest
      <4> QED BY <1>1, <2>1, <4>1 DEF LettersExist
    <3>3. CASE \E k \in dead : discard(k)
      BY <1>1, <2>1, <3>3 DEF discard, LettersExist
    <3> QED BY <1>3, <3>1, <3>2, <3>3
  <2>6. LettersAreKept'
    BY <1>1, <1>3, <2>1
       DEF requeue, requeueRemoves, requeueStops, discard, redis, LettersInv, LettersAreKept
  <2>7. \A b \in Admins : admin'[b].at = "remove" =>
            admin[b].at = "remove" /\ admin'[b].letter = admin[b].letter
    BY <1>1, <1>3 DEF requeue, requeueRemoves, requeueStops, discard, NoRequest
  <2>8. LettersInv'
    BY <1>1, <2>1, <2>6, <2>7 DEF LettersInv
  <2> QED BY <2>3, <2>4, <2>5, <2>8 DEF QueueInv
<1> QED BY <1>2, <1>3

LEMMA InitInv == Init => QueueInv
<1> SUFFICES ASSUME Init PROVE QueueInv
  OBVIOUS
<1>1. DOMAIN log = {} /\ DOMAIN letters = {} /\ \A a \in Admins : admin[a].at = "off"
  BY DEF Init, NoRequest
<1>2. \A t \in Threads : thread[t].at = "off" /\ DOMAIN thread[t].todo = {}
  BY DEF Init, Off
<1>3. LettersExist /\ LettersInv
  BY <1>1 DEF LettersExist, LettersInv, LettersAreKept
<1>4. EntriesInv
  BY <1>1 DEF EntriesInv, DeadAfterDeliveries, Buried
<1>5. \A t \in Threads : TaskInv(t)
  BY <1>2 DEF TaskInv
<1> QED BY <1>3, <1>4, <1>5, InitType DEF QueueInv

LEMMA NextInv == QueueInv /\ [Next]_vars => QueueInv'
<1> SUFFICES ASSUME QueueInv, [Next]_vars PROVE QueueInv'
  OBVIOUS
<1>1. TypeOK /\ LettersExist /\ TasksExist
  BY DEF QueueInv, TaskInv, TasksExist
<1>2. CASE \E job \in Jobs : publish(job)
  BY <1>1, <1>2, OtherType, PublishInv
<1>3. CASE (\E i \in Instances : start(i) \/ startFails(i) \/ Crash(i))
           \/ (\E n \in DOMAIN log : Age(n))
  <2>1. TypeOK'
    BY <1>1, <1>3, OtherType
  <2> QED BY <1>3, <2>1, InstanceInv
<1>4. CASE \/ \E a \in Admins :
                 \/ \E k \in dead : requeue(a, k)
                 \/ requeueAdds(a) \/ requeueRemoves(a) \/ requeueStops(a)
           \/ \E k \in dead : discard(k)
  <2>1. TypeOK'
    BY <1>1, <1>4, OtherType
  <2> QED BY <1>4, <2>1, AdminInv
<1>5. ASSUME NEW t \in Threads, Step(t) \/ xackFails(t) \/ commandFails(t)
      PROVE  QueueInv'
  <2>1. TypeOK'
    BY <1>1, <1>5, StepType
  <2> QED BY <1>5, <2>1, LoopInv, ReclaimInv, ClaimInv, HandleInv, XackInv, BuryInv DEF Step
<1>6. CASE UNCHANGED vars
  <2>1. UNCHANGED <<log, first, group, handled, letters, dead, discarded, inst, thread,
                    admin, faults>>
    BY <1>6 DEF vars
  <2> QED BY <2>1
          DEF QueueInv, TypeOK, LettersExist, TaskInv, Delivered, Waits, Current, EntriesInv,
              DeadAfterDeliveries, LettersInv, LettersAreKept, Buried
<1> QED BY <1>2, <1>3, <1>4, <1>5, <1>6 DEF Next

\* The state stays well-typed, and threads work on entries there are.
THEOREM TypeCorrect == Spec => []TypeOK
<1>1. QueueInv => TypeOK
  BY DEF QueueInv
<1> QED BY <1>1, InitInv, NextInv, PTL DEF Spec

\* Whatever crashes, fails or overtakes, an entry the group has forgotten was handled, is
\* a dead letter, or was trimmed over a backlog.
THEOREM NothingIsEverLost == Spec => []NothingIsLost
<1>1. QueueInv => NothingIsLost
  <2> SUFFICES ASSUME QueueInv, NEW n \in DOMAIN log
               PROVE  n \in Owed \cup handled \cup Buried \/ Len(log) - n >= MaxLen
    BY DEF NothingIsLost
  <2>1. first \in Nat /\ n \in Nat
    BY EntryAt DEF QueueInv, TypeOK
  <2> QED BY <2>1 DEF QueueInv, EntriesInv, Owed
<1> QED BY <1>1, InitInv, NextInv, PTL DEF Spec

\* No number of instances that reclaim from old lists buries an entry too early.
THEOREM NeverBuriedEarly == Spec => []DeadAfterDeliveries
<1>1. QueueInv => DeadAfterDeliveries
  BY DEF QueueInv, EntriesInv
<1> QED BY <1>1, InitInv, NextInv, PTL DEF Spec

\* No number of administrators who requeue at once, or stop half-way, loses a letter.
THEOREM LettersAlwaysKept == Spec => []LettersAreKept
<1>1. QueueInv => LettersAreKept
  BY DEF QueueInv, LettersInv
<1> QED BY <1>1, InitInv, NextInv, PTL DEF Spec

-----------------------------------------------------------------------------
(* The refinement of AtLeastOnce *)

\* Nothing the promise speaks of changes.
Unseen == UNCHANGED <<Len(log), Owed, handled, Buried>>

LEMMA OwedSame ==
    ASSUME DOMAIN log' = DOMAIN log, first' = first,
           \A n \in DOMAIN log : n >= first =>
              (log'[n].state = "acked" <=> log[n].state = "acked")
    PROVE  Owed' = Owed
  BY DEF Owed

LEMMA UnseenIsStuttering == Unseen => UNCHANGED Promise!vars
  BY DEF Unseen, Promise!vars

\* An entry is published.
LEMMA AddIsPublish ==
    ASSUME QueueInv, NEW job \in Jobs, NEW letter \in Nat, XADD(Fresh(job, letter)),
           UNCHANGED <<handled, letters>>
    PROVE  Promise!Publish
<1> DEFINE e == Fresh(job, letter)
<1>1. e \in Entry /\ e.state = "new"
  BY FreshType DEF Fresh
<1>2. TypeOK /\ XADD(e)
  BY DEF QueueInv
<1> HIDE DEF e
<1>3. /\ Len(log') = Len(log) + 1 /\ Len(log) \in Nat
      /\ DOMAIN log = 1..Len(log) /\ DOMAIN log' = 1..Len(log) + 1
      /\ \A n \in DOMAIN log : log'[n] = log[n]
      /\ log'[Len(log) + 1] = e
      /\ first' \in 1..MaxEntries + 1 /\ first <= first' /\ first' <= Len(log) + 1
      /\ first' = first \/ Len(log) + 2 - first' >= MaxLen
  BY <1>1, <1>2, XADDType
<1>4. first \in Nat /\ first' \in Nat /\ MaxLen \in Nat /\ Buried' = Buried
  BY <1>2, <1>3, QueueAssumption DEF TypeOK, Buried
<1> DEFINE old == {n \in 1..Len(log) : Len(log) + 1 - n >= MaxLen}
<1> DEFINE trimmed == {n \in 1..Len(log) : first <= n /\ n < first'}
<1>5. trimmed \in SUBSET old
  BY <1>3, <1>4
<1>6. Owed' = (Owed \cup {Len(log')}) \ trimmed
  <2>1. ASSUME NEW n \in Owed' PROVE n \in (Owed \cup {Len(log')}) \ trimmed
    <3>1. n \in DOMAIN log' /\ n >= first' /\ log'[n].state # "acked" /\ n \in Nat
      BY <1>3 DEF Owed
    <3>2. n \notin trimmed
      BY <1>4, <3>1
    <3>3. n \in DOMAIN log => n \in Owed
      BY <1>3, <1>4, <3>1 DEF Owed
    <3>4. n \in DOMAIN log \/ n = Len(log')
      BY <1>3, <3>1
    <3> QED BY <3>2, <3>3, <3>4
  <2>2. ASSUME NEW n \in (Owed \cup {Len(log')}) \ trimmed PROVE n \in Owed'
    <3>1. CASE n = Len(log')
      BY <1>1, <1>3, <1>4, <3>1 DEF Owed
    <3>2. CASE n \in Owed
      <4>1. n \in DOMAIN log /\ n >= first /\ log[n].state # "acked" /\ n \in 1..Len(log)
        BY <1>3, <3>2 DEF Owed
      <4>2. n >= first'
        BY <1>4, <2>2, <4>1
      <4> QED BY <1>3, <4>1, <4>2 DEF Owed
    <3> QED BY <2>2, <3>1, <3>2
  <2> QED BY <2>1, <2>2
<1> HIDE DEF old, trimmed
<1>7. \E s \in SUBSET old : Owed' = (Owed \cup {Len(log')}) \ s
  BY <1>5, <1>6
<1> QED BY <1>3, <1>4, <1>7 DEF Promise!Publish, old

LEMMA InitRefines == Init => Promise!Init
<1> SUFFICES ASSUME Init PROVE Promise!Init
  OBVIOUS
<1>1. DOMAIN log = {} /\ DOMAIN letters = {} /\ Len(log) = 0
  BY EmptySeq DEF Init
<1> QED BY <1>1 DEF Init, Promise!Init, Owed, Buried

\* Handlers, letters and acknowledgements are steps of the promise; reading, claiming
\* and failing are not seen.
LEMMA ThreadRefines ==
    ASSUME QueueInv, NEW t \in Threads, Step(t) \/ xackFails(t) \/ commandFails(t)
    PROVE  Promise!Next \/ Unseen
<1>1. TypeOK /\ log \in Seq(Entry)
  BY DEF QueueInv, TypeOK
<1>2. Len(log) \in Nat /\ DOMAIN log = 1..Len(log)
  BY <1>1, Segment
<1> DEFINE n == Current(t).id
<1>3. thread[t].at # "off" => /\ n \in 1..Len(log) /\ Current(t) \in Task
                              /\ log[n] \in Entry /\ 1 \in DOMAIN thread[t].todo
  BY <1>1, <1>2, CurrentTask, EntryAt DEF QueueInv, TaskInv
<1>4. CASE loop(t)
  <2>0. PICK batch \in Oldest(Deliverable, Count) :
          log' = [m \in DOMAIN log |->
                    IF \E k \in DOMAIN batch : batch[k] = m
                    THEN [log[m] EXCEPT !.state = "pending", !.count = 1] ELSE log[m]]
    BY <1>4 DEF loop
  <2>1. \A m \in DOMAIN log : log[m] \in Entry
    BY <1>1, EntryAt
  <2>2. \A k \in DOMAIN batch : batch[k] \in Deliverable
    BY DEF Oldest
  <2>3. ASSUME NEW m \in DOMAIN log
        PROVE  log'[m] \in Entry /\ (log'[m].state = "acked" <=> log[m].state = "acked")
    <3> DEFINE read == [log[m] EXCEPT !.state = "pending", !.count = 1]
    <3>1. read \in Entry /\ read.state = "pending"
      BY <2>1, FirstTry DEF Entry
    <3>2. log'[m] = IF \E k \in DOMAIN batch : batch[k] = m THEN read ELSE log[m]
      BY <2>0
    <3> HIDE DEF read
    <3>3. (\E k \in DOMAIN batch : batch[k] = m) => log[m].state = "new"
      BY <2>2 DEF Deliverable
    <3> QED BY <2>1, <3>1, <3>2, <3>3
  <2>4. log' \in [DOMAIN log -> Entry]
    <3>1. DOMAIN log' = DOMAIN log /\ log' = [m \in DOMAIN log' |-> log'[m]]
      BY <2>0
    <3> QED BY <2>3, <3>1
  <2>5. UNCHANGED <<first, handled, letters>>
    BY <1>4 DEF loop
  <2> QED BY <1>1, <2>3, <2>4, <2>5, LogType, OwedSame DEF Unseen, Buried
<1>5. CASE reclaim(t) \/ handlerThrows(t) \/ xackFails(t) \/ commandFails(t)
  BY <1>5 DEF reclaim, handlerThrows, xackFails, commandFails, redis, Unseen, Owed, Buried
<1>6. CASE claim(t)
  <2>1. n \in DOMAIN log /\ log[n] \in Entry
    BY <1>2, <1>3, <1>6 DEF claim
  <2> DEFINE claimed == [log[n] EXCEPT !.state = "pending", !.count = More(log[n].count)]
  <2> DEFINE forgotten == [log[n] EXCEPT !.state = "acked"]
  <2>2. claimed.state = "pending" /\ forgotten.state = "acked"
    BY <2>1 DEF Entry
  <2>3. /\ UNCHANGED <<first, handled, letters>>
        /\ \/ log' = [log EXCEPT ![n] = claimed] /\ log[n].state = "idle"
           \/ log' = [log EXCEPT ![n] = forgotten] /\ n < first
           \/ log' = log
    BY <1>6 DEF claim
  <2> HIDE DEF claimed, forgotten, n
  <2>4. first \in Nat /\ n \in Nat
    BY <1>1, <1>2, <2>1 DEF TypeOK
  <2>5. DOMAIN log' = DOMAIN log /\ Len(log') = Len(log)
    BY <1>2, <2>3
  <2>6. \A m \in DOMAIN log : m >= first =>
           (log'[m].state = "acked" <=> log[m].state = "acked")
    BY <2>1, <2>2, <2>3, <2>4
  <2> QED BY <2>3, <2>5, <2>6, OwedSame DEF Unseen, Buried
<1>7. CASE handlerReturns(t)
  <2>1. n \in 1..Len(log) /\ handled' = handled \cup {n}
    BY <1>3, <1>7 DEF handlerReturns
  <2>2. UNCHANGED <<log, first, letters>>
    BY <1>7 DEF handlerReturns, redis
  <2>3. Promise!Handle(n)
    BY <2>1, <2>2 DEF Promise!Handle, Owed, Buried
  <2> QED BY <2>1, <2>3 DEF Promise!Next
<1>8. CASE xack(t)
  <2>1. /\ n \in 1..Len(log) /\ log[n] \in Entry /\ n \in handled \cup Buried
        /\ UNCHANGED <<first, handled, letters>>
    BY <1>3, <1>8 DEF xack, QueueInv, TaskInv
  <2> DEFINE acked == [log[n] EXCEPT !.state = "acked"]
  <2>2. acked.state = "acked" /\ acked \in Entry /\ log' = [log EXCEPT ![n] = acked]
    BY <1>8, <2>1 DEF Entry, xack, Acked
  <2> HIDE DEF acked, n
  <2>3. DOMAIN log' = DOMAIN log /\ Len(log') = Len(log)
    BY <1>1, <2>2, EntryType, LogType
  <2>4. Owed' = Owed \ {n}
    BY <1>2, <2>1, <2>2, <2>3 DEF Owed
  <2>5. Promise!Settle(n)
    BY <2>1, <2>3, <2>4 DEF Promise!Settle, Buried
  <2> QED BY <2>1, <2>5 DEF Promise!Next
<1>9. CASE bury(t)
  <2>1. /\ n \in 1..Len(log) /\ Current(t) \in Task /\ WriteLetter(Current(t))
        /\ UNCHANGED <<log, first, handled>>
    BY <1>3, <1>9 DEF bury
  <2>2. /\ DOMAIN letters \subseteq DOMAIN letters'
        /\ \A k \in DOMAIN letters : letters'[k] = letters[k]
        /\ \A k \in DOMAIN letters' \ DOMAIN letters : letters'[k].orig = n
        /\ \E k \in DOMAIN letters' : letters'[k].orig = n
    BY <1>1, <2>1, LetterStep
  <2> HIDE DEF n
  <2>3. Buried' = Buried \cup {n}
    <3>1. \A m \in Buried' : m \in Buried \/ m = n
      BY <2>2 DEF Buried
    <3>2. \A m \in Buried : m \in Buried'
      BY <2>2 DEF Buried
    <3>3. n \in Buried'
      BY <2>2 DEF Buried
    <3> QED BY <3>1, <3>2, <3>3
  <2>4. Promise!Bury(n)
    BY <2>1, <2>3 DEF Promise!Bury, Owed
  <2> QED BY <2>1, <2>4 DEF Promise!Next
<1> QED BY <1>4, <1>5, <1>6, <1>7, <1>8, <1>9 DEF Step

LEMMA NextRefines == QueueInv /\ [Next]_vars => [Promise!Next]_(Promise!vars)
<1> SUFFICES ASSUME QueueInv, [Next]_vars PROVE Promise!Next \/ Unseen
  BY UnseenIsStuttering
<1>1. TypeOK /\ LettersExist
  BY DEF QueueInv
<1>2. CASE \E job \in Jobs : publish(job)
  <2>0. PICK job \in Jobs : publish(job)
    BY <1>2
  <2>1. Promise!Publish
    BY <2>0, AddIsPublish DEF publish
  <2> QED BY <2>1 DEF Promise!Next
<1>3. CASE \E a \in Admins : requeueAdds(a)
  <2>0. PICK a \in Admins : requeueAdds(a)
    BY <1>3
  <2> DEFINE k == admin[a].letter
  <2>1. k \in DOMAIN letters /\ k \in Nat
    BY <1>1, <2>0, RequeuedType
  <2>2. log[letters[k].orig] \in Entry
    BY <1>1, <2>1, EntryAt DEF LettersExist
  <2>3. log[letters[k].orig].job \in Jobs
    BY <2>2 DEF Entry
  <2>4. Promise!Publish
    BY <2>0, <2>1, <2>3, AddIsPublish DEF requeueAdds
  <2> QED BY <2>4 DEF Promise!Next
<1>4. CASE \E n \in DOMAIN log : Age(n)
  <2>0. PICK n \in DOMAIN log : Age(n)
    BY <1>4
  <2>1. log[n] \in Entry
    BY <1>1, EntryAt
  <2> DEFINE old == [log[n] EXCEPT !.state = "idle"]
  <2>2. old.state = "idle" /\ old \in Entry
    BY <2>1 DEF Entry
  <2>3. /\ log' = [log EXCEPT ![n] = old] /\ log[n].state = "pending"
        /\ UNCHANGED <<first, handled, letters>>
    BY <2>0 DEF Age
  <2> HIDE DEF old
  <2>4. DOMAIN log' = DOMAIN log /\ Len(log') = Len(log)
    BY <1>1, <2>2, <2>3, EntryType, LogType
  <2>5. Owed' = Owed
    BY <2>2, <2>3, <2>4, OwedSame
  <2> QED BY <2>3, <2>4, <2>5 DEF Unseen, Buried
<1>5. CASE \E t \in Threads : Step(t) \/ xackFails(t) \/ commandFails(t)
  BY <1>5, ThreadRefines
<1>6. CASE \/ \E i \in Instances : start(i) \/ startFails(i) \/ Crash(i)
           \/ \E a \in Admins :
                 (\E k \in dead : requeue(a, k)) \/ requeueRemoves(a) \/ requeueStops(a)
           \/ \E k \in dead : discard(k)
           \/ UNCHANGED vars
  BY <1>6 DEF start, ensureGroup, startFails, Crash, requeue, requeueRemoves, requeueStops,
              discard, redis, vars, Unseen, Owed, Buried
<1> QED BY <1>2, <1>3, <1>4, <1>5, <1>6 DEF Next

\* The adapter's single commands, with all their failures and interleavings, implement
\* the queue that forgets an entry only when it is handled, dead or trimmed.
THEOREM RefinesAtLeastOnce == Spec => ImplementsAtLeastOnce
<1> QED BY InitInv, NextInv, InitRefines, NextRefines, PTL
        DEF Spec, ImplementsAtLeastOnce, Promise!Spec
=============================================================================
