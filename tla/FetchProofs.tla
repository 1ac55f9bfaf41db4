----------------------------- MODULE FetchProofs -----------------------------
(***************************************************************************)
(* Proofs about the fetch layer, for any pool of workers, any hosts, any   *)
(* pages and any pauses.  The penalty a worker sleeps off is the one its   *)
(* host has: the lock it holds keeps everyone else from changing it, and   *)
(* that is what the invariant adds to the types.  At the end is what the   *)
(* liveness of a batch rests on besides the fairness of the threads.       *)
(***************************************************************************)
EXTENDS Fetch, TLAPS

\* What a sleeping worker waits for is the pause and the penalty of its host
\* as they stand, and what the refusals come to is at most that penalty.
GapIsCurrent ==
    /\ \A w \in Worker : worker[w].at = "sleeping" =>
            worker[w].need = Pause[HostAt(w)] + penalty[HostAt(w)]
    /\ \A h \in Host : owed[h] <= penalty[h]

\* Whatever is or is about to be on disk came from its host.
DiskWasAnswered ==
    /\ \A u \in Url : cache[u] # "none" => u \in answered
    /\ \A w \in Worker : worker[w].at = "writing" => worker[w].url \in answered

-----------------------------------------------------------------------------
(* Doubling keeps a penalty within its bounds and in order, halving within *)
(* its bounds.                                                             *)
LEMMA DoubledBounded ==
    ASSUME NEW p \in 0 .. BackoffMax
    PROVE  Doubled(p) \in 0 .. BackoffMax
  BY FetchAssumption DEF Doubled, Lesser, Greater

LEMMA DoubledMonotone ==
    ASSUME NEW p \in 0 .. BackoffMax, NEW q \in 0 .. BackoffMax, p <= q
    PROVE  Doubled(p) <= Doubled(q)
  BY FetchAssumption DEF Doubled, Lesser, Greater

LEMMA HalvedBounded ==
    ASSUME NEW p \in 0 .. BackoffMax
    PROVE  Halved(p) \in 0 .. BackoffMax
  BY FetchAssumption DEF Halved

(* A worker that is not idle has a page, the page a host, and the host a   *)
(* gap within the bound on time.                                           *)
LEMMA WorkerHasPage ==
    ASSUME FetchTypeOK, NEW w \in Worker, worker[w].at # "idle"
    PROVE  /\ worker[w] \in [at : Stage \ {"idle"}, url : Url,
                             attempt : 1 .. Attempts, need : 0 .. Long]
           /\ worker[w].url \in Url
           /\ HostAt(w) \in Host
           /\ Pause[HostAt(w)] + penalty[HostAt(w)] \in 0 .. Long
  <1>1. worker[w] \in [at : Stage \ {"idle"}, url : Url,
                       attempt : 1 .. Attempts, need : 0 .. Long]
    BY DEF FetchTypeOK, Idle
  <1>2. worker[w].url \in Url
    BY <1>1
  <1>3. HostAt(w) \in Host
    BY <1>2, FetchAssumption DEF HostAt
  <1>4. Pause[HostAt(w)] + penalty[HostAt(w)] \in 0 .. Long
    BY <1>3, FetchAssumption DEF FetchTypeOK
  <1>. QED  BY <1>1, <1>2, <1>3, <1>4

(* The types hold at the start and every step keeps them.                  *)
LEMMA TypeInit == Init => FetchTypeOK
  BY FetchAssumption DEF Init, FetchTypeOK, Idle, Contents

LEMMA TypeStep == FetchTypeOK /\ [Next]_vars => FetchTypeOK'
  <1>. SUFFICES ASSUME FetchTypeOK, [Next]_vars PROVE FetchTypeOK'
    OBVIOUS
  <1>. USE FetchAssumption
  <1>1. CASE Tick
    BY <1>1 DEF FetchTypeOK, Tick, Lesser, HostAt
  <1>2. CASE Kill
    BY <1>2 DEF FetchTypeOK, Kill, Idle
  <1>3. ASSUME NEW w \in Worker, Work(w) PROVE FetchTypeOK'
    <2>1. CASE TakeCached(w)
      BY <2>1 DEF FetchTypeOK, TakeCached, HostAt, Result
    <2>2. CASE Take(w)
      BY <2>2 DEF FetchTypeOK, Take, HostAt, Idle, Stage
    <2>3. CASE Enter(w)
      <3>. DEFINE h == HostAt(w)
      <3>1. /\ worker[w].at = "queued" /\ h \in Host /\ worker[w].url \in Url
            /\ worker[w].attempt \in 1 .. Attempts /\ Pause[h] + penalty[h] \in 0 .. Long
        BY <2>3, WorkerHasPage DEF Enter
      <3>2. /\ lock' \in [Host -> Worker \union {None}]
            /\ lock'[h] = w /\ \A g \in Host \ {h} : lock'[g] = lock[g]
        BY <2>3, <3>1 DEF FetchTypeOK, Enter
      <3>3. /\ worker'[w] = [worker[w] EXCEPT !.at = "sleeping",
                                             !.need = Pause[h] + penalty[h]]
            /\ \A v \in Worker \ {w} : worker'[v] = worker[v]
            /\ worker' = [worker EXCEPT ![w] = worker'[w]]
        BY <2>3 DEF FetchTypeOK, Enter
      <3>4. /\ worker'[w] \in [at : Stage \ {"idle"}, url : Url,
                               attempt : 1 .. Attempts, need : 0 .. Long]
            /\ worker'[w].at = "sleeping" /\ HostAt(w)' = h
        BY <3>1, <3>3, WorkerHasPage DEF Stage, HostAt
      <3>5. worker' \in [Worker -> {Idle} \union [at : Stage \ {"idle"}, url : Url,
                               attempt : 1 .. Attempts, need : 0 .. Long]]
        BY <3>3, <3>4 DEF FetchTypeOK
      <3>6. ASSUME NEW v \in Worker, NEW g \in Host
            PROVE  lock'[g] = v <=> worker'[v].at = "sleeping" /\ HostAt(v)' = g
        <4>1. CASE v = w
          BY <4>1, <2>3, <3>1, <3>2, <3>4 DEF FetchTypeOK, Enter
        <4>2. CASE v # w
          <5>1. worker'[v] = worker[v] /\ HostAt(v)' = HostAt(v)
            BY <4>2, <3>3 DEF HostAt
          <5>2. lock[g] = v <=> worker[v].at = "sleeping" /\ HostAt(v) = g
            BY DEF FetchTypeOK
          <5>3. lock[h] = None /\ None # v
            BY <2>3 DEF Enter
          <5>. QED  BY <4>2, <5>1, <5>2, <5>3, <3>2
        <4>. QED  BY <4>1, <4>2
      <3>. QED  BY <2>3, <3>2, <3>5, <3>6 DEF FetchTypeOK, Enter
    <2>4. CASE Leave(w)
      BY <2>4, WorkerHasPage DEF FetchTypeOK, Leave, Move, HostAt, Idle, Stage
    <2>5. CASE Answer(w)
      BY <2>5, WorkerHasPage DEF FetchTypeOK, Answer, Move, HostAt, Idle, Stage, Contents
    <2>6. CASE Gone(w)
      BY <2>6, WorkerHasPage DEF FetchTypeOK, Gone, Move, HostAt, Idle, Stage
    <2>7. CASE Forbid(w)
      BY <2>7, WorkerHasPage DEF FetchTypeOK, Forbid, Returns, HostAt, Idle, Result
    <2>8. CASE Refuse(w)
      BY <2>8, WorkerHasPage DEF FetchTypeOK, Refuse, Move, Returns, HostAt, Idle, Result, Stage
    <2>9. CASE CutShort(w)
      BY <2>9, WorkerHasPage DEF FetchTypeOK, CutShort, Returns, HostAt, Idle, Result
    <2>10. CASE Written(w)
      BY <2>10, WorkerHasPage
      DEF FetchTypeOK, Written, Move, Returns, HostAt, Idle, Result, Stage, Contents
    <2>11. CASE Penalise(w)
      BY <2>11, WorkerHasPage, DoubledBounded
      DEF FetchTypeOK, Penalise, HostAt, Idle, Stage
    <2>12. CASE Forgive(w)
      BY <2>12, WorkerHasPage, HalvedBounded
      DEF FetchTypeOK, Forgive, Returns, HostAt, Idle, Result
    <2>. QED
      BY <1>3, <2>1, <2>2, <2>3, <2>4, <2>5, <2>6, <2>7, <2>8, <2>9, <2>10, <2>11, <2>12
      DEF Work, Ask
  <1>4. CASE UNCHANGED vars
    BY <1>4 DEF FetchTypeOK, vars, HostAt
  <1>. QED  BY <1>1, <1>2, <1>3, <1>4 DEF Next

(* The fetch layer keeps its types through every interleaving, and a       *)
(* host's lock is held by exactly the worker that sleeps on it.            *)
THEOREM TypeCorrectness == Spec => []FetchTypeOK
  BY TypeInit, TypeStep, PTL DEF Spec

-----------------------------------------------------------------------------
(* The gap a sleeper waits for is the current one.  A worker begins to     *)
(* sleep on the gap as it is, and while it sleeps nobody else has the lock *)
(* under which the penalty changes.                                        *)
LEMMA GapInit == Init => GapIsCurrent
  BY FetchAssumption DEF Init, GapIsCurrent, Idle

\* A step that leaves both counts and does not begin a sleep keeps the gap.
LEMMA GapUntouched ==
    ASSUME FetchTypeOK, GapIsCurrent, penalty' = penalty, owed' = owed,
           \A v \in Worker : worker'[v].at = "sleeping" => worker'[v] = worker[v]
    PROVE  GapIsCurrent'
  BY DEF GapIsCurrent, HostAt

\* A step of w under the lock of its host, when nobody sleeps with it.
LEMMA GapPerHost ==
    ASSUME FetchTypeOK, GapIsCurrent, NEW w \in Worker, worker[w].at # "idle",
           lock[HostAt(w)] = None,
           \A g \in Host \ {HostAt(w)} : penalty'[g] = penalty[g] /\ owed'[g] = owed[g],
           owed'[HostAt(w)] <= penalty'[HostAt(w)],
           worker'[w].at # "sleeping",
           \A v \in Worker \ {w} : worker'[v] = worker[v]
    PROVE  GapIsCurrent'
  <1>1. HostAt(w) \in Host
    BY WorkerHasPage
  <1>2. ASSUME NEW v \in Worker, worker'[v].at = "sleeping"
        PROVE  worker'[v].need = Pause[HostAt(v)'] + penalty'[HostAt(v)']
    <2>1. v # w /\ worker'[v] = worker[v] /\ HostAt(v)' = HostAt(v)
      BY <1>2 DEF HostAt
    <2>2. HostAt(v) \in Host /\ lock[HostAt(v)] = v /\ None # v
      BY <1>2, <2>1, WorkerHasPage, FetchAssumption DEF FetchTypeOK
    <2>3. HostAt(v) # HostAt(w)
      BY <2>2
    <2>. QED  BY <1>2, <2>1, <2>2, <2>3 DEF GapIsCurrent
  <1>3. ASSUME NEW g \in Host PROVE owed'[g] <= penalty'[g]
    BY <1>1 DEF GapIsCurrent
  <1>. QED  BY <1>2, <1>3 DEF GapIsCurrent, HostAt

LEMMA GapStep == FetchTypeOK /\ GapIsCurrent /\ [Next]_vars => GapIsCurrent'
  <1>. SUFFICES ASSUME FetchTypeOK, GapIsCurrent, [Next]_vars PROVE GapIsCurrent'
    OBVIOUS
  <1>1. CASE Tick
    BY <1>1, GapUntouched DEF Tick
  <1>2. CASE Kill
    BY <1>2, FetchAssumption DEF Kill, GapIsCurrent, Idle
  <1>3. ASSUME NEW w \in Worker, Work(w) PROVE GapIsCurrent'
    <2>1. CASE TakeCached(w)
      BY <2>1, GapUntouched DEF TakeCached
    <2>2. CASE Take(w)
      BY <2>2, GapUntouched DEF Take, FetchTypeOK
    <2>3. CASE Enter(w)
      <3>1. /\ worker'[w].need = Pause[HostAt(w)] + penalty[HostAt(w)]
            /\ worker'[w].url = worker[w].url
        BY <2>3 DEF Enter, FetchTypeOK, Idle
      <3>2. \A v \in Worker \ {w} : worker'[v] = worker[v]
        BY <2>3 DEF Enter, FetchTypeOK
      <3>3. penalty' = penalty /\ owed' = owed
        BY <2>3 DEF Enter
      <3>. QED  BY <3>1, <3>2, <3>3 DEF GapIsCurrent, HostAt
    <2>4. CASE Leave(w)
      BY <2>4, GapUntouched DEF Leave, Move, FetchTypeOK, Idle
    <2>5. CASE Answer(w)
      BY <2>5, GapUntouched DEF Answer, Move, FetchTypeOK, Idle
    <2>6. CASE Gone(w)
      BY <2>6, GapUntouched DEF Gone, Move, FetchTypeOK, Idle
    <2>7. CASE Forbid(w)
      BY <2>7, GapUntouched DEF Forbid, Returns, FetchTypeOK, Idle
    <2>8. CASE Refuse(w)
      BY <2>8, GapUntouched DEF Refuse, Move, Returns, FetchTypeOK, Idle
    <2>9. CASE CutShort(w)
      BY <2>9, GapUntouched DEF CutShort, Returns, FetchTypeOK, Idle
    <2>10. CASE Written(w)
      BY <2>10, GapUntouched DEF Written, Move, Returns, FetchTypeOK, Idle
    <2>11. CASE Penalise(w)
      <3>. DEFINE h == HostAt(w)
      <3>1. worker[w].at # "idle" /\ h \in Host /\ lock[h] = None
        BY <2>11, WorkerHasPage DEF Penalise
      <3>2. penalty[h] \in 0 .. BackoffMax /\ owed[h] \in 0 .. BackoffMax
            /\ owed[h] <= penalty[h]
        BY <3>1 DEF FetchTypeOK, GapIsCurrent
      <3>3. penalty'[h] = Doubled(penalty[h]) /\ owed'[h] = Doubled(owed[h])
        BY <2>11, <3>1 DEF Penalise, FetchTypeOK
      <3>4. owed'[h] <= penalty'[h]
        BY <3>2, <3>3, DoubledMonotone
      <3>5. \A g \in Host \ {h} : penalty'[g] = penalty[g] /\ owed'[g] = owed[g]
        BY <2>11 DEF Penalise, FetchTypeOK
      <3>6. worker'[w].at # "sleeping" /\ \A v \in Worker \ {w} : worker'[v] = worker[v]
        BY <2>11 DEF Penalise, FetchTypeOK, Idle
      <3>. QED  BY <3>1, <3>4, <3>5, <3>6, GapPerHost
    <2>12. CASE Forgive(w)
      <3>. DEFINE h == HostAt(w)
      <3>1. worker[w].at # "idle" /\ h \in Host /\ lock[h] = None
        BY <2>12, WorkerHasPage DEF Forgive
      <3>2. owed'[h] = 0 /\ penalty'[h] = Halved(penalty[h])
        BY <2>12, <3>1 DEF Forgive, FetchTypeOK
      <3>3. owed'[h] <= penalty'[h]
        BY <3>1, <3>2, HalvedBounded DEF FetchTypeOK
      <3>4. \A g \in Host \ {h} : penalty'[g] = penalty[g] /\ owed'[g] = owed[g]
        BY <2>12 DEF Forgive, FetchTypeOK
      <3>5. worker'[w].at # "sleeping" /\ \A v \in Worker \ {w} : worker'[v] = worker[v]
        BY <2>12 DEF Forgive, Returns, FetchTypeOK, Idle
      <3>. QED  BY <3>1, <3>3, <3>4, <3>5, GapPerHost
    <2>. QED
      BY <1>3, <2>1, <2>2, <2>3, <2>4, <2>5, <2>6, <2>7, <2>8, <2>9, <2>10, <2>11, <2>12
      DEF Work, Ask
  <1>4. CASE UNCHANGED vars
    BY <1>4, GapUntouched DEF vars
  <1>. QED  BY <1>1, <1>2, <1>3, <1>4 DEF Next

(* No slot is granted before the pause of its host and all that the        *)
(* refusals since its last answer come to, whichever worker met them: only *)
(* Leave grants one, and it waited for the gap as it still is.             *)
THEOREM BackingOff == Spec => EveryoneBacksOff
  <1>1. FetchTypeOK /\ GapIsCurrent /\ [Next]_vars =>
            [\A w \in Worker : Grants(w) =>
                since[HostAt(w)] >= Pause[HostAt(w)] + owed[HostAt(w)]]_vars
    <2>. SUFFICES ASSUME FetchTypeOK, GapIsCurrent, Next, NEW w \in Worker, Grants(w)
                  PROVE  since[HostAt(w)] >= Pause[HostAt(w)] + owed[HostAt(w)]
      OBVIOUS
    <2>1. worker[w].at = "sleeping" /\ worker'[w].at = "asking"
      BY DEF Grants
    <2>2. ~Tick /\ ~Kill
      BY <2>1 DEF Tick, Kill, Idle
    <2>3. PICK v \in Worker : Work(v)
      BY <2>2 DEF Next
    <2>4. v = w
      BY <2>1, <2>3 DEF Work, Ask, FetchTypeOK, TakeCached, Take, Enter, Leave, Answer, Gone,
         Forbid, Refuse, CutShort, Written, Penalise, Forgive, Move, Returns
    <2>5. Leave(w)
      BY <2>1, <2>3, <2>4 DEF Work, Ask, TakeCached, Take, Enter, Answer, Gone, Forbid,
         Refuse, CutShort, Written, Penalise, Forgive
    <2>6. /\ HostAt(w) \in Host /\ since[HostAt(w)] >= worker[w].need
          /\ worker[w].need = Pause[HostAt(w)] + penalty[HostAt(w)]
          /\ owed[HostAt(w)] <= penalty[HostAt(w)]
      BY <2>1, <2>5, WorkerHasPage DEF Leave, GapIsCurrent
    <2>. QED  BY <2>6, FetchAssumption DEF FetchTypeOK
  <1>. QED  BY <1>1, TypeInit, TypeStep, GapInit, GapStep, PTL DEF Spec, EveryoneBacksOff

-----------------------------------------------------------------------------
(* What is on disk, and so what a fetch serves from there, its host once   *)
(* answered, through any kill: only an answer opens a file.                *)
LEMMA DiskInit == Init => DiskWasAnswered /\ ServedWasAnswered
  BY FetchAssumption DEF Init, DiskWasAnswered, ServedWasAnswered, Idle, Result

\* A step that opens no file and begins no fetch with one, and takes nothing
\* from the cache.
LEMMA DiskUntouched ==
    ASSUME FetchTypeOK, DiskWasAnswered, ServedWasAnswered,
           cache' = cache, answered' = answered,
           \A v \in Worker : worker'[v].at = "writing" => worker'[v] = worker[v],
           \A u \in Url : result'[u] \in {"cached", "cached_half"} => result'[u] = result[u]
    PROVE  DiskWasAnswered' /\ ServedWasAnswered'
  BY DEF DiskWasAnswered, ServedWasAnswered

LEMMA DiskStep ==
    FetchTypeOK /\ DiskWasAnswered /\ ServedWasAnswered /\ [Next]_vars
        => DiskWasAnswered' /\ ServedWasAnswered'
  <1>. SUFFICES ASSUME FetchTypeOK, DiskWasAnswered, ServedWasAnswered, [Next]_vars
                PROVE  DiskWasAnswered' /\ ServedWasAnswered'
    OBVIOUS
  <1>1. CASE Tick
    BY <1>1, DiskUntouched DEF Tick
  <1>2. CASE Kill
    BY <1>2, DiskUntouched, FetchAssumption DEF Kill, Idle, Result
  <1>3. ASSUME NEW w \in Worker, Work(w) PROVE DiskWasAnswered' /\ ServedWasAnswered'
    <2>1. CASE TakeCached(w)
      BY <2>1 DEF TakeCached, Served, DiskWasAnswered, ServedWasAnswered, FetchTypeOK
    <2>2. CASE Take(w)
      BY <2>2, DiskUntouched DEF Take, FetchTypeOK
    <2>3. CASE Enter(w)
      BY <2>3, DiskUntouched DEF Enter, FetchTypeOK, Idle
    <2>4. CASE Leave(w)
      BY <2>4, DiskUntouched DEF Leave, Move, FetchTypeOK, Idle
    <2>5. CASE Answer(w)
      <3>1. worker'[w].url = worker[w].url
            /\ \A v \in Worker \ {w} : worker'[v] = worker[v]
        BY <2>5 DEF Answer, Move, FetchTypeOK, Idle
      <3>2. answered' = answered \union {worker[w].url}
            /\ \A u \in Url \ {worker[w].url} : cache'[u] = cache[u]
        BY <2>5 DEF Answer, FetchTypeOK
      <3>. QED  BY <2>5, <3>1, <3>2 DEF Answer, DiskWasAnswered, ServedWasAnswered
    <2>6. CASE Gone(w)
      BY <2>6, DiskUntouched DEF Gone, Move, FetchTypeOK, Idle
    <2>7. CASE Forbid(w)
      BY <2>7, DiskUntouched DEF Forbid, Returns, FetchTypeOK, Idle
    <2>8. CASE Refuse(w)
      BY <2>8, DiskUntouched DEF Refuse, Move, Returns, FetchTypeOK, Idle
    <2>9. CASE CutShort(w)
      BY <2>9, DiskUntouched DEF CutShort, Returns, FetchTypeOK, Idle
    <2>10. CASE Written(w)
      <3>1. worker[w].url \in answered
        BY <2>10 DEF Written, DiskWasAnswered
      <3>2. answered' = answered
            /\ \A u \in Url \ {worker[w].url} : cache'[u] = cache[u]
        BY <2>10 DEF Written, FetchTypeOK
      <3>3. worker'[w].at # "writing" /\ \A v \in Worker \ {w} : worker'[v] = worker[v]
        BY <2>10 DEF Written, Move, Returns, FetchTypeOK, Idle
      <3>4. \A u \in Url : result'[u] \in {"cached", "cached_half"} => result'[u] = result[u]
        BY <2>10 DEF Written, Returns, FetchTypeOK
      <3>. QED  BY <3>1, <3>2, <3>3, <3>4 DEF DiskWasAnswered, ServedWasAnswered
    <2>11. CASE Penalise(w)
      BY <2>11, DiskUntouched DEF Penalise, FetchTypeOK, Idle
    <2>12. CASE Forgive(w)
      BY <2>12, DiskUntouched DEF Forgive, Returns, FetchTypeOK, Idle
    <2>. QED
      BY <1>3, <2>1, <2>2, <2>3, <2>4, <2>5, <2>6, <2>7, <2>8, <2>9, <2>10, <2>11, <2>12
      DEF Work, Ask
  <1>4. CASE UNCHANGED vars
    BY <1>4, DiskUntouched DEF vars
  <1>. QED  BY <1>1, <1>2, <1>3, <1>4 DEF Next

(* A refusal is never served from the cache, and nothing is that the host  *)
(* did not once answer, however the threads interleave and whenever the    *)
(* process is killed.                                                      *)
THEOREM CacheHonesty == Spec => []ServedWasAnswered
  BY TypeInit, TypeStep, DiskInit, DiskStep, PTL DEF Spec

-----------------------------------------------------------------------------
(* What BatchEnds rests on besides fairness, for any pool, pages, hosts    *)
(* and attempts: no page is lost between the batch and the workers, some   *)
(* worker may always move while a page has no result, and the moves left   *)
(* to a page only grow fewer.                                              *)

\* Worker w has page u in hand.
Has(w, u) == worker[w].at # "idle" /\ worker[w].url = u

\* A page with no result waits or is in one worker's hands; one with a result
\* is in nobody's, and nobody begins on it again (fetch_many).
PagesInHand ==
    /\ \A u \in Url : result[u] = None <=> u \in todo \/ \E w \in Worker : Has(w, u)
    /\ \A u \in todo : \A w \in Worker : ~Has(w, u)
    /\ \A u \in Url : \A v, w \in Worker : Has(v, u) /\ Has(w, u) => v = w

\* Worker w may take its next step, or sleeps and time may pass.
MayMove(w) ==
    \/ worker[w].at = "idle" /\ todo # {}
    \/ worker[w].at \in {"asking", "writing"}
    \/ worker[w].at \in {"queued", "penalising", "forgiving"} /\ lock[HostAt(w)] = None
    \/ /\ worker[w].at = "sleeping"
       /\ \/ since[HostAt(w)] >= worker[w].need
          \/ since[HostAt(w)] < Long

\* While a page has no result, somebody may move: whoever waits for a lock waits
\* for one who sleeps, and a sleep ends (_wait, under LOCKS).
SomebodyMayMove ==
    (\E u \in Url : result[u] = None) => \E w \in Worker : MayMove(w)

\* The steps worker w may still take on its page, at most: six to an attempt.
StepsOf(w) ==
    6 * (Attempts - worker[w].attempt)
        + CASE worker[w].at = "queued" -> 5
            [] worker[w].at = "sleeping" -> 4
            [] worker[w].at = "asking" -> 3
            [] worker[w].at \in {"writing", "penalising"} -> 2
            [] OTHER -> 1

StepsLeft(u) ==
    IF result[u] # None THEN 0
    ELSE IF u \in todo THEN 6 * Attempts
    ELSE StepsOf(CHOOSE w \in Worker : Has(w, u))

\* Until the process is killed, a result stands, no page is left more steps
\* than it had, and every step of a worker leaves some page fewer: a batch of
\* so many pages is done in six times as many steps for each attempt.
WorkRunsOut ==
    [][kills' = kills =>
        /\ \A u \in Url : result[u] # None => result'[u] = result[u]
        /\ \A u \in Url : StepsLeft(u)' <= StepsLeft(u)
        /\ (\E w \in Worker : Work(w)) => \E u \in Url : StepsLeft(u)' < StepsLeft(u)]_vars

\* What a step of a worker is to the batch: a page taken and answered from the
\* cache, a page taken up, a step nearer to its result, or its result.
Serves(w, u) ==
    /\ u \in todo /\ todo' = todo \ {u} /\ worker' = worker
    /\ \E r \in Result : result' = [result EXCEPT ![u] = r]

TakesUp(w, u) ==
    /\ u \in todo /\ todo' = todo \ {u} /\ result' = result /\ worker[w].at = "idle"
    /\ worker'[w].at = "queued" /\ worker'[w].url = u /\ worker'[w].attempt = 1
    /\ \A v \in Worker \ {w} : worker'[v] = worker[v]

Advances(w, u) ==
    /\ Has(w, u) /\ todo' = todo /\ result' = result
    /\ worker'[w].at # "idle" /\ worker'[w].url = u
    /\ StepsOf(w)' < StepsOf(w)
    /\ \A v \in Worker \ {w} : worker'[v] = worker[v]

Finishes(w, u) ==
    /\ Has(w, u) /\ todo' = todo /\ worker'[w] = Idle
    /\ \A v \in Worker \ {w} : worker'[v] = worker[v]
    /\ \E r \in Result : result' = [result EXCEPT ![u] = r]

WorksOn(w, u) == Serves(w, u) \/ TakesUp(w, u) \/ Advances(w, u) \/ Finishes(w, u)

\* A worker that moves on with its page, by its new stage.
LEMMA MoveAdvances ==
    ASSUME FetchTypeOK, NEW w \in Worker, NEW at \in Stage, Move(w, at),
           todo' = todo, result' = result,
           \/ worker[w].at = "sleeping" /\ at = "asking"
           \/ worker[w].at = "asking" /\ at \in {"writing", "forgiving", "penalising"}
           \/ worker[w].at = "writing" /\ at = "forgiving"
    PROVE  Advances(w, worker[w].url)
  <1>1. worker[w] \in [at : Stage \ {"idle"}, url : Url,
                       attempt : 1 .. Attempts, need : 0 .. Long]
    BY WorkerHasPage
  <1>2. /\ worker'[w] = [worker[w] EXCEPT !.at = at]
        /\ \A v \in Worker \ {w} : worker'[v] = worker[v]
    BY DEF Move, FetchTypeOK
  <1>3. /\ worker'[w].at = at /\ worker'[w].url = worker[w].url
        /\ worker'[w].attempt = worker[w].attempt /\ worker[w].attempt \in Nat
    BY <1>1, <1>2, FetchAssumption
  <1>4. StepsOf(w)' < StepsOf(w)
    BY <1>3, FetchAssumption DEF StepsOf
  <1>. QED  BY <1>2, <1>3, <1>4 DEF Advances, Has, Stage

LEMMA ReturnFinishes ==
    ASSUME FetchTypeOK, NEW w \in Worker, worker[w].at # "idle", NEW r \in Result,
           Returns(w, r), todo' = todo
    PROVE  Finishes(w, worker[w].url)
  <1>1. /\ worker'[w] = Idle /\ result' = [result EXCEPT ![worker[w].url] = r]
        /\ \A v \in Worker \ {w} : worker'[v] = worker[v]
    BY DEF Returns, FetchTypeOK
  <1>. QED  BY <1>1 DEF Finishes, Has

LEMMA WorkIsOnOnePage ==
    ASSUME FetchTypeOK, NEW w \in Worker, Work(w)
    PROVE  \E u \in Url : WorksOn(w, u)
  <1>1. worker[w].at # "idle" => worker[w].url \in Url
    BY WorkerHasPage
  <1>2. CASE TakeCached(w)
    <2>1. PICK u \in todo : /\ todo' = todo \ {u}
                            /\ result' = [result EXCEPT ![u] =
                                    IF cache[u] = "page" THEN "cached" ELSE "cached_half"]
      BY <1>2 DEF TakeCached
    <2>2. (IF cache[u] = "page" THEN "cached" ELSE "cached_half") \in Result
      BY DEF Result
    <2>3. Serves(w, u) /\ u \in Url
      BY <1>2, <2>1, <2>2 DEF Serves, TakeCached, FetchTypeOK
    <2>. QED  BY <2>3 DEF WorksOn
  <1>3. CASE Take(w)
    <2>1. PICK u \in todo : /\ todo' = todo \ {u}
                            /\ worker' = [worker EXCEPT ![w] =
                                 [at |-> "queued", url |-> u, attempt |-> 1, need |-> 0]]
      BY <1>3 DEF Take
    <2>2. TakesUp(w, u) /\ u \in Url
      BY <1>3, <2>1 DEF TakesUp, Take, FetchTypeOK
    <2>. QED  BY <2>2 DEF WorksOn
  <1>4. CASE Enter(w)
    <2>1. worker[w] \in [at : Stage \ {"idle"}, url : Url,
                         attempt : 1 .. Attempts, need : 0 .. Long]
      BY <1>4, WorkerHasPage DEF Enter
    <2>2. /\ worker'[w].at = "sleeping" /\ worker'[w].url = worker[w].url
          /\ worker'[w].attempt = worker[w].attempt /\ worker[w].attempt \in Nat
          /\ \A v \in Worker \ {w} : worker'[v] = worker[v]
      BY <1>4, <2>1, FetchAssumption DEF Enter, FetchTypeOK
    <2>3. StepsOf(w)' < StepsOf(w)
      BY <1>4, <2>2, FetchAssumption DEF StepsOf, Enter
    <2>4. Advances(w, worker[w].url)
      BY <1>4, <2>2, <2>3 DEF Advances, Has, Enter
    <2>. QED  BY <2>1, <2>4 DEF WorksOn
  <1>5. CASE Leave(w)
    BY <1>1, <1>5, MoveAdvances DEF Leave, WorksOn, Stage
  <1>6. CASE Answer(w)
    BY <1>1, <1>6, MoveAdvances DEF Answer, WorksOn, Stage
  <1>7. CASE Gone(w)
    BY <1>1, <1>7, MoveAdvances DEF Gone, WorksOn, Stage
  <1>8. CASE Forbid(w)
    BY <1>1, <1>8, ReturnFinishes DEF Forbid, WorksOn, Result
  <1>9. CASE Refuse(w)
    BY <1>1, <1>9, MoveAdvances, ReturnFinishes DEF Refuse, WorksOn, Stage, Result
  <1>10. CASE CutShort(w)
    BY <1>1, <1>10, ReturnFinishes DEF CutShort, WorksOn, Result
  <1>11. CASE Written(w)
    BY <1>1, <1>11, MoveAdvances, ReturnFinishes DEF Written, WorksOn, Stage, Result
  <1>12. CASE Penalise(w)
    <2>1. worker[w] \in [at : Stage \ {"idle"}, url : Url,
                         attempt : 1 .. Attempts, need : 0 .. Long]
      BY <1>12, WorkerHasPage DEF Penalise
    <2>2. /\ worker'[w].at = "queued" /\ worker'[w].url = worker[w].url
          /\ worker'[w].attempt = worker[w].attempt + 1 /\ worker[w].attempt \in Nat
          /\ \A v \in Worker \ {w} : worker'[v] = worker[v]
      BY <1>12, <2>1, FetchAssumption DEF Penalise, FetchTypeOK
    <2>3. StepsOf(w)' < StepsOf(w)
      BY <1>12, <2>2, FetchAssumption DEF StepsOf, Penalise
    <2>4. Advances(w, worker[w].url)
      BY <1>12, <2>2, <2>3 DEF Advances, Has, Penalise
    <2>. QED  BY <2>1, <2>4 DEF WorksOn
  <1>13. CASE Forgive(w)
    <2>1. (IF cache[worker[w].url] = "page" THEN "answered" ELSE "absent") \in Result
      BY DEF Result
    <2>. QED  BY <1>1, <1>13, <2>1, ReturnFinishes DEF Forgive, WorksOn
  <1>. QED
    BY <1>2, <1>3, <1>4, <1>5, <1>6, <1>7, <1>8, <1>9, <1>10, <1>11, <1>12, <1>13
    DEF Work, Ask

LEMMA HandInit == Init => PagesInHand
  BY DEF Init, PagesInHand, Has, Idle

\* A step on a page keeps every page in one hand.
LEMMA WorkKeepsHands ==
    ASSUME FetchTypeOK, PagesInHand, NEW w \in Worker, NEW u \in Url, WorksOn(w, u)
    PROVE  PagesInHand'
  <1>1. /\ None \notin Result /\ result \in [Url -> Result \union {None}]
        /\ todo \subseteq Url
    BY FetchAssumption DEF FetchTypeOK
  <1>2. CASE Serves(w, u)
    <2>1. PICK r \in Result : result' = [result EXCEPT ![u] = r]
      BY <1>2 DEF Serves
    <2>2. \A p \in Url : result'[p] = IF p = u THEN r ELSE result[p]
      BY <1>1, <2>1
    <2>3. \A v \in Worker, p \in Url : Has(v, p)' <=> Has(v, p)
      BY <1>2 DEF Serves, Has
    <2>4. todo' = todo \ {u} /\ u \in todo
      BY <1>2 DEF Serves
    <2>. QED  BY <1>1, <2>2, <2>3, <2>4 DEF PagesInHand
  <1>3. CASE TakesUp(w, u)
    <2>1. \A v \in Worker, p \in Url : Has(v, p)' <=> IF v = w THEN p = u ELSE Has(v, p)
      BY <1>3 DEF TakesUp, Has
    <2>2. todo' = todo \ {u} /\ u \in todo /\ result' = result /\ \A p \in Url : ~Has(w, p)
      BY <1>3 DEF TakesUp, Has
    <2>. QED  BY <1>1, <2>1, <2>2 DEF PagesInHand
  <1>4. CASE Advances(w, u)
    <2>1. \A v \in Worker, p \in Url : Has(v, p)' <=> Has(v, p)
      BY <1>4 DEF Advances, Has
    <2>. QED  BY <1>1, <1>4, <2>1 DEF PagesInHand, Advances
  <1>5. CASE Finishes(w, u)
    <2>1. PICK r \in Result : result' = [result EXCEPT ![u] = r]
      BY <1>5 DEF Finishes
    <2>2. \A p \in Url : result'[p] = IF p = u THEN r ELSE result[p]
      BY <1>1, <2>1
    <2>3. \A v \in Worker, p \in Url : Has(v, p)' <=> v # w /\ Has(v, p)
      BY <1>5 DEF Finishes, Has, Idle
    <2>4. todo' = todo /\ Has(w, u) /\ \A p \in Url : Has(w, p) => p = u
      BY <1>5 DEF Finishes, Has
    <2>. QED  BY <1>1, <2>2, <2>3, <2>4 DEF PagesInHand
  <1>. QED  BY <1>2, <1>3, <1>4, <1>5 DEF WorksOn

LEMMA HandStep == FetchTypeOK /\ PagesInHand /\ [Next]_vars => PagesInHand'
  <1>. SUFFICES ASSUME FetchTypeOK, PagesInHand, [Next]_vars PROVE PagesInHand'
    OBVIOUS
  <1>1. CASE Tick
    BY <1>1 DEF Tick, PagesInHand, Has
  <1>2. CASE Kill
    BY <1>2 DEF Kill, PagesInHand, Has, Idle
  <1>3. ASSUME NEW w \in Worker, Work(w) PROVE PagesInHand'
    BY <1>3, WorkIsOnOnePage, WorkKeepsHands
  <1>4. CASE UNCHANGED vars
    BY <1>4 DEF vars, PagesInHand, Has
  <1>. QED  BY <1>1, <1>2, <1>3, <1>4 DEF Next

(* No page falls between the batch and the pool, and none is fetched by    *)
(* two workers at once.                                                    *)
THEOREM NoPageIsLost == Spec => []PagesInHand
  BY TypeInit, TypeStep, HandInit, HandStep, PTL DEF Spec

(* The locks, and the sleeps with them held, leave somebody to move while  *)
(* a page has no result, in a pool that has a thread.                      *)
THEOREM NobodyIsStuck == ASSUME Worker # {} PROVE Spec => []SomebodyMayMove
  <1>1. FetchTypeOK /\ PagesInHand => SomebodyMayMove
    <2>. SUFFICES ASSUME FetchTypeOK, PagesInHand,
                         NEW u \in Url, result[u] = None
                  PROVE  \E w \in Worker : MayMove(w)
      BY DEF SomebodyMayMove
    <2>1. CASE \E w \in Worker : worker[w].at # "idle"
      <3>1. PICK w \in Worker : worker[w].at # "idle"
        BY <2>1
      <3>2. worker[w].at \in Stage \ {"idle"} /\ HostAt(w) \in Host
        BY <3>1, WorkerHasPage
      <3>3. CASE lock[HostAt(w)] = None /\ worker[w].at # "sleeping"
        BY <3>2, <3>3 DEF MayMove, Stage
      <3>4. ASSUME NEW v \in Worker, worker[v].at = "sleeping" PROVE MayMove(v)
        <4>1. worker[v].need \in 0 .. Long /\ since[HostAt(v)] \in 0 .. Long
          BY <3>4, WorkerHasPage DEF FetchTypeOK
        <4>2. since[HostAt(v)] >= worker[v].need \/ since[HostAt(v)] < Long
          BY <4>1, FetchAssumption
        <4>. QED  BY <3>4, <4>2 DEF MayMove
      <3>5. CASE lock[HostAt(w)] # None
        <4>1. PICK v \in Worker : lock[HostAt(w)] = v
          BY <3>2, <3>5 DEF FetchTypeOK
        <4>2. worker[v].at = "sleeping"
          BY <3>2, <4>1 DEF FetchTypeOK
        <4>. QED  BY <3>4, <4>2
      <3>. QED  BY <3>3, <3>4, <3>5
    <2>2. CASE \A w \in Worker : worker[w].at = "idle"
      <3>1. u \in todo
        BY <2>2 DEF PagesInHand, Has
      <3>. QED  BY <2>2, <3>1 DEF MayMove
    <2>. QED  BY <2>1, <2>2
  <1>. QED  BY <1>1, TypeInit, TypeStep, HandInit, HandStep, PTL DEF Spec

\* The steps left to a page: none once it has its result, and those of the
\* worker that has it in hand.
StepsAreCounted ==
    \A u \in Url :
        /\ result[u] # None => StepsLeft(u) = 0
        /\ u \in todo => StepsLeft(u) = 6 * Attempts
        /\ \A w \in Worker : Has(w, u) =>
               StepsLeft(u) = StepsOf(w) /\ StepsOf(w) \in 1 .. 6 * Attempts - 1
        /\ StepsLeft(u) \in Nat

LEMMA StepsCounted == FetchTypeOK /\ PagesInHand => StepsAreCounted
  <1>. SUFFICES ASSUME FetchTypeOK, PagesInHand, NEW u \in Url
                PROVE  /\ result[u] # None => StepsLeft(u) = 0
                       /\ u \in todo => StepsLeft(u) = 6 * Attempts
                       /\ \A w \in Worker : Has(w, u) =>
                              /\ StepsLeft(u) = StepsOf(w)
                              /\ StepsOf(w) \in 1 .. 6 * Attempts - 1
                       /\ StepsLeft(u) \in Nat
    BY DEF StepsAreCounted
  <1>1. result[u] # None => StepsLeft(u) = 0
    BY DEF StepsLeft
  <1>2. u \in todo => StepsLeft(u) = 6 * Attempts
    BY DEF StepsLeft, PagesInHand
  <1>3. ASSUME NEW w \in Worker, Has(w, u)
        PROVE  StepsLeft(u) = StepsOf(w) /\ StepsOf(w) \in 1 .. 6 * Attempts - 1
    <2>1. result[u] = None /\ u \notin todo /\ \A v \in Worker : Has(v, u) => v = w
      BY <1>3 DEF PagesInHand
    <2>2. (CHOOSE v \in Worker : Has(v, u)) = w
      BY <1>3, <2>1
    <2>3. StepsLeft(u) = StepsOf(w)
      BY <2>1, <2>2 DEF StepsLeft
    <2>4. worker[w].attempt \in 1 .. Attempts
      BY <1>3, WorkerHasPage DEF Has
    <2>5. StepsOf(w) \in 1 .. 6 * Attempts - 1
      BY <2>4, FetchAssumption DEF StepsOf
    <2>. QED  BY <2>3, <2>5
  <1>4. StepsLeft(u) \in Nat
    <2>1. result[u] # None \/ u \in todo \/ \E w \in Worker : Has(w, u)
      BY DEF PagesInHand
    <2>. QED  BY <1>1, <1>2, <1>3, <2>1, FetchAssumption
  <1>. QED  BY <1>1, <1>2, <1>3, <1>4

LEMMA StepsCountedNext == FetchTypeOK' /\ PagesInHand' => StepsAreCounted'
  BY StepsCounted, PTL

\* What a step on page u leaves of it, and of every other.
LEMMA WorkLessens ==
    ASSUME FetchTypeOK, PagesInHand, FetchTypeOK', PagesInHand',
           NEW w \in Worker, NEW u \in Url, WorksOn(w, u)
    PROVE  /\ StepsLeft(u)' < StepsLeft(u)
           /\ \A p \in Url \ {u} : StepsLeft(p)' = StepsLeft(p)
           /\ \A p \in Url : result[p] # None => result'[p] = result[p]
  <1>. USE FetchAssumption
  <1>a. StepsAreCounted /\ StepsAreCounted'
    BY StepsCounted, StepsCountedNext
  <1>0. None \notin Result /\ result \in [Url -> Result \union {None}]
    BY DEF FetchTypeOK
  <1>1. /\ \A p \in Url \ {u} : result'[p] = result[p] /\ (p \in todo' <=> p \in todo)
        /\ \A p \in Url \ {u}, v \in Worker :
               /\ Has(v, p)' <=> Has(v, p)
               /\ Has(v, p) => worker'[v] = worker[v]
        /\ result[u] = None
    <2>1. CASE Serves(w, u)
      BY <1>0, <2>1 DEF Serves, Has, PagesInHand
    <2>2. CASE TakesUp(w, u)
      BY <2>2 DEF TakesUp, Has, PagesInHand
    <2>3. CASE Advances(w, u)
      BY <2>3 DEF Advances, Has, PagesInHand
    <2>4. CASE Finishes(w, u)
      BY <1>0, <2>4 DEF Finishes, Has, PagesInHand, Idle
    <2>. QED  BY <2>1, <2>2, <2>3, <2>4 DEF WorksOn
  <1>2. ASSUME NEW p \in Url \ {u} PROVE StepsLeft(p)' = StepsLeft(p)
    <2>1. CASE result[p] # None
      BY <1>1, <2>1, <1>a DEF StepsAreCounted
    <2>2. CASE p \in todo
      BY <1>1, <2>2, <1>a DEF StepsAreCounted
    <2>3. ASSUME NEW v \in Worker, Has(v, p) PROVE StepsLeft(p)' = StepsLeft(p)
      <3>1. StepsOf(v)' = StepsOf(v) /\ Has(v, p)'
        BY <1>1, <2>3 DEF StepsOf
      <3>. QED  BY <2>3, <3>1, <1>a DEF StepsAreCounted
    <2>. QED  BY <2>1, <2>2, <2>3 DEF PagesInHand
  <1>3. StepsLeft(u)' < StepsLeft(u)
    <2>1. CASE Serves(w, u)
      <3>1. result'[u] # None /\ u \in todo
        BY <1>0, <2>1 DEF Serves
      <3>2. StepsLeft(u)' = 0 /\ StepsLeft(u) = 6 * Attempts
        BY <3>1, <1>a DEF StepsAreCounted
      <3>. QED  BY <3>2
    <2>2. CASE TakesUp(w, u)
      <3>1. Has(w, u)' /\ u \in todo
        BY <2>2 DEF TakesUp, Has
      <3>2. /\ StepsLeft(u)' = StepsOf(w)' /\ StepsOf(w)' \in 1 .. 6 * Attempts - 1
            /\ StepsLeft(u) = 6 * Attempts
        BY <3>1, <1>a DEF StepsAreCounted
      <3>. QED  BY <3>2
    <2>3. CASE Advances(w, u)
      <3>1. Has(w, u)' /\ Has(w, u) /\ StepsOf(w)' < StepsOf(w)
        BY <2>3 DEF Advances, Has
      <3>2. StepsLeft(u)' = StepsOf(w)' /\ StepsLeft(u) = StepsOf(w)
        BY <3>1, <1>a DEF StepsAreCounted
      <3>. QED  BY <3>1, <3>2
    <2>4. CASE Finishes(w, u)
      <3>1. result'[u] # None /\ Has(w, u)
        BY <1>0, <2>4 DEF Finishes
      <3>2. /\ StepsLeft(u)' = 0 /\ StepsLeft(u) = StepsOf(w)
            /\ StepsOf(w) \in 1 .. 6 * Attempts - 1
        BY <3>1, <1>a DEF StepsAreCounted
      <3>. QED  BY <3>2
    <2>. QED  BY <2>1, <2>2, <2>3, <2>4 DEF WorksOn
  <1>. QED  BY <1>1, <1>2, <1>3

(* A batch that is not killed asks for no page for ever: the steps its     *)
(* workers may take are numbered, whatever the hosts answer.               *)
THEOREM WorkIsBounded == Spec => WorkRunsOut
  <1>. DEFINE Runs ==
         kills' = kills =>
            /\ \A u \in Url : result[u] # None => result'[u] = result[u]
            /\ \A u \in Url : StepsLeft(u)' <= StepsLeft(u)
            /\ (\E w \in Worker : Work(w)) => \E u \in Url : StepsLeft(u)' < StepsLeft(u)
  <1>1. FetchTypeOK /\ PagesInHand /\ FetchTypeOK' /\ PagesInHand' /\ [Next]_vars => [Runs]_vars
    <2>. SUFFICES ASSUME FetchTypeOK, PagesInHand, FetchTypeOK', PagesInHand', Next,
                         kills' = kills
                  PROVE  Runs
      OBVIOUS
    <2>1. \A u \in Url : StepsLeft(u) \in Nat /\ StepsLeft(u)' \in Nat
      BY StepsCounted, StepsCountedNext DEF StepsAreCounted
    <2>2. ASSUME NEW w \in Worker, Work(w) PROVE Runs
      <3>1. PICK u \in Url : WorksOn(w, u)
        BY <2>2, WorkIsOnOnePage
      <3>2. /\ StepsLeft(u)' < StepsLeft(u)
            /\ \A p \in Url \ {u} : StepsLeft(p)' = StepsLeft(p)
            /\ \A p \in Url : result[p] # None => result'[p] = result[p]
        BY <3>1, WorkLessens
      <3>3. ASSUME NEW p \in Url PROVE StepsLeft(p)' <= StepsLeft(p)
        BY <2>1, <3>2
      <3>. QED  BY <3>2, <3>3
    <2>3. CASE ~ \E w \in Worker : Work(w)
      <3>1. Tick
        BY <2>3 DEF Next, Kill, FetchTypeOK
      <3>2. \A u \in Url : StepsLeft(u)' = StepsLeft(u) /\ result'[u] = result[u]
        BY <3>1 DEF Tick, StepsLeft, StepsOf, Has
      <3>. QED  BY <2>1, <2>3, <3>2
    <2>. QED  BY <2>2, <2>3
  <1>. QED
    BY <1>1, TypeInit, TypeStep, HandInit, HandStep, PTL DEF Spec, WorkRunsOut
=============================================================================
