-------------------------------- MODULE Fetch --------------------------------
(***************************************************************************)
(* The fetch layer every adapter shares, adapters/net.py: a batch of pages *)
(* fetched by a pool of worker threads, a pause owed to each host, a       *)
(* penalty a host earns by refusing, five attempts at what says "not now", *)
(* and a cache of pages on disk.                                           *)
(*                                                                         *)
(* A host's lock is held over the gap before a request (a worker sleeps    *)
(* with it) and over each change of the penalty, and released before the   *)
(* request is made.  Time is kept per host, as how long ago its slot was   *)
(* last granted, up to Long, past which it no longer matters.              *)
(***************************************************************************)
EXTENDS Integers, FiniteSets

CONSTANTS
    Worker,     \* the threads of the pool
    Url,        \* the pages the batch asks for
    Host,
    HostOf,     \* HostOf[u]: the host that serves u
    Pause,      \* Pause[h]: the gap owed to h, PAUSE unless set_pause raised it
    BackoffMin, \* the first penalty
    BackoffMax, \* the largest
    Trifle,     \* a penalty below this is dropped when it is halved
    Attempts,   \* how often one fetch asks, the first time included
    Binary,     \* the pages asked for as bytes
    Long,       \* a time beyond any gap the layer asks for
    MaxKills,   \* bound on how often the process is killed and run again
    None

VARIABLES
    since,    \* since[h]: the time since the slot of h was last granted
    penalty,  \* penalty[h]: what h has earned by refusing
    lock,     \* lock[h]: the worker that holds the lock of h, or None
    worker,   \* worker[w]: the fetch w is in the middle of
    todo,     \* the pages no worker has begun on
    result,   \* result[u]: what fetch_many holds for u
    cache,    \* cache[u]: what the file of u holds
    answered, \* the pages whose host has answered (history)
    owed,     \* owed[h]: what the refusals since its last answer come to (history)
    kills     \* how often the process has been killed (bounded)

vars == <<since, penalty, lock, worker, todo, result, cache, answered, owed, kills>>

Result == {"answered", "bytes", "absent", "refused", "raised", "cached", "cached_half"}
Contents == {"none", "stale", "page", "half"}

ASSUME FetchAssumption ==
    /\ HostOf \in [Url -> Host]
    /\ Pause \in [Host -> Nat]
    /\ BackoffMin \in Nat /\ BackoffMax \in Nat /\ BackoffMin <= BackoffMax
    /\ Long \in Nat /\ \A h \in Host : Pause[h] + BackoffMax <= Long
    /\ Trifle \in Nat /\ Attempts \in Nat \ {0} /\ MaxKills \in Nat
    /\ Binary \subseteq Url
    /\ None \notin Worker \union Result

Stage == {"idle", "queued", "sleeping", "asking", "writing", "forgiving", "penalising"}
Idle == [at |-> "idle", url |-> None, attempt |-> 0, need |-> 0]

HostAt(w) == HostOf[worker[w].url]
Move(w, at) == worker' = [worker EXCEPT ![w].at = at]
Returns(w, r) ==
    /\ result' = [result EXCEPT ![worker[w].url] = r]
    /\ worker' = [worker EXCEPT ![w] = Idle]

\* The types, and that a lock is held exactly by the worker that sleeps on it.
FetchTypeOK ==
    /\ since \in [Host -> 0 .. Long]
    /\ penalty \in [Host -> 0 .. BackoffMax] /\ owed \in [Host -> 0 .. BackoffMax]
    /\ lock \in [Host -> Worker \union {None}]
    /\ worker \in [Worker ->
            {Idle} \union [at : Stage \ {"idle"}, url : Url,
                           attempt : 1 .. Attempts, need : 0 .. Long]]
    /\ \A w \in Worker, h \in Host :
            lock[h] = w <=> worker[w].at = "sleeping" /\ HostAt(w) = h
    /\ todo \subseteq Url /\ answered \subseteq Url
    /\ result \in [Url -> Result \union {None}]
    /\ cache \in [Url -> Contents]
    /\ kills \in 0 .. MaxKills

-----------------------------------------------------------------------------
(* fetch_many hands a page to a worker; fetch looks in the cache first.    *)

Served(u) == cache[u] \in {"page", "half"}

TakeCached(w) ==
    /\ worker[w].at = "idle"
    /\ \E u \in todo :
        /\ Served(u)
        /\ todo' = todo \ {u}
        /\ result' = [result EXCEPT ![u] =
                        IF cache[u] = "page" THEN "cached" ELSE "cached_half"]
    /\ UNCHANGED <<since, penalty, lock, worker, cache, answered, owed, kills>>

Take(w) ==
    /\ worker[w].at = "idle"
    /\ \E u \in todo :
        /\ ~Served(u)
        /\ todo' = todo \ {u}
        /\ worker' = [worker EXCEPT ![w] =
                        [at |-> "queued", url |-> u, attempt |-> 1, need |-> 0]]
    /\ UNCHANGED <<since, penalty, lock, result, cache, answered, owed, kills>>

-----------------------------------------------------------------------------
(* _wait: the slot of the host.                                            *)

\* Mutant: the gap is read before the lock is had, by whoever queues for it.
EnterWithStaleGap(w) ==
    /\ worker[w].at = "queued"
    /\ \/ /\ worker[w].need = 0
          /\ worker' = [worker EXCEPT ![w].need = Pause[HostAt(w)] + penalty[HostAt(w)]]
          /\ UNCHANGED lock
       \/ /\ worker[w].need # 0 /\ lock[HostAt(w)] = None
          /\ lock' = [lock EXCEPT ![HostAt(w)] = w]
          /\ Move(w, "sleeping")
    /\ UNCHANGED <<since, penalty, todo, result, cache, answered, owed, kills>>

Enter(w) ==
    /\ worker[w].at = "queued"
    /\ lock[HostAt(w)] = None
    /\ lock' = [lock EXCEPT ![HostAt(w)] = w]
    /\ worker' = [worker EXCEPT ![w].at = "sleeping",
                                ![w].need = Pause[HostAt(w)] + penalty[HostAt(w)]]
    /\ UNCHANGED <<since, penalty, todo, result, cache, answered, owed, kills>>

Leave(w) ==
    /\ worker[w].at = "sleeping"
    /\ since[HostAt(w)] >= worker[w].need
    /\ since' = [since EXCEPT ![HostAt(w)] = 0]
    /\ lock' = [lock EXCEPT ![HostAt(w)] = None]
    /\ Move(w, "asking")
    /\ UNCHANGED <<penalty, todo, result, cache, answered, owed, kills>>

-----------------------------------------------------------------------------
(* _once, and what fetch makes of it.                                      *)

\* The host answers.  The file is opened, and so emptied, before it is written.
Answer(w) ==
    /\ worker[w].at = "asking"
    /\ cache' = [cache EXCEPT ![worker[w].url] = "half"]
    /\ answered' = answered \union {worker[w].url}
    /\ Move(w, "writing")
    /\ UNCHANGED <<since, penalty, lock, todo, result, owed, kills>>

\* A page asked for as bytes has no text, which is not an answer to outcome();
\* its 200 is no status to ask again at, so the fetch ends there.
Written(w) ==
    /\ worker[w].at = "writing"
    /\ cache' = [cache EXCEPT ![worker[w].url] = "page"]
    /\ IF worker[w].url \in Binary THEN Returns(w, "bytes")
       ELSE /\ Move(w, "forgiving")
            /\ UNCHANGED result
    /\ UNCHANGED <<since, penalty, lock, todo, answered, owed, kills>>

\* 404 and 410: an answer too, and no page.
Gone(w) ==
    /\ worker[w].at = "asking"
    /\ Move(w, "forgiving")
    /\ UNCHANGED <<since, penalty, lock, todo, result, cache, answered, owed, kills>>

\* A status nobody retries, a 403 say.
Forbid(w) ==
    /\ worker[w].at = "asking"
    /\ Returns(w, "refused")
    /\ UNCHANGED <<since, penalty, lock, todo, cache, answered, owed, kills>>

\* A status that says "not now", or a network that says nothing.
\* Mutant: a refusal is kept where a page would be.
RefuseCached(w) ==
    /\ worker[w].at = "asking"
    /\ cache' = [cache EXCEPT ![worker[w].url] = "page"]
    /\ IF worker[w].attempt < Attempts THEN Move(w, "penalising") /\ UNCHANGED result
       ELSE Returns(w, "refused")
    /\ UNCHANGED <<since, penalty, lock, todo, answered, owed, kills>>

Refuse(w) ==
    /\ worker[w].at = "asking"
    /\ IF worker[w].attempt < Attempts THEN Move(w, "penalising") /\ UNCHANGED result
       ELSE Returns(w, "refused")
    /\ UNCHANGED <<since, penalty, lock, todo, cache, answered, owed, kills>>

\* The body is cut short, or the reply is no HTTP: http.client raises what
\* _once does not catch, and fetch_many keeps it as a result without a status.
CutShort(w) ==
    /\ worker[w].at = "asking"
    /\ Returns(w, "raised")
    /\ UNCHANGED <<since, penalty, lock, todo, cache, answered, owed, kills>>

-----------------------------------------------------------------------------
(* The penalty, changed under the host's lock.                             *)

Greater(a, b) == IF a >= b THEN a ELSE b
Lesser(a, b) == IF a <= b THEN a ELSE b
Doubled(p) == Lesser(Greater(2 * p, BackoffMin), BackoffMax)
Halved(p) == IF p < Trifle THEN 0 ELSE p \div 2

\* Mutant: the lock is left held by the worker that penalised.
PenaliseHoldingLock(w) ==
    LET h == HostAt(w) IN
    /\ worker[w].at = "penalising" /\ lock[h] = None
    /\ penalty' = [penalty EXCEPT ![h] = Doubled(@)]
    /\ owed' = [owed EXCEPT ![h] = Doubled(@)]
    /\ worker' = [worker EXCEPT ![w].at = "queued", ![w].attempt = @ + 1]
    /\ lock' = [lock EXCEPT ![h] = w]
    /\ UNCHANGED <<since, todo, result, cache, answered, kills>>

Penalise(w) ==
    LET h == HostAt(w) IN
    /\ worker[w].at = "penalising"
    /\ lock[h] = None
    /\ penalty' = [penalty EXCEPT ![h] = Doubled(@)]
    /\ owed' = [owed EXCEPT ![h] = Doubled(@)]
    /\ worker' = [worker EXCEPT ![w].at = "queued", ![w].attempt = @ + 1]
    /\ UNCHANGED <<since, lock, todo, result, cache, answered, kills>>

Forgive(w) ==
    LET h == HostAt(w) IN
    /\ worker[w].at = "forgiving"
    /\ lock[h] = None
    /\ penalty' = [penalty EXCEPT ![h] = Halved(@)]
    /\ owed' = [owed EXCEPT ![h] = 0]
    /\ Returns(w, IF cache[worker[w].url] = "page" THEN "answered" ELSE "absent")
    /\ UNCHANGED <<since, lock, todo, cache, answered, kills>>

-----------------------------------------------------------------------------
Tick ==
    /\ \E h \in Host : since[h] < Long
    /\ since' = [h \in Host |-> Lesser(since[h] + 1, Long)]
    /\ UNCHANGED <<penalty, lock, worker, todo, result, cache, answered, owed, kills>>

\* The process is killed and the batch is run again: the cache is what is left.
Kill ==
    /\ kills < MaxKills
    /\ kills' = kills + 1
    /\ since' = [h \in Host |-> Long]
    /\ penalty' = [h \in Host |-> 0]
    /\ owed' = [h \in Host |-> 0]
    /\ lock' = [h \in Host |-> None]
    /\ worker' = [w \in Worker |-> Idle]
    /\ todo' = Url
    /\ result' = [u \in Url |-> None]
    /\ UNCHANGED <<cache, answered>>

Init ==
    /\ since = [h \in Host |-> Long]
    /\ penalty = [h \in Host |-> 0]
    /\ owed = [h \in Host |-> 0]
    /\ lock = [h \in Host |-> None]
    /\ worker = [w \in Worker |-> Idle]
    /\ todo = Url
    /\ result = [u \in Url |-> None]
    /\ cache \in [Url -> {"none", "stale"}]
    /\ answered = {u \in Url : cache[u] # "none"}
    /\ kills = 0

Ask(w) == Answer(w) \/ Gone(w) \/ Forbid(w) \/ Refuse(w) \/ CutShort(w)

Work(w) ==
    \/ TakeCached(w) \/ Take(w)
    \/ Enter(w) \/ Leave(w)
    \/ Ask(w) \/ Written(w)
    \/ Penalise(w) \/ Forgive(w)

Next == Tick \/ Kill \/ \E w \in Worker : Work(w)

\* A thread that can run does, a request ends (TIMEOUT) and time passes.
Fairness == WF_vars(Tick) /\ \A w \in Worker : WF_vars(Work(w))

Spec == Init /\ [][Next]_vars
FairSpec == Spec /\ Fairness

-----------------------------------------------------------------------------
(* A penalty a worker records is paid by every other worker queued on the  *)
(* host: no slot is granted before the pause and all that the refusals     *)
(* since the host's last answer come to have gone by, whoever met them and *)
(* whoever asks now.                                                       *)
Grants(w) == worker[w].at = "sleeping" /\ worker'[w].at = "asking"

EveryoneBacksOff ==
    [][\A w \in Worker :
        Grants(w) => since[HostAt(w)] >= Pause[HostAt(w)] + owed[HostAt(w)]]_vars

(* A refusal is never cached: what a fetch serves from the cache is what   *)
(* the host once answered, whole or not, after any kill between two steps. *)
ServedWasAnswered ==
    \A u \in Url : result[u] \in {"cached", "cached_half"} => u \in answered

(* Whatever the hosts say and however often they refuse, every page of the *)
(* batch comes to a result: the locks, and the sleeps with them held, do   *)
(* not keep a worker from its host for ever.                               *)
BatchEnds == <>[](\A u \in Url : result[u] # None)
=============================================================================
