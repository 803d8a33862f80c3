------------------------------ MODULE RankingHook ------------------------------
(***************************************************************************)
(* The playground's ranking (apps/web/src/pages/playground): the hook on   *)
(* the page (useRanking.ts) and the Web Worker it posts numbered requests  *)
(* to (rank.worker.ts, score-wasm.ts), each a single-threaded event loop.  *)
(* A render paints a new input before its effects run; the worker's        *)
(* handler is async, so a superseded run goes on beside the current one;   *)
(* the worker may fail to load, or throw outside any run, and React may    *)
(* run the page's effects again over a new worker (StrictMode, a hot       *)
(* reload) while every ref and state is kept.                              *)
(*                                                                         *)
(* Progress is a number: 0 `queued`, 1 `assembling`, 2 `enumerating`,      *)
(* 3 + done `scoring`, Fan + 4 `ranking`.                                  *)
(***************************************************************************)
EXTENDS Integers, Sequences

CONSTANTS Inputs,      \* what can be on screen
          First,       \* what the page may open on
          Eligible,    \* the inputs that can be ranked at all
          Fan,         \* bound: the candidates of every input
          MaxEdits, MaxFaults,   \* bounds: edits, and remounts or exceptions outside a run
          Broken,      \* a worker may fail to load
          None

ASSUME HookAssumption ==
  /\ Eligible \subseteq Inputs /\ First \subseteq Inputs /\ None \notin Inputs
  /\ {Fan, MaxEdits, MaxFaults} \subseteq Nat /\ Broken \in BOOLEAN

VARIABLES
  screen, pending,          \* the input last rendered, and whether its effects are still to run
  latestInput, requested, currentReqId,   \* the hook's refs
  stored,                   \* the stored pair: [input, status, at, about]
  worker,                   \* "none", "up", "broken"
  inbox,                    \* messages to the worker
  latestReqId, runs,        \* the newest id it was told, and its unfinished runs
  outbox, thrown,           \* its messages to the page, and an `error` event on the way
  edits, faults             \* the bounds' counters

page  == <<screen, pending, latestInput, requested, currentReqId, stored>>
thread == <<worker, inbox, latestReqId, runs>>
vars  == <<page, thread, outbox, thrown, edits, faults>>

Ranking(s, at, about) == [status |-> s, at |-> at, about |-> about]
Stored(i, r) == [input |-> i, status |-> r.status, at |-> r.at, about |-> r.about]
Off     == Ranking("off", 0, None)
Queued  == Ranking("loading", 0, None)
Failed  == Ranking("error", 0, None)
Settled == {"ok", "error"}

\* A run's message: progress, or the result that ends it.
Message(r, k, at) == [id |-> r.id, about |-> r.input, kind |-> k, at |-> at]

\* Faulty: no guard of the id.
Unguarded(st, msg, id) ==
  IF msg.kind = "progress" /\ st.status # "loading" THEN st
  ELSE Stored(st.input, Ranking(IF msg.kind = "progress" THEN "loading" ELSE msg.kind, msg.at, msg.about))

\* Faulty: no guard of a settled verdict.
Reopening(st, msg, id) ==
  IF msg.id # id THEN st
  ELSE Stored(st.input, Ranking(IF msg.kind = "progress" THEN "loading" ELSE msg.kind, msg.at, msg.about))

\* applyRankMessage through applyToStored: null is the same stored pair.
applyToStored(st, msg, id) ==
  IF msg.id # id \/ (msg.kind = "progress" /\ st.status # "loading") THEN st
  ELSE Stored(st.input, Ranking(IF msg.kind = "progress" THEN "loading" ELSE msg.kind, msg.at, msg.about))

viewRanking(i, st) ==
  IF i \notin Eligible THEN Off
  ELSE IF st.input = i THEN Ranking(st.status, st.at, st.about) ELSE Queued

-----------------------------------------------------------------------------
Init ==
  /\ screen \in First /\ pending = TRUE
  /\ latestInput = screen /\ requested = None /\ currentReqId = 0
  /\ stored = Stored(screen, Off)
  /\ worker = "none" /\ inbox = <<>> /\ latestReqId = 0 /\ runs = {}
  /\ outbox = <<>> /\ thrown = FALSE
  /\ edits = 0 /\ faults = 0

\* An edit is rendered; the effects of the last render have run before the next one starts.
Render ==
  /\ ~pending /\ edits < MaxEdits
  /\ \E i \in Inputs \ {screen} : screen' = i
  /\ pending' = TRUE /\ edits' = edits + 1
  /\ UNCHANGED <<latestInput, requested, currentReqId, stored, thread, outbox, thrown, faults>>

\* The request effect, over the messages the worker has still to take.
Ask(told, box) ==
  IF told = screen THEN inbox' = box /\ UNCHANGED <<requested, currentReqId, stored>>
  ELSE /\ requested' = screen
       /\ currentReqId' = currentReqId + 1
       /\ stored' = Stored(screen, IF screen \in Eligible THEN Queued ELSE Off)
       /\ inbox' = Append(box, [id |-> currentReqId + 1, input |-> screen])

\* A new worker, told nothing; whether it loads is settled here, and its error event is on the way.
Spawned ==
  /\ \E w \in {"up"} \cup (IF Broken THEN {"broken"} ELSE {}) : worker' = w /\ thrown' = (w = "broken")
  /\ latestReqId' = 0 /\ runs' = {} /\ outbox' = <<>>

Effects ==
  /\ pending /\ pending' = FALSE
  /\ latestInput' = screen
  /\ IF worker = "none" THEN Spawned ELSE UNCHANGED <<worker, latestReqId, runs, outbox, thrown>>
  /\ Ask(requested, inbox)
  /\ UNCHANGED <<screen, edits, faults>>

\* Faulty: a new worker is taken for one that was told of the input.
RemountTold ==
  /\ ~pending /\ faults < MaxFaults
  /\ faults' = faults + 1
  /\ Spawned /\ Ask(requested, <<>>)
  /\ UNCHANGED <<screen, pending, latestInput, edits>>

\* The effects are cleaned up and run again: terminate() drops what the worker was about to say.
Remount ==
  /\ ~pending /\ faults < MaxFaults
  /\ faults' = faults + 1
  /\ Spawned /\ Ask(None, <<>>)
  /\ UNCHANGED <<screen, pending, latestInput, edits>>

OnMessage ==
  /\ outbox # <<>>
  /\ stored' = applyToStored(stored, Head(outbox), currentReqId)
  /\ outbox' = Tail(outbox)
  /\ UNCHANGED <<screen, pending, latestInput, requested, currentReqId, thread, thrown, edits, faults>>

OnError ==
  /\ thrown /\ thrown' = FALSE
  /\ stored' = IF currentReqId = 0 THEN stored ELSE Stored(latestInput, Failed)
  /\ UNCHANGED <<screen, pending, latestInput, requested, currentReqId, thread, outbox, edits, faults>>

-----------------------------------------------------------------------------
(* The worker.                                                              *)

\* whileCurrent: a run's ticks are posted only while it is the newest the worker knows of.
Ticks(r, ats, latest) ==
  IF r.id # latest THEN <<>> ELSE [k \in DOMAIN ats |-> Message(r, "progress", ats[k])]

\* Faulty: the worker counts the messages instead of taking their id.
Counting ==
  /\ worker = "up" /\ inbox # <<>>
  /\ LET msg == Head(inbox)
         r   == [id |-> msg.id, input |-> msg.input, at |-> 1] IN
     /\ latestReqId' = latestReqId + 1
     /\ IF msg.input \in Eligible
          THEN runs' = runs \cup {r} /\ outbox' = outbox \o Ticks(r, <<1>>, latestReqId + 1)
          ELSE UNCHANGED <<runs, outbox>>
  /\ inbox' = Tail(inbox)
  /\ UNCHANGED <<page, worker, thrown, edits, faults>>

\* Both kinds of message advance the id; a request's run starts, up to its first await.
Receive ==
  /\ worker = "up" /\ inbox # <<>>
  /\ LET msg == Head(inbox)
         r   == [id |-> msg.id, input |-> msg.input, at |-> 1] IN
     /\ latestReqId' = msg.id
     /\ IF msg.input \in Eligible
          THEN runs' = runs \cup {r} /\ outbox' = outbox \o Ticks(r, <<1>>, msg.id)
          ELSE UNCHANGED <<runs, outbox>>
  /\ inbox' = Tail(inbox)
  /\ UNCHANGED <<page, worker, thrown, edits, faults>>

\* A run goes on to its next await, having emitted the ticks ats.
Continues(r, n, ats) == runs' = (runs \ {r}) \cup {n} /\ outbox' = outbox \o Ticks(r, ats, latestReqId)
\* It ends: its result is posted whether or not it is superseded.
Ends(r, k, ats) ==
  runs' = runs \ {r} /\ outbox' = Append(outbox \o Ticks(r, ats, latestReqId), Message(r, k, 0))

Assembled(r) ==
  /\ r.at = 1
  /\ \/ Ends(r, "error", <<>>)
     \/ Continues(r, [r EXCEPT !.at = 2], <<2>>)

Enumerated(r) ==
  /\ r.at = 2
  /\ \/ Ends(r, "error", <<3, Fan + 4>>)
     \/ Ends(r, "error", <<>>)
     \/ Fan > 0 /\ Continues(r, [r EXCEPT !.at = 3], <<3>>)

\* Faulty: a fan goes on past its end.
ScoredPast(r) ==
  /\ r.at > 2
  /\ \/ r.at - 3 = Fan /\ Ends(r, "ok", <<r.at, Fan + 4>>)
     \/ r.at - 3 <= Fan /\ Continues(r, [r EXCEPT !.at = @ + 1], <<r.at + 1>>)

\* One more candidate is compiled and scored; a tick that changes no phase and is not the last may be
\* throttled.  The fan ends at its size, or early when it is stillborn or the engine is dead.
Scored(r) ==
  /\ r.at > 2
  /\ LET at == r.at + 1 IN
     \/ Ends(r, "error", <<>>)
     \/ Ends(r, "error", <<at, Fan + 4>>)
     \/ at - 3 = Fan /\ Ends(r, "ok", <<at, Fan + 4>>)
     \/ at - 3 < Fan /\ \E ats \in {<<>>, <<at>>} : Continues(r, [r EXCEPT !.at = at], ats)

Run ==
  /\ \E r \in runs : Assembled(r) \/ Enumerated(r) \/ Scored(r)
  /\ UNCHANGED <<page, worker, inbox, latestReqId, thrown, edits, faults>>

\* An exception outside every run reaches the page; the worker goes on.
Throw ==
  /\ worker = "up" /\ ~thrown /\ faults < MaxFaults
  /\ thrown' = TRUE /\ faults' = faults + 1
  /\ UNCHANGED <<page, thread, outbox, edits>>

Page   == Effects \/ OnMessage \/ OnError
Thread == Receive \/ Run
Next == Render \/ Remount \/ Throw \/ Page \/ Thread
Spec == Init /\ [][Next]_vars

\* Neither event loop stops while anything is queued on it; every await of a run resolves.
FairSpec == Spec /\ WF_vars(Page) /\ WF_vars(Thread)

-----------------------------------------------------------------------------
Shown == viewRanking(screen, stored)

Ids == 1..(MaxEdits + MaxFaults + 1)
Answers == [id : Ids, about : Eligible, kind : {"progress", "ok", "error"}, at : 0..(Fan + 4)]
TypeOK ==
  /\ screen \in Inputs /\ latestInput \in Inputs /\ requested \in Inputs \cup {None}
  /\ pending \in BOOLEAN /\ thrown \in BOOLEAN
  /\ currentReqId \in 0..(edits + faults + 1) /\ latestReqId \in Nat
  /\ stored \in [input : Inputs, status : {"off", "loading"} \cup Settled, at : 0..(Fan + 4), about : Inputs \cup {None}]
  /\ worker \in {"none", "up", "broken"}
  /\ inbox \in Seq([id : Ids, input : Inputs])
  /\ runs \subseteq [id : Ids, input : Eligible, at : 1..(Fan + 3)]
  /\ outbox \in Seq(Answers)
  /\ edits \in 0..MaxEdits /\ faults \in 0..MaxFaults

(***************************************************************************)
(* useRanking.ts:3-16.  What is shown for the input on screen, a verdict   *)
(* or a tick of its bar, was computed for that very input, also between a  *)
(* render and its effects, and whichever superseded runs still post.       *)
(***************************************************************************)
OnlyThisInput == Shown.about \in {None, screen}

(***************************************************************************)
(* rank-progress.ts:85-90.  The worker silences a run only when the page   *)
(* would drop what it says: it never knows of an id the page has not       *)
(* adopted.                                                                *)
(***************************************************************************)
SilencedIsStale == \A r \in runs : r.id # latestReqId => r.id # currentReqId

(***************************************************************************)
(* useRanking.ts:42-46.  A verdict is not reopened by a tick of its own    *)
(* request, also when an error event settled it and the run goes on; and   *)
(* the bar of one request never goes back.                                 *)
(***************************************************************************)
NeverReopened ==
  [][currentReqId' = currentReqId =>
       /\ stored.status \in Settled => stored'.status \in Settled
       /\ stored'.status = "loading" => stored.status = "loading" /\ stored.at <= stored'.at]_vars

(***************************************************************************)
(* useRanking.ts:95-96, 156-158.  What is on screen gets its verdict: no   *)
(* input is left on a spinner with nothing on its way.                     *)
(***************************************************************************)
NoPerpetualSpinner == <>[](Shown.status # "loading")
=============================================================================
