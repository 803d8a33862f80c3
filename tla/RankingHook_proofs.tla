-------------------------- MODULE RankingHook_proofs --------------------------
(***************************************************************************)
(* Proofs about RankingHook, for any inputs, fan, edits and faults.        *)
(***************************************************************************)
EXTENDS RankingHook, SequenceTheorems, TLAPS

\* An id is spent on an edit, on a fault, or on the first render.
IdsOK == pending => currentReqId <= edits + faults

\* What the page has asked for, and the input its stored pair is about.
PageOK ==
  /\ currentReqId = 0 => requested = None
  /\ currentReqId > 0 => requested \in Inputs /\ latestInput = requested /\ stored.input = requested
  /\ ~pending => requested = screen /\ latestInput = screen
  /\ worker = "none" => requested = None

\* The page is ahead of the worker, and what it has not taken is newer than all it took.
InboxOK ==
  /\ latestReqId <= currentReqId
  /\ \A i \in DOMAIN inbox :
       /\ latestReqId < inbox[i].id /\ inbox[i].id <= currentReqId
       /\ inbox[i].id = currentReqId => inbox[i].input = requested
       /\ \A j \in DOMAIN inbox : i < j => inbox[i].id < inbox[j].id

\* A run, or a message, of the current id is about what the page asked for.
RunsOK ==
  \A r \in runs :
    /\ r.id <= latestReqId
    /\ r.id = currentReqId => r.input = requested
    /\ \A s \in runs : r.id = s.id => r = s
OutboxOK ==
  \A i \in DOMAIN outbox :
    /\ outbox[i].id <= latestReqId
    /\ outbox[i].id = currentReqId => outbox[i].about = requested

Tick(m) == m.kind = "progress"

\* The ticks of one id go forward, none is past the run they are of, and the page is behind them.
Forward(box) ==
  \A i, j \in DOMAIN box :
    i < j /\ Tick(box[i]) /\ Tick(box[j]) /\ box[i].id = box[j].id => box[i].at <= box[j].at
Behind(box, rs) ==
  \A i \in DOMAIN box, r \in rs : Tick(box[i]) /\ box[i].id = r.id => box[i].at <= r.at
BarOK ==
  stored.status = "loading" =>
    /\ latestReqId < currentReqId => stored.at = 0
    /\ \A i \in DOMAIN outbox : Tick(outbox[i]) /\ outbox[i].id = currentReqId => stored.at <= outbox[i].at
    /\ \A r \in runs : r.id = currentReqId => stored.at <= r.at
OrderOK == Forward(outbox) /\ Behind(outbox, runs) /\ BarOK

AboutOK == stored.about \in {None, stored.input}

IInv == TypeOK /\ IdsOK /\ PageOK /\ InboxOK /\ RunsOK /\ OutboxOK /\ OrderOK /\ AboutOK

-----------------------------------------------------------------------------
(* Messages and ticks.                                                     *)

Requests == [id : Ids, input : Inputs]
AllRuns  == [id : Ids, input : Eligible, at : 1..(Fan + 3)]
Ats      == 0..(Fan + 4)

LEMMA MessageType ==
  ASSUME NEW r \in AllRuns, NEW k \in {"progress", "ok", "error"}, NEW at \in Ats
  PROVE  /\ Message(r, k, at) \in Answers
         /\ Message(r, k, at).id = r.id /\ Message(r, k, at).about = r.input
         /\ Message(r, k, at).kind = k /\ Message(r, k, at).at = at
BY DEF Message, Answers, AllRuns, Ats

LEMMA TicksShape ==
  ASSUME NEW r \in AllRuns, NEW ats \in Seq(Ats), NEW latest
  PROVE  /\ Ticks(r, ats, latest) \in Seq(Answers)
         /\ \A i \in DOMAIN Ticks(r, ats, latest) :
              /\ i \in DOMAIN ats
              /\ Ticks(r, ats, latest)[i] = Message(r, "progress", ats[i])
<1>1. \A i \in 1..Len(ats) : ats[i] \in Ats
  BY ElementOfSeq
<1>2. \A i \in 1..Len(ats) : Message(r, "progress", ats[i]) \in Answers
  BY <1>1, MessageType
<1>3. Len(ats) \in Nat /\ DOMAIN ats = 1..Len(ats)
  BY LenProperties
<1>4. CASE r.id # latest
  <2>1. Ticks(r, ats, latest) = <<>>
    BY <1>4 DEF Ticks
  <2> QED BY <2>1, EmptySeq
<1>5. CASE r.id = latest
  <2>1. Ticks(r, ats, latest) = [k \in 1..Len(ats) |-> Message(r, "progress", ats[k])]
    BY <1>3, <1>5 DEF Ticks
  <2>2. [k \in 1..Len(ats) |-> Message(r, "progress", ats[k])] \in Seq(Answers)
    BY <1>2, <1>3 
  <2> QED BY <1>3, <2>1, <2>2
<1> QED BY <1>4, <1>5

\* box with messages of r behind it, the ticks among them in order, none past hi.
Grown(new, box, r, hi) ==
  /\ new \in Seq(Answers) /\ DOMAIN box \subseteq DOMAIN new
  /\ \A i \in DOMAIN box : new[i] = box[i]
  /\ \A i \in DOMAIN new \ DOMAIN box :
       /\ new[i].id = r.id /\ new[i].about = r.input
       /\ Tick(new[i]) => r.at <= new[i].at /\ new[i].at <= hi
       /\ \A j \in DOMAIN box : j < i
       /\ \A j \in DOMAIN new \ DOMAIN box :
            j < i /\ Tick(new[j]) /\ Tick(new[i]) => new[j].at <= new[i].at

LEMMA GrowTicks ==
  ASSUME NEW r \in AllRuns, NEW box \in Seq(Answers), NEW ats \in Seq(Ats), NEW latest, NEW hi,
         \A i \in DOMAIN ats : r.at <= ats[i] /\ ats[i] <= hi,
         \A i, j \in DOMAIN ats : j < i => ats[j] <= ats[i]
  PROVE  Grown(box \o Ticks(r, ats, latest), box, r, hi)
<1> DEFINE t == Ticks(r, ats, latest)
           new == box \o t
<1>1. /\ t \in Seq(Answers)
      /\ \A i \in DOMAIN t : i \in DOMAIN ats /\ t[i] = Message(r, "progress", ats[i])
  BY TicksShape
<1>2. /\ Len(box) \in Nat /\ DOMAIN box = 1..Len(box)
      /\ Len(t) \in Nat /\ DOMAIN t = 1..Len(t)
      /\ DOMAIN ats = 1..Len(ats)
  BY <1>1, LenProperties
<1> HIDE DEF t
<1>3. /\ new \in Seq(Answers) /\ Len(new) = Len(box) + Len(t)
      /\ \A i \in 1..Len(box) + Len(t) : new[i] = IF i <= Len(box) THEN box[i] ELSE t[i - Len(box)]
  BY <1>1, ConcatProperties
<1>4. DOMAIN new = 1..Len(box) + Len(t)
  BY <1>3, LenProperties
<1> HIDE DEF new
<1>5. \A i \in DOMAIN ats : ats[i] \in Ats
  BY <1>2, ElementOfSeq
<1>6. ASSUME NEW i \in DOMAIN new \ DOMAIN box
      PROVE  /\ i - Len(box) \in DOMAIN t /\ i - Len(box) \in DOMAIN ats /\ i > Len(box)
             /\ new[i] = Message(r, "progress", ats[i - Len(box)])
  <2>1. i \in Int /\ i > Len(box) /\ i <= Len(box) + Len(t)
    BY <1>2, <1>4, <1>6
  <2>2. i - Len(box) \in 1..Len(t)
    BY <1>2, <2>1
  <2>3. i - Len(box) \in DOMAIN t
    BY <1>2, <2>2
  <2>4. i - Len(box) \in DOMAIN ats /\ t[i - Len(box)] = Message(r, "progress", ats[i - Len(box)])
    BY <1>1, <2>3
  <2>5. new[i] = t[i - Len(box)]
    BY <1>3, <1>4, <2>1
  <2> QED BY <2>1, <2>3, <2>4, <2>5
<1>7. ASSUME NEW i \in DOMAIN new \ DOMAIN box
      PROVE  /\ new[i].id = r.id /\ new[i].about = r.input /\ new[i].at = ats[i - Len(box)]
             /\ i \in Int /\ i - Len(box) \in DOMAIN ats
  BY <1>4, <1>5, <1>6, MessageType
<1>8. \A i \in DOMAIN new \ DOMAIN box :
        /\ new[i].id = r.id /\ new[i].about = r.input
        /\ Tick(new[i]) => r.at <= new[i].at /\ new[i].at <= hi
        /\ \A j \in DOMAIN box : j < i
  BY <1>2, <1>6, <1>7
<1>9. ASSUME NEW i \in DOMAIN new \ DOMAIN box, NEW j \in DOMAIN new \ DOMAIN box, j < i
      PROVE  new[j].at <= new[i].at
  <2>1. j - Len(box) < i - Len(box)
    BY <1>2, <1>7, <1>9
  <2> QED BY <1>7, <2>1
<1>10. DOMAIN box \subseteq DOMAIN new /\ \A i \in DOMAIN box : new[i] = box[i]
  BY <1>2, <1>3, <1>4
<1> QED BY <1>3, <1>8, <1>9, <1>10 DEF Grown, new, t

\* The result that ends a run is no tick.
LEMMA GrowResult ==
  ASSUME NEW r \in AllRuns, NEW box \in Seq(Answers), NEW mid, NEW hi, Grown(mid, box, r, hi),
         NEW k \in {"ok", "error"}
  PROVE  Grown(Append(mid, Message(r, k, 0)), box, r, hi)
<1> DEFINE m == Message(r, k, 0)
           new == Append(mid, m)
<1>1. Fan \in Nat
  BY HookAssumption
<1>2. m \in Answers /\ m.id = r.id /\ m.about = r.input /\ ~Tick(m)
  BY <1>1, MessageType DEF Tick, Ats
<1>3. mid \in Seq(Answers) /\ Len(mid) \in Nat /\ DOMAIN mid = 1..Len(mid) /\ DOMAIN box = 1..Len(box)
      /\ Len(box) \in Nat
  BY LenProperties DEF Grown
<1> HIDE DEF m
<1>4. /\ new \in Seq(Answers) /\ DOMAIN new = 1..Len(mid) + 1
      /\ new[Len(mid) + 1] = m /\ \A i \in DOMAIN mid : new[i] = mid[i]
  BY <1>2, <1>3
<1> HIDE DEF new
<1>5. DOMAIN new = DOMAIN mid \cup {Len(mid) + 1} /\ \A j \in DOMAIN mid : j < Len(mid) + 1
  BY <1>3, <1>4
<1>6. DOMAIN box \subseteq DOMAIN new /\ \A i \in DOMAIN box : new[i] = box[i] /\ i < Len(mid) + 1
  BY <1>3, <1>4, <1>5 DEF Grown
<1>7. \A i \in DOMAIN new \ DOMAIN box :
        /\ new[i].id = r.id /\ new[i].about = r.input
        /\ Tick(new[i]) => i \in DOMAIN mid /\ r.at <= new[i].at /\ new[i].at <= hi
        /\ \A j \in DOMAIN box : j < i
  BY <1>2, <1>4, <1>5, <1>6 DEF Grown
<1>8. \A i, j \in DOMAIN new \ DOMAIN box :
        j < i /\ Tick(new[j]) /\ Tick(new[i]) => new[j].at <= new[i].at
  BY <1>4, <1>7 DEF Grown
<1> QED BY <1>4, <1>6, <1>7, <1>8 DEF Grown, new, m

-----------------------------------------------------------------------------
(* What a run does between two awaits.                                     *)

\* r becomes S, at most one run and not behind hi, and has said what is new in the outbox.
Emits(r, S, hi) ==
  /\ runs' = (runs \ {r}) \cup S /\ S \subseteq AllRuns
  /\ \A n \in S : n.id = r.id /\ n.input = r.input /\ r.at <= n.at /\ hi <= n.at
  /\ \A m, n \in S : m = n
  /\ Grown(outbox', outbox, r, hi)

LEMMA ContinuesEmits ==
  ASSUME TypeOK, NEW r \in runs, NEW at \in 1..(Fan + 3), r.at <= at,
         NEW ats, ats = <<>> \/ ats = <<at>>, Continues(r, [r EXCEPT !.at = at], ats)
  PROVE  Emits(r, {[r EXCEPT !.at = at]}, at)
<1>1. r \in AllRuns /\ outbox \in Seq(Answers) /\ Fan \in Nat
  BY HookAssumption DEF TypeOK, AllRuns
<1>2. at \in Ats
  BY <1>1 DEF Ats
<1>3. ats \in Seq(Ats) /\ \A i \in DOMAIN ats : r.at <= ats[i] /\ ats[i] <= at
  <2>1. CASE ats = <<>>
    BY <2>1
  <2>2. CASE ats = <<at>>
    BY <1>1, <1>2, <2>2
  <2> QED BY <2>1, <2>2
<1>4. \A i, j \in DOMAIN ats : j < i => ats[j] <= ats[i]
  OBVIOUS
<1>5. Grown(outbox \o Ticks(r, ats, latestReqId), outbox, r, at)
  BY <1>1, <1>3, <1>4, GrowTicks
<1>6. [r EXCEPT !.at = at] \in AllRuns
  BY <1>1 DEF AllRuns
<1>7. [r EXCEPT !.at = at].id = r.id /\ [r EXCEPT !.at = at].input = r.input /\ [r EXCEPT !.at = at].at = at
  BY <1>1 DEF AllRuns
<1> QED BY <1>5, <1>6, <1>7 DEF Emits, Continues

LEMMA EndsEmits ==
  ASSUME TypeOK, NEW r \in runs, NEW k \in {"ok", "error"}, NEW a \in r.at..(Fan + 4),
         NEW ats, ats = <<>> \/ ats = <<a, Fan + 4>>, Ends(r, k, ats)
  PROVE  Emits(r, {}, Fan + 4)
<1>1. r \in AllRuns /\ outbox \in Seq(Answers) /\ Fan \in Nat /\ r.at \in 1..(Fan + 3)
  BY HookAssumption DEF TypeOK, AllRuns
<1>2. a \in Ats /\ Fan + 4 \in Ats
  BY <1>1 DEF Ats
<1>3. ats \in Seq(Ats) /\ \A i \in DOMAIN ats : r.at <= ats[i] /\ ats[i] <= Fan + 4
  <2>1. CASE ats = <<>>
    BY <2>1
  <2>2. CASE ats = <<a, Fan + 4>>
    <3>1. DOMAIN ats = 1..2 /\ ats[1] = a /\ ats[2] = Fan + 4
      BY <2>2
    <3> QED BY <1>1, <1>2, <2>2, <3>1
  <2> QED BY <2>1, <2>2
<1>4. \A i, j \in DOMAIN ats : j < i => ats[j] <= ats[i]
  BY <1>1
<1>5. Grown(outbox \o Ticks(r, ats, latestReqId), outbox, r, Fan + 4)
  BY <1>1, <1>3, <1>4, GrowTicks
<1>6. Grown(Append(outbox \o Ticks(r, ats, latestReqId), Message(r, k, 0)), outbox, r, Fan + 4)
  BY <1>1, <1>5, GrowResult
<1> QED BY <1>6 DEF Emits, Ends

LEMMA RunEmits ==
  ASSUME TypeOK, Run
  PROVE  \E r \in runs, S \in SUBSET AllRuns, hi \in Nat : Emits(r, S, hi)
<1>1. PICK r \in runs : Assembled(r) \/ Enumerated(r) \/ Scored(r)
  BY DEF Run
<1>2. r \in AllRuns /\ Fan \in Nat /\ r.at \in 1..(Fan + 3)
  BY HookAssumption DEF TypeOK, AllRuns
<1>3. ASSUME NEW k \in {"ok", "error"}, NEW a \in r.at..(Fan + 4),
             Ends(r, k, <<>>) \/ Ends(r, k, <<a, Fan + 4>>)
      PROVE  Emits(r, {}, Fan + 4)
  BY <1>3, EndsEmits
<1>4. ASSUME NEW at \in 1..(Fan + 3), r.at <= at,
             \E ats \in {<<>>, <<at>>} : Continues(r, [r EXCEPT !.at = at], ats)
      PROVE  Emits(r, {[r EXCEPT !.at = at]}, at)
  BY <1>4, ContinuesEmits
<1>5. Fan + 4 \in Nat /\ r.at \in r.at..(Fan + 4) /\ r.at + 1 \in r.at..(Fan + 4)
  BY <1>2
<1>6. CASE Assembled(r)
  <2>1. CASE Ends(r, "error", <<>>)
    BY <1>3, <1>5, <2>1
  <2>2. CASE Continues(r, [r EXCEPT !.at = 2], <<2>>)
    <3>1. 2 \in 1..(Fan + 3) /\ r.at <= 2
      BY <1>2, <1>6 DEF Assembled
    <3>2. Emits(r, {[r EXCEPT !.at = 2]}, 2)
      BY <1>4, <2>2, <3>1
    <3>3. {[r EXCEPT !.at = 2]} \in SUBSET AllRuns
      BY <3>2 DEF Emits
    <3> QED BY <3>1, <3>2, <3>3
  <2> QED BY <1>6, <2>1, <2>2 DEF Assembled
<1>7. CASE Enumerated(r)
  <2>1. CASE Ends(r, "error", <<>>) \/ Ends(r, "error", <<3, Fan + 4>>)
    <3>1. 3 \in r.at..(Fan + 4)
      BY <1>2, <1>7 DEF Enumerated
    <3> QED BY <1>3, <1>5, <2>1, <3>1
  <2>2. CASE Fan > 0 /\ Continues(r, [r EXCEPT !.at = 3], <<3>>)
    <3>1. 3 \in 1..(Fan + 3) /\ r.at <= 3
      BY <1>2, <1>7 DEF Enumerated
    <3>2. Emits(r, {[r EXCEPT !.at = 3]}, 3)
      BY <1>4, <2>2, <3>1
    <3>3. {[r EXCEPT !.at = 3]} \in SUBSET AllRuns
      BY <3>2 DEF Emits
    <3> QED BY <3>1, <3>2, <3>3
  <2> QED BY <1>7, <2>1, <2>2 DEF Enumerated
<1>8. CASE Scored(r)
  <2> DEFINE at == r.at + 1
  <2>1. CASE \E k \in {"ok", "error"} : Ends(r, k, <<>>) \/ Ends(r, k, <<at, Fan + 4>>)
    BY <1>3, <1>5, <2>1
  <2>2. CASE at - 3 < Fan /\ \E ats \in {<<>>, <<at>>} : Continues(r, [r EXCEPT !.at = at], ats)
    <3>1. at \in 1..(Fan + 3) /\ r.at <= at /\ at \in Nat
      BY <1>2, <2>2
    <3>2. Emits(r, {[r EXCEPT !.at = at]}, at)
      BY <1>4, <2>2, <3>1
    <3>3. {[r EXCEPT !.at = at]} \in SUBSET AllRuns
      BY <3>2 DEF Emits
    <3> QED BY <3>1, <3>2, <3>3
  <2> QED BY <1>8, <2>1, <2>2 DEF Scored
<1> QED BY <1>1, <1>6, <1>7, <1>8

-----------------------------------------------------------------------------
(* A run of the worker's, old or new, that emits what it has to say.       *)

LEMMA Numbers ==
  ASSUME TypeOK
  PROVE  /\ currentReqId \in Nat /\ latestReqId \in Nat /\ Fan \in Nat /\ stored.at \in Nat
         /\ edits \in Nat /\ faults \in Nat /\ MaxEdits \in Nat /\ MaxFaults \in Nat
         /\ runs \subseteq AllRuns /\ outbox \in Seq(Answers) /\ inbox \in Seq(Requests)
         /\ DOMAIN outbox = 1..Len(outbox) /\ DOMAIN inbox = 1..Len(inbox)
         /\ Len(outbox) \in Nat /\ Len(inbox) \in Nat
<1>1. {Fan, MaxEdits, MaxFaults} \subseteq Nat
  BY HookAssumption
<1>2. edits \in Nat /\ faults \in Nat /\ currentReqId \in Nat /\ stored.at \in Nat
  BY <1>1 DEF TypeOK
<1> QED BY <1>1, <1>2, LenProperties DEF TypeOK, AllRuns, Requests

LEMMA ElementTypes ==
  ASSUME TypeOK
  PROVE  /\ \A r \in runs : r.id \in Nat /\ r.at \in Nat
         /\ \A i \in DOMAIN outbox : outbox[i] \in Answers /\ outbox[i].id \in Nat /\ outbox[i].at \in Nat
         /\ \A i \in DOMAIN inbox : inbox[i] \in Requests /\ inbox[i].id \in Nat
<1>1. \A i \in DOMAIN outbox : outbox[i] \in Answers
  BY Numbers, ElementOfSeq
<1>2. \A i \in DOMAIN inbox : inbox[i] \in Requests
  BY Numbers, ElementOfSeq
<1>3. \A r \in runs : r.id \in Nat /\ r.at \in Nat
  BY SMTT(30), Numbers DEF AllRuns, Ids
<1>4. \A m \in Answers : m.id \in Nat /\ m.at \in Nat
  BY Numbers DEF Answers, Ids
<1>5. \A m \in Requests : m.id \in Nat
  BY DEF Requests, Ids
<1> QED BY <1>1, <1>2, <1>3, <1>4, <1>5

LEMMA EmitsKeeps ==
  ASSUME IInv, NEW r \in AllRuns, NEW S, NEW hi \in Nat, Emits(r, S, hi),
         UNCHANGED <<currentReqId, requested, stored>>,
         latestReqId' \in Nat, latestReqId <= latestReqId', r.id <= latestReqId',
         r.id = currentReqId => r.input = requested,
         r \in runs \/ latestReqId < r.id
  PROVE  RunsOK' /\ OutboxOK' /\ OrderOK'
<1>1. r.id \in Nat /\ r.at \in Nat /\ runs \subseteq AllRuns /\ currentReqId \in Nat /\ stored.at \in Nat
      /\ latestReqId \in Nat
  BY SMTT(30), Numbers DEF AllRuns, Ids, IInv
<1>2. \A s \in runs : s # r => s.id # r.id
  BY <1>1, ElementTypes DEF IInv, RunsOK
<1>3. \A s \in runs' : s \in runs \ {r} \/ (s \in S /\ s.id = r.id /\ s.input = r.input /\ r.at <= s.at /\ hi <= s.at)
  BY DEF Emits
<1>4. RunsOK'
  <2>1. \A s \in runs' : s.id \in Nat /\ s.id <= latestReqId' /\ (s.id = currentReqId => s.input = requested)
    BY <1>1, <1>3, ElementTypes DEF IInv, RunsOK
  <2>2. \A s, t \in runs' : s.id = t.id => s = t
    BY <1>2, <1>3 DEF IInv, RunsOK, Emits
  <2> QED BY <2>1, <2>2 DEF RunsOK
<1>5. \A i \in DOMAIN outbox' :
        \/ i \in DOMAIN outbox /\ outbox'[i] = outbox[i]
        \/ /\ i \notin DOMAIN outbox /\ outbox'[i].id = r.id /\ outbox'[i].about = r.input
           /\ Tick(outbox'[i]) => r.at <= outbox'[i].at /\ outbox'[i].at <= hi
           /\ \A j \in DOMAIN outbox : j < i
  BY DEF Emits, Grown
<1>6. outbox' \in Seq(Answers) /\ \A i \in DOMAIN outbox' : outbox'[i].at \in Nat /\ i \in Nat
  <2>1. outbox' \in Seq(Answers) /\ DOMAIN outbox' = 1..Len(outbox')
    BY LenProperties DEF Emits, Grown
  <2>2. \A i \in DOMAIN outbox' : outbox'[i] \in Answers
    BY <2>1, ElementOfSeq
  <2>3. Len(outbox') \in Nat
    BY <2>1, LenProperties
  <2> QED BY SMTT(30), <2>1, <2>2, <2>3, Numbers DEF Answers, IInv
<1>7. OutboxOK'
  BY <1>1, <1>5, ElementTypes DEF IInv, OutboxOK
<1>8. \A i \in DOMAIN outbox : Tick(outbox[i]) /\ outbox[i].id = r.id => outbox[i].at <= r.at
  BY <1>1, ElementTypes DEF IInv, OutboxOK, OrderOK, Behind
<1>9. Forward(outbox')
  <2> SUFFICES ASSUME NEW i \in DOMAIN outbox', NEW j \in DOMAIN outbox', i < j,
                      Tick(outbox'[i]), Tick(outbox'[j]), outbox'[i].id = outbox'[j].id
               PROVE  outbox'[i].at <= outbox'[j].at
    BY DEF Forward
  <2>1. CASE i \in DOMAIN outbox /\ j \in DOMAIN outbox
    BY <1>5, <2>1 DEF IInv, OrderOK, Forward
  <2>2. CASE i \in DOMAIN outbox /\ j \notin DOMAIN outbox
    BY <1>1, <1>5, <1>6, <1>8, <2>2
  <2>3. CASE i \notin DOMAIN outbox /\ j \notin DOMAIN outbox
    BY <2>3 DEF Emits, Grown
  <2>4. CASE i \notin DOMAIN outbox /\ j \in DOMAIN outbox
    BY <1>5, <1>6, <2>4
  <2> QED BY <2>1, <2>2, <2>3, <2>4
<1>10. Behind(outbox', runs')
  <2> SUFFICES ASSUME NEW i \in DOMAIN outbox', NEW s \in runs', Tick(outbox'[i]), outbox'[i].id = s.id
               PROVE  outbox'[i].at <= s.at
    BY DEF Behind
  <2>1. s.at \in Nat
    BY <1>1, <1>3 DEF AllRuns, Emits
  <2>2. CASE s \in runs \ {r}
    BY <1>2, <1>5, <2>2 DEF IInv, OrderOK, Behind
  <2>3. CASE s \in S /\ s.id = r.id /\ r.at <= s.at /\ hi <= s.at
    <3>1. outbox'[i].at \in Nat
      BY <1>6
    <3>2. outbox'[i].at <= r.at \/ outbox'[i].at <= hi
      BY <1>5, <1>8, <2>3
    <3> QED BY <1>1, <2>1, <2>3, <3>1, <3>2
  <2> QED BY <1>3, <2>2, <2>3
<1>11. BarOK'
  <2> SUFFICES ASSUME stored.status = "loading"
               PROVE  BarOK'
    BY DEF BarOK
  <2>1. BarOK
    BY DEF IInv, OrderOK
  <2>2. r.id = currentReqId => stored.at <= r.at
    BY <1>1, <2>1 DEF BarOK
  <2>3. latestReqId' < currentReqId => stored.at = 0
    BY <1>1, <2>1 DEF BarOK
  <2>4. \A i \in DOMAIN outbox' : Tick(outbox'[i]) /\ outbox'[i].id = currentReqId => stored.at <= outbox'[i].at
    BY SMTT(30), <1>1, <1>5, <1>6, <2>1, <2>2 DEF BarOK
  <2>5. \A s \in runs' : s.id = currentReqId => stored.at <= s.at
    <3>1. \A s \in runs' : s.at \in Nat
      BY <1>1, <1>3 DEF AllRuns, Emits
    <3> QED BY <1>1, <1>3, <2>1, <2>2, <3>1 DEF BarOK
  <2> QED BY <2>3, <2>4, <2>5 DEF BarOK
<1> QED BY <1>4, <1>7, <1>9, <1>10, <1>11 DEF OrderOK

-----------------------------------------------------------------------------
(* The page asks for the input on screen, of the worker or of a new one.   *)

StoredPairs == [input : Inputs, status : {"off", "loading"} \cup Settled, at : 0..(Fan + 4), about : Inputs \cup {None}]

Asks(box) ==
  /\ requested' = screen /\ currentReqId' = currentReqId + 1
  /\ stored' = Stored(screen, IF screen \in Eligible THEN Queued ELSE Off)
  /\ inbox' = Append(box, [id |-> currentReqId + 1, input |-> screen])

LEMMA QueuedPair ==
  ASSUME NEW i \in Inputs, NEW st, st = Stored(i, Queued) \/ st = Stored(i, Off) \/ st = Stored(i, Failed)
  PROVE  /\ st \in StoredPairs /\ st.input = i /\ st.at = 0 /\ st.about = None
         /\ st = Stored(i, Failed) => st.status = "error"
<1>1. 0 \in 0..(Fan + 4)
  BY HookAssumption
<1> QED BY <1>1 DEF Stored, Ranking, Queued, Off, Failed, StoredPairs, Settled

LEMMA AsksKeeps ==
  ASSUME IInv, NEW box, box = inbox \/ box = <<>>, Asks(box), currentReqId + 1 \in Ids,
         \/ UNCHANGED <<latestReqId, runs, outbox>>
         \/ latestReqId' = 0 /\ runs' = {} /\ outbox' = <<>>
  PROVE  /\ InboxOK' /\ RunsOK' /\ OutboxOK' /\ OrderOK' /\ AboutOK'
         /\ stored' \in StoredPairs /\ stored'.input = screen
         /\ inbox' \in Seq(Requests) /\ requested' \in Inputs
         /\ latestReqId' \in Nat /\ runs' \subseteq AllRuns /\ outbox' \in Seq(Answers)
<1>1. /\ currentReqId \in Nat /\ latestReqId \in Nat /\ screen \in Inputs /\ inbox \in Seq(Requests)
      /\ latestReqId <= currentReqId /\ runs \subseteq AllRuns /\ outbox \in Seq(Answers)
  BY Numbers DEF IInv, TypeOK, InboxOK
<1>2. stored' \in StoredPairs /\ stored'.input = screen /\ stored'.at = 0 /\ stored'.about = None
  BY <1>1, QueuedPair DEF Asks
<1>3. latestReqId' \in Nat /\ latestReqId' <= currentReqId /\ latestReqId' <= latestReqId
  BY <1>1
<1> DEFINE m == [id |-> currentReqId + 1, input |-> screen]
<1>4. m \in Requests /\ m.id = currentReqId + 1 /\ m.input = screen
  BY <1>1 DEF Requests
<1> HIDE DEF m
<1>5. /\ box \in Seq(Requests) /\ Len(box) \in Nat /\ DOMAIN box = 1..Len(box)
      /\ \A i \in DOMAIN box : i \in DOMAIN inbox /\ box[i] = inbox[i]
  <2>1. CASE box = inbox
    BY <1>1, <2>1, LenProperties
  <2>2. CASE box = <<>>
    BY <2>2, EmptySeq
  <2> QED BY <2>1, <2>2
<1>6. inbox' = Append(box, m)
  BY DEF Asks, m
<1>7. /\ inbox' \in Seq(Requests) /\ DOMAIN inbox' = 1..Len(box) + 1
      /\ inbox'[Len(box) + 1] = m /\ \A i \in DOMAIN box : inbox'[i] = box[i]
  BY <1>4, <1>5, <1>6
<1>8. \A i \in DOMAIN inbox' :
        \/ i \in DOMAIN box /\ inbox'[i] = box[i] /\ i < Len(box) + 1 /\ i \in Nat
        \/ i = Len(box) + 1 /\ inbox'[i] = m
  BY <1>5, <1>7
<1>9. \A i \in DOMAIN box :
        /\ box[i].id \in Nat /\ latestReqId < box[i].id /\ box[i].id <= currentReqId
        /\ \A j \in DOMAIN box : i < j => box[i].id < box[j].id
  BY <1>5, ElementTypes DEF IInv, InboxOK
<1>10. InboxOK'
  <2>1. \A i \in DOMAIN inbox' : latestReqId' < inbox'[i].id /\ inbox'[i].id <= currentReqId'
    BY <1>1, <1>3, <1>4, <1>8, <1>9 DEF Asks
  <2>2. \A i \in DOMAIN inbox' : inbox'[i].id = currentReqId' => inbox'[i].input = requested'
    BY <1>1, <1>4, <1>8, <1>9 DEF Asks
  <2>3. \A i, j \in DOMAIN inbox' : i < j => inbox'[i].id < inbox'[j].id
    BY <1>1, <1>4, <1>5, <1>8, <1>9
  <2>4. latestReqId' <= currentReqId'
    BY <1>1, <1>3 DEF Asks
  <2> QED BY <2>1, <2>2, <2>3, <2>4 DEF InboxOK
<1>11. \A r \in runs : r.id \in Nat /\ r.id < currentReqId + 1
  BY <1>1, ElementTypes DEF IInv, RunsOK
<1>12. RunsOK'
  BY <1>11 DEF IInv, RunsOK, Asks
<1>13. \A i \in DOMAIN outbox : outbox[i].id \in Nat /\ outbox[i].id < currentReqId + 1
  BY <1>1, ElementTypes DEF IInv, OutboxOK
<1>14. OutboxOK'
  BY <1>13 DEF IInv, OutboxOK, Asks
<1>15. OrderOK'
  <2>1. Forward(outbox') /\ Behind(outbox', runs')
    BY DEF IInv, OrderOK, Forward, Behind
  <2>2. BarOK'
    BY <1>2, <1>11, <1>13 DEF BarOK, Asks
  <2> QED BY <2>1, <2>2 DEF OrderOK
<1>16. AboutOK'
  BY <1>2 DEF AboutOK
<1>17. requested' \in Inputs /\ runs' \subseteq AllRuns /\ outbox' \in Seq(Answers)
  <2>1. <<>> \in Seq(Answers)
    BY EmptySeq
  <2> QED BY <1>1, <2>1 DEF Asks
<1> QED BY <1>2, <1>3, <1>7, <1>10, <1>12, <1>14, <1>15, <1>16, <1>17

\* Whatever the page is still to ask, an id is left for it.
LEMMA NextId ==
  ASSUME IInv
  PROVE  /\ pending => currentReqId + 1 \in Ids /\ currentReqId + 1 \in 0..(edits + faults + 1)
         /\ ~pending /\ faults < MaxFaults =>
              currentReqId + 1 \in Ids /\ currentReqId + 1 \in 0..(edits + (faults + 1) + 1)
BY SMTT(30), Numbers DEF IInv, TypeOK, IdsOK, Ids

-----------------------------------------------------------------------------
(* One lemma per action.                                                   *)

LEMMA InitOK == Init => IInv
<1> SUFFICES ASSUME Init PROVE IInv
  OBVIOUS
<1>1. {Fan, MaxEdits, MaxFaults} \subseteq Nat /\ First \subseteq Inputs
  BY HookAssumption
<1>2. screen \in Inputs /\ stored \in StoredPairs /\ stored.input = screen /\ stored.about = None /\ stored.at = 0
  BY <1>1, QueuedPair DEF Init
<1>3. stored.status = "off"
  BY DEF Init, Stored, Off, Ranking
<1>4. TypeOK
  <2>1. <<>> \in Seq(Requests) /\ <<>> \in Seq(Answers)
    BY EmptySeq
  <2>2. /\ screen \in Inputs /\ latestInput \in Inputs /\ requested = None /\ pending = TRUE /\ thrown = FALSE
        /\ currentReqId = 0 /\ latestReqId = 0 /\ worker = "none" /\ inbox = <<>> /\ runs = {}
        /\ outbox = <<>> /\ edits = 0 /\ faults = 0
    BY <1>2 DEF Init
  <2>3. 0 \in 0..MaxEdits /\ 0 \in 0..MaxFaults /\ 0 \in 0..(0 + 0 + 1)
    BY <1>1
  <2> QED BY <1>2, <2>1, <2>2, <2>3 DEF TypeOK, StoredPairs, Requests
<1>5. IdsOK /\ PageOK /\ InboxOK /\ RunsOK /\ OutboxOK
  BY <1>1 DEF Init, IdsOK, PageOK, InboxOK, RunsOK, OutboxOK
<1>6. OrderOK /\ AboutOK
  BY <1>2, <1>3 DEF Init, OrderOK, AboutOK, Forward, Behind, BarOK
<1> QED BY <1>4, <1>5, <1>6 DEF IInv

LEMMA RenderOK ==
  ASSUME IInv, Render
  PROVE  IInv'
<1>1. TypeOK'
  <2>1. currentReqId \in 0..(edits' + faults + 1) /\ edits' \in 0..MaxEdits
    BY Numbers DEF IInv, TypeOK, Render
  <2> QED BY <2>1 DEF IInv, TypeOK, Render, thread
<1>2. IdsOK'
  BY Numbers DEF IInv, TypeOK, IdsOK, Render
<1>3. PageOK' /\ InboxOK' /\ RunsOK' /\ OutboxOK'
  BY DEF IInv, PageOK, InboxOK, RunsOK, OutboxOK, Render, thread
<1>4. OrderOK' /\ AboutOK'
  BY DEF IInv, OrderOK, AboutOK, Forward, Behind, BarOK, Render, thread
<1> QED BY <1>1, <1>2, <1>3, <1>4 DEF IInv

LEMMA EffectsOK ==
  ASSUME IInv, Effects
  PROVE  IInv'
<1>1. screen \in Inputs /\ None \notin Inputs /\ pending = TRUE
  BY HookAssumption DEF IInv, TypeOK, Effects
<1>2. CASE requested = screen
  <2>1. worker # "none"
    BY <1>1, <1>2 DEF IInv, PageOK
  <2>2. UNCHANGED <<screen, requested, currentReqId, stored, worker, inbox, latestReqId, runs, outbox, thrown, edits, faults>>
        /\ pending' = FALSE /\ latestInput' = screen
    BY <1>2, <2>1 DEF Effects, Ask
  <2>3. TypeOK'
    BY <1>1, <2>2 DEF IInv, TypeOK
  <2>4. IdsOK' /\ PageOK' /\ InboxOK' /\ RunsOK' /\ OutboxOK'
    BY <1>2, <2>2 DEF IInv, IdsOK, PageOK, InboxOK, RunsOK, OutboxOK
  <2>5. OrderOK' /\ AboutOK'
    BY <2>2 DEF IInv, OrderOK, AboutOK, Forward, Behind, BarOK
  <2> QED BY <2>3, <2>4, <2>5 DEF IInv
<1>3. CASE requested # screen
  <2>1. Asks(inbox) /\ pending' = FALSE /\ latestInput' = screen /\ UNCHANGED <<screen, edits, faults>>
    BY <1>3 DEF Effects, Ask, Asks
  <2>2. /\ \/ UNCHANGED <<latestReqId, runs, outbox>>
           \/ latestReqId' = 0 /\ runs' = {} /\ outbox' = <<>>
        /\ worker' \in {"up", "broken"} /\ thrown' \in BOOLEAN
    BY DEF Effects, Spawned, IInv, TypeOK
  <2>3. currentReqId + 1 \in Ids /\ currentReqId + 1 \in 0..(edits + faults + 1) /\ currentReqId \in Nat
    BY <1>1, NextId, Numbers DEF IInv
  <2>4. /\ InboxOK' /\ RunsOK' /\ OutboxOK' /\ OrderOK' /\ AboutOK'
        /\ stored' \in StoredPairs /\ stored'.input = screen
        /\ inbox' \in Seq(Requests) /\ requested' \in Inputs
        /\ latestReqId' \in Nat /\ runs' \subseteq AllRuns /\ outbox' \in Seq(Answers)
    BY <2>1, <2>2, <2>3, AsksKeeps
  <2>5. requested' = screen /\ currentReqId' = currentReqId + 1
    BY <2>1 DEF Asks
  <2>6. TypeOK'
    BY <1>1, <2>1, <2>2, <2>3, <2>4, <2>5 DEF IInv, TypeOK, StoredPairs, Requests, AllRuns
  <2>7. IdsOK' /\ PageOK'
    BY <1>1, <2>1, <2>2, <2>3, <2>4, <2>5 DEF IdsOK, PageOK
  <2> QED BY <2>4, <2>6, <2>7 DEF IInv
<1> QED BY <1>2, <1>3

LEMMA RemountOK ==
  ASSUME IInv, Remount
  PROVE  IInv'
<1>1. screen \in Inputs /\ None \notin Inputs /\ pending = FALSE /\ latestInput = screen
  BY HookAssumption DEF IInv, TypeOK, PageOK, Remount
<1>2. Asks(<<>>) /\ UNCHANGED <<screen, pending, latestInput, edits>> /\ faults' = faults + 1 /\ faults < MaxFaults
  BY <1>1 DEF Remount, Ask, Asks
<1>3. latestReqId' = 0 /\ runs' = {} /\ outbox' = <<>> /\ worker' \in {"up", "broken"} /\ thrown' \in BOOLEAN
  BY DEF Remount, Spawned
<1>4. currentReqId + 1 \in Ids /\ currentReqId + 1 \in 0..(edits + faults' + 1) /\ currentReqId \in Nat
  BY <1>1, <1>2, NextId, Numbers DEF IInv
<1>5. /\ InboxOK' /\ RunsOK' /\ OutboxOK' /\ OrderOK' /\ AboutOK'
      /\ stored' \in StoredPairs /\ stored'.input = screen
      /\ inbox' \in Seq(Requests) /\ requested' \in Inputs
      /\ latestReqId' \in Nat /\ runs' \subseteq AllRuns /\ outbox' \in Seq(Answers)
  BY <1>2, <1>3, <1>4, AsksKeeps
<1>6. requested' = screen /\ currentReqId' = currentReqId + 1
  BY <1>2 DEF Asks
<1>7. faults' \in 0..MaxFaults
  BY <1>2, Numbers DEF IInv, TypeOK
<1>8. TypeOK'
  BY <1>1, <1>2, <1>3, <1>4, <1>5, <1>6, <1>7 DEF IInv, TypeOK, StoredPairs, Requests, AllRuns
<1>9. IdsOK' /\ PageOK'
  BY <1>1, <1>2, <1>3, <1>4, <1>5, <1>6 DEF IdsOK, PageOK
<1> QED BY <1>5, <1>8, <1>9 DEF IInv

\* What a message of the worker makes of the stored pair.
LEMMA MessagePair ==
  ASSUME NEW st \in StoredPairs, NEW m \in Answers, NEW id
  PROVE  LET new == applyToStored(st, m, id) IN
         \/ new = st
         \/ /\ new \in StoredPairs /\ new.input = st.input /\ new.about = m.about /\ new.at = m.at
            /\ m.id = id
            /\ \/ Tick(m) /\ st.status = "loading" /\ new.status = "loading"
               \/ ~Tick(m) /\ new.status \in Settled
<1> DEFINE new == applyToStored(st, m, id)
<1>1. CASE m.id # id \/ (Tick(m) /\ st.status # "loading")
  BY <1>1 DEF applyToStored, Tick
<1>2. CASE m.id = id /\ Tick(m) /\ st.status = "loading"
  <2>1. new = [input |-> st.input, status |-> "loading", at |-> m.at, about |-> m.about]
    BY <1>2 DEF applyToStored, Stored, Ranking, Tick
  <2>2. new \in StoredPairs
    BY <2>1, HookAssumption DEF StoredPairs, Answers
  <2> QED BY <1>2, <2>1, <2>2
<1>3. CASE m.id = id /\ ~Tick(m)
  <2>1. new = [input |-> st.input, status |-> m.kind, at |-> m.at, about |-> m.about]
    BY <1>3 DEF applyToStored, Stored, Ranking, Tick
  <2>2. m.kind \in Settled
    BY <1>3 DEF Tick, Answers, Settled
  <2>3. new \in StoredPairs
    BY <2>1, <2>2, HookAssumption DEF StoredPairs, Answers
  <2> QED BY <1>3, <2>1, <2>2, <2>3
<1> QED BY <1>1, <1>2, <1>3

LEMMA OnMessageOK ==
  ASSUME IInv, OnMessage
  PROVE  /\ IInv'
         /\ stored.status \in Settled => stored'.status \in Settled
         /\ stored'.status = "loading" => stored.status = "loading" /\ stored.at <= stored'.at
<1> DEFINE m == Head(outbox)
<1>1. /\ outbox \in Seq(Answers) /\ outbox # <<>> /\ DOMAIN outbox = 1..Len(outbox)
      /\ currentReqId \in Nat /\ latestReqId \in Nat /\ stored \in StoredPairs /\ stored.at \in Nat
      /\ runs \subseteq AllRuns
  BY Numbers DEF IInv, TypeOK, OnMessage, StoredPairs
<1>2. m \in Answers /\ m = outbox[1] /\ 1 \in DOMAIN outbox /\ m.id \in Nat /\ m.id > 0 /\ m.at \in Nat
  <2>1. m \in Answers /\ m = outbox[1] /\ 1 \in DOMAIN outbox
    BY <1>1, HeadTailProperties, LenProperties
  <2> QED BY SMTT(30), <2>1, Numbers DEF Answers, Ids, IInv
<1>3. /\ outbox' \in Seq(Answers)
      /\ \A i \in DOMAIN outbox' : outbox'[i] = outbox[i + 1] /\ i + 1 \in DOMAIN outbox /\ i \in Nat /\ 1 < i + 1
  <2>1. outbox' = Tail(outbox)
    BY DEF OnMessage
  <2>2. /\ outbox' \in Seq(Answers) /\ Len(outbox') = Len(outbox) - 1
        /\ \A i \in 1..Len(outbox') : outbox'[i] = outbox[i + 1]
    BY <1>1, <2>1, HeadTailProperties
  <2> QED BY <1>1, <2>2, LenProperties
<1>4. stored' = applyToStored(stored, m, currentReqId)
      /\ UNCHANGED <<screen, pending, latestInput, requested, currentReqId, worker, inbox, latestReqId, runs, thrown, edits, faults>>
  BY DEF OnMessage, thread
<1> HIDE DEF m
<1>5. \/ stored' = stored
      \/ /\ stored' \in StoredPairs /\ stored'.input = stored.input
         /\ stored'.about = m.about /\ stored'.at = m.at /\ m.id = currentReqId
         /\ \/ Tick(m) /\ stored.status = "loading" /\ stored'.status = "loading"
            \/ ~Tick(m) /\ stored'.status \in Settled
  BY <1>1, <1>2, <1>4, MessagePair
<1>6. stored' \in StoredPairs /\ stored'.input = stored.input
  BY <1>1, <1>5
<1>7. TypeOK'
  BY <1>3, <1>4, <1>6 DEF IInv, TypeOK, StoredPairs
<1>8. IdsOK' /\ PageOK' /\ InboxOK' /\ RunsOK'
  BY <1>4, <1>6 DEF IInv, IdsOK, PageOK, InboxOK, RunsOK
<1>9. OutboxOK'
  BY <1>3, <1>4 DEF IInv, OutboxOK
<1>10. AboutOK'
  <2>1. m.id = currentReqId => m.about = stored.input
    BY <1>1, <1>2 DEF IInv, OutboxOK, PageOK
  <2> QED BY <1>5, <1>6, <2>1 DEF IInv, AboutOK
<1>11. Forward(outbox') /\ Behind(outbox', runs')
  <2>1. \A i, j \in DOMAIN outbox' : i < j => i + 1 < j + 1
    BY <1>3
  <2>2. Forward(outbox')
    BY <1>3, <2>1 DEF IInv, OrderOK, Forward
  <2>3. Behind(outbox', runs')
    BY <1>3, <1>4 DEF IInv, OrderOK, Behind
  <2> QED BY <2>2, <2>3
<1>12. BarOK'
  <2>1. CASE stored' = stored
    BY <1>3, <1>4, <2>1 DEF IInv, OrderOK, BarOK
  <2>2. CASE m.id = currentReqId /\ Tick(m) /\ stored'.at = m.at
    <3>1. ~(latestReqId < currentReqId)
      BY <1>1, <1>2, <2>2 DEF IInv, OutboxOK
    <3>2. \A i \in DOMAIN outbox' : Tick(outbox'[i]) /\ outbox'[i].id = currentReqId => m.at <= outbox'[i].at
      BY <1>2, <1>3, <2>2 DEF IInv, OrderOK, Forward
    <3>3. \A r \in runs : r.id = currentReqId => m.at <= r.at
      BY <1>2, <2>2 DEF IInv, OrderOK, Behind
    <3> QED BY <1>4, <2>2, <3>1, <3>2, <3>3 DEF BarOK
  <2>3. CASE stored'.status \in Settled
    BY <2>3 DEF BarOK, Settled
  <2> QED BY <1>5, <2>1, <2>2, <2>3
<1>13. stored.status \in Settled => stored'.status \in Settled
  BY <1>5 DEF Settled
<1>14. stored'.status = "loading" => stored.status = "loading" /\ stored.at <= stored'.at
  <2>1. stored.status = "loading" /\ m.id = currentReqId /\ Tick(m) => stored.at <= m.at
    BY <1>2 DEF IInv, OrderOK, BarOK
  <2> QED BY <1>1, <1>5, <2>1 DEF Settled
<1> QED BY <1>7, <1>8, <1>9, <1>10, <1>11, <1>12, <1>13, <1>14 DEF IInv, OrderOK

LEMMA OnErrorOK ==
  ASSUME IInv, OnError
  PROVE  /\ IInv'
         /\ stored' = stored \/ stored'.status = "error"
<1>1. UNCHANGED <<screen, pending, latestInput, requested, currentReqId, worker, inbox, latestReqId, runs, outbox, edits, faults>>
      /\ thrown' = FALSE
  BY DEF OnError, thread
<1>2. latestInput \in Inputs /\ currentReqId \in Nat /\ stored \in StoredPairs
  BY Numbers DEF IInv, TypeOK, StoredPairs
<1>3. \/ stored' = stored
      \/ /\ stored' \in StoredPairs /\ stored'.input = latestInput /\ stored'.about = None
         /\ stored'.status = "error" /\ currentReqId > 0
  <2>1. stored' = stored \/ (stored' = Stored(latestInput, Failed) /\ currentReqId # 0)
    BY DEF OnError
  <2> QED BY <1>2, <2>1, QueuedPair
<1>4. TypeOK'
  BY <1>1, <1>2, <1>3 DEF IInv, TypeOK, StoredPairs
<1>5. IdsOK' /\ PageOK' /\ InboxOK' /\ RunsOK' /\ OutboxOK'
  BY <1>1, <1>3 DEF IInv, IdsOK, PageOK, InboxOK, RunsOK, OutboxOK
<1>6. OrderOK' /\ AboutOK'
  BY <1>1, <1>3 DEF IInv, OrderOK, AboutOK, Forward, Behind, BarOK
<1> QED BY <1>3, <1>4, <1>5, <1>6 DEF IInv

LEMMA ReceiveOK ==
  ASSUME IInv, Receive
  PROVE  IInv'
<1> DEFINE msg == Head(inbox)
           r   == [id |-> msg.id, input |-> msg.input, at |-> 1]
<1>1. /\ inbox \in Seq(Requests) /\ inbox # <<>> /\ DOMAIN inbox = 1..Len(inbox)
      /\ currentReqId \in Nat /\ latestReqId \in Nat /\ Fan \in Nat /\ outbox \in Seq(Answers)
      /\ runs \subseteq AllRuns
  BY Numbers DEF IInv, TypeOK, Receive
<1>2. msg \in Requests /\ msg = inbox[1] /\ 1 \in DOMAIN inbox
  BY <1>1, HeadTailProperties, LenProperties
<1>3. /\ inbox' \in Seq(Requests)
      /\ \A i \in DOMAIN inbox' : inbox'[i] = inbox[i + 1] /\ i + 1 \in DOMAIN inbox /\ i \in Nat /\ 1 < i + 1
  <2>1. inbox' = Tail(inbox)
    BY DEF Receive
  <2>2. /\ inbox' \in Seq(Requests) /\ Len(inbox') = Len(inbox) - 1
        /\ \A i \in 1..Len(inbox') : inbox'[i] = inbox[i + 1]
    BY <1>1, <2>1, HeadTailProperties
  <2> QED BY <1>1, <2>2, LenProperties
<1>4. /\ UNCHANGED <<screen, pending, latestInput, requested, currentReqId, stored, worker, thrown, edits, faults>>
      /\ latestReqId' = msg.id
      /\ IF msg.input \in Eligible
           THEN runs' = runs \cup {r} /\ outbox' = outbox \o Ticks(r, <<1>>, msg.id)
           ELSE UNCHANGED <<runs, outbox>>
  BY DEF Receive, page
<1> HIDE DEF msg
<1>5. msg.id \in Ids /\ msg.id \in Nat /\ latestReqId < msg.id /\ msg.id <= currentReqId
      /\ (msg.id = currentReqId => msg.input = requested)
  BY <1>2 DEF IInv, InboxOK, Requests, Ids
<1>6. InboxOK'
  <2>1. \A i \in DOMAIN inbox' : inbox'[i].id > msg.id
    BY <1>2, <1>3, <1>5, ElementTypes DEF IInv, InboxOK
  <2>2. \A i, j \in DOMAIN inbox' : i < j => inbox'[i].id < inbox'[j].id
    <3>1. \A i, j \in DOMAIN inbox' : i < j => i + 1 < j + 1
      BY <1>3
    <3> QED BY <1>3, <3>1 DEF IInv, InboxOK
  <2>3. \A i \in DOMAIN inbox' : inbox'[i].id \in Nat
    BY <1>3, ElementTypes DEF IInv
  <2>4. \A i \in DOMAIN inbox' : inbox'[i].id <= currentReqId /\ (inbox'[i].id = currentReqId => inbox'[i].input = requested)
    BY <1>3 DEF IInv, InboxOK
  <2> QED BY <1>4, <1>5, <2>1, <2>2, <2>3, <2>4 DEF InboxOK
<1>7. RunsOK' /\ OutboxOK' /\ OrderOK' /\ runs' \subseteq AllRuns /\ outbox' \in Seq(Answers)
  <2>1. CASE msg.input \in Eligible
    <3>1. r \in AllRuns /\ r.id = msg.id /\ r.input = msg.input /\ r.at = 1
      BY <1>1, <1>5, <2>1 DEF AllRuns
    <3>2. runs' = runs \cup {r} /\ outbox' = outbox \o Ticks(r, <<1>>, msg.id)
      BY <1>4, <2>1
    <3> HIDE DEF r
    <3>3. r \notin runs
      BY <1>1, <1>5, <3>1 DEF IInv, RunsOK
    <3>4. /\ <<1>> \in Seq(Ats)
          /\ \A i \in DOMAIN <<1>> : r.at <= <<1>>[i] /\ <<1>>[i] <= 1
          /\ \A i, j \in DOMAIN <<1>> : j < i => <<1>>[j] <= <<1>>[i]
      BY <1>1, <3>1 DEF Ats
    <3>5. Grown(outbox', outbox, r, 1)
      BY <1>1, <3>1, <3>2, <3>4, GrowTicks
    <3>6. Emits(r, {r}, 1)
      BY <3>1, <3>2, <3>3, <3>5 DEF Emits
    <3>7. RunsOK' /\ OutboxOK' /\ OrderOK'
      BY <1>1, <1>4, <1>5, <3>1, <3>6, EmitsKeeps
    <3>8. outbox' \in Seq(Answers) /\ runs' \subseteq AllRuns
      BY <1>1, <3>1, <3>2, <3>5 DEF Grown
    <3> QED BY <3>7, <3>8
  <2>2. CASE msg.input \notin Eligible
    <3>1. UNCHANGED <<runs, outbox, currentReqId, requested, stored>> /\ latestReqId' = msg.id
      BY <1>4, <2>2
    <3>2. RunsOK' /\ OutboxOK'
      BY <1>1, <1>5, <3>1, ElementTypes DEF IInv, RunsOK, OutboxOK
    <3>3. OrderOK'
      BY <1>1, <1>5, <3>1 DEF IInv, OrderOK, Forward, Behind, BarOK
    <3> QED BY <1>1, <3>1, <3>2, <3>3
  <2> QED BY <2>1, <2>2
<1>8. TypeOK'
  BY <1>3, <1>4, <1>5, <1>7 DEF IInv, TypeOK, Requests, AllRuns
<1>9. IdsOK' /\ PageOK' /\ AboutOK'
  BY <1>4 DEF IInv, IdsOK, PageOK, AboutOK
<1> QED BY <1>6, <1>7, <1>8, <1>9 DEF IInv

LEMMA RunOK ==
  ASSUME IInv, Run
  PROVE  IInv'
<1>1. PICK r \in runs, S \in SUBSET AllRuns, hi \in Nat : Emits(r, S, hi)
  BY RunEmits DEF IInv
<1>2. UNCHANGED <<screen, pending, latestInput, requested, currentReqId, stored, worker, inbox, latestReqId, thrown, edits, faults>>
  BY DEF Run, page
<1>3. /\ r \in AllRuns /\ r.id <= latestReqId /\ (r.id = currentReqId => r.input = requested)
      /\ latestReqId \in Nat /\ runs \subseteq AllRuns
  BY Numbers DEF IInv, RunsOK
<1>4. RunsOK' /\ OutboxOK' /\ OrderOK'
  BY <1>1, <1>2, <1>3, EmitsKeeps
<1>5. runs' \subseteq AllRuns /\ outbox' \in Seq(Answers)
  BY <1>1, <1>3 DEF Emits, Grown
<1>6. TypeOK'
  BY <1>2, <1>5 DEF IInv, TypeOK, AllRuns
<1>7. IdsOK' /\ PageOK' /\ InboxOK' /\ AboutOK'
  BY <1>2 DEF IInv, IdsOK, PageOK, InboxOK, AboutOK
<1> QED BY <1>4, <1>6, <1>7 DEF IInv

LEMMA ThrowOK ==
  ASSUME IInv, Throw
  PROVE  IInv'
<1>1. UNCHANGED <<screen, pending, latestInput, requested, currentReqId, stored, worker, inbox, latestReqId, runs, outbox, edits>>
      /\ thrown' = TRUE /\ faults' = faults + 1 /\ faults < MaxFaults
  BY DEF Throw, page, thread
<1>2. faults' \in 0..MaxFaults /\ currentReqId \in 0..(edits + faults' + 1) /\ (pending => currentReqId <= edits + faults')
  BY <1>1, Numbers DEF IInv, TypeOK, IdsOK
<1>3. TypeOK'
  BY <1>1, <1>2 DEF IInv, TypeOK
<1>4. IdsOK' /\ PageOK' /\ InboxOK' /\ RunsOK' /\ OutboxOK'
  BY <1>1, <1>2 DEF IInv, IdsOK, PageOK, InboxOK, RunsOK, OutboxOK
<1>5. OrderOK' /\ AboutOK'
  BY <1>1 DEF IInv, OrderOK, AboutOK, Forward, Behind, BarOK
<1> QED BY <1>3, <1>4, <1>5 DEF IInv

LEMMA StutterOK ==
  ASSUME IInv, UNCHANGED vars
  PROVE  IInv'
<1>1. UNCHANGED <<screen, pending, latestInput, requested, currentReqId, stored, worker, inbox, latestReqId, runs, outbox, thrown, edits, faults>>
  BY DEF vars, page, thread
<1>2. TypeOK'
  BY <1>1 DEF IInv, TypeOK
<1>3. IdsOK' /\ PageOK' /\ InboxOK' /\ RunsOK' /\ OutboxOK'
  BY <1>1 DEF IInv, IdsOK, PageOK, InboxOK, RunsOK, OutboxOK
<1>4. OrderOK' /\ AboutOK'
  BY <1>1 DEF IInv, OrderOK, AboutOK, Forward, Behind, BarOK
<1> QED BY <1>2, <1>3, <1>4 DEF IInv

-----------------------------------------------------------------------------
(* Of the specification, from TypeOK and these parts: an induction over    *)
(* the steps.                                                              *)

\* IInv holds of every state: what the page and the worker know of each other's ids is consistent.
THEOREM Invariance == Spec => []IInv
<1>1. IInv /\ [Next]_vars => IInv'
  BY RenderOK, EffectsOK, RemountOK, OnMessageOK, OnErrorOK, ReceiveOK, RunOK, ThrowOK, StutterOK
     DEF Next, Page, Thread
<1> QED BY <1>1, InitOK, PTL DEF Spec

\* The page, the worker and the messages between them stay what they should be.
THEOREM TypeCorrect == Spec => []TypeOK
<1>1. IInv => TypeOK
  BY DEF IInv
<1> QED BY <1>1, Invariance, PTL

\* Nothing is shown for the input on screen that was computed for another.
THEOREM ShownIsOfTheInput == Spec => []OnlyThisInput
<1>1. ASSUME IInv PROVE OnlyThisInput
  <2>1. CASE screen \notin Eligible
    BY <2>1 DEF OnlyThisInput, Shown, viewRanking, Off, Ranking
  <2>2. CASE screen \in Eligible /\ stored.input = screen
    <3>1. Shown.about = stored.about
      BY <2>2 DEF Shown, viewRanking, Ranking
    <3> QED BY <2>2, <3>1, <1>1 DEF IInv, AboutOK, OnlyThisInput
  <2>3. CASE screen \in Eligible /\ stored.input # screen
    BY <2>3 DEF OnlyThisInput, Shown, viewRanking, Queued, Ranking
  <2> QED BY <2>1, <2>2, <2>3
<1> QED BY <1>1, Invariance, PTL

\* A run the worker has silenced is of an id the page has left behind.
THEOREM SilencedRunsAreStale == Spec => []SilencedIsStale
<1>1. ASSUME IInv PROVE SilencedIsStale
  <2>1. currentReqId \in Nat /\ latestReqId \in Nat /\ latestReqId <= currentReqId
    BY <1>1, Numbers DEF IInv, InboxOK
  <2> QED BY <1>1, <2>1, ElementTypes DEF IInv, RunsOK, SilencedIsStale
<1> QED BY <1>1, Invariance, PTL

\* While the page waits for one request, a verdict stays one and the bar does not go back.
Forwards ==
  currentReqId' = currentReqId =>
    /\ stored.status \in Settled => stored'.status \in Settled
    /\ stored'.status = "loading" => stored.status = "loading" /\ stored.at <= stored'.at

\* A verdict is not reopened by its own request, and its bar never goes back.
THEOREM VerdictsStand == Spec => NeverReopened
<1>1. ASSUME IInv, [Next]_vars PROVE Forwards
  <2>1. currentReqId \in Nat /\ stored.at \in Nat
    BY <1>1, Numbers DEF IInv
  <2>2. CASE stored' = stored
    BY <2>1, <2>2 DEF Forwards
  <2>3. CASE OnMessage
    BY <1>1, <2>3, OnMessageOK DEF Forwards
  <2>4. CASE OnError
    <3>1. stored' = stored \/ stored'.status = "error"
      BY <1>1, <2>4, OnErrorOK
    <3> QED BY <2>2, <3>1 DEF Forwards, Settled
  <2>5. CASE Effects \/ Remount
    <3>1. stored' = stored \/ currentReqId' = currentReqId + 1
      BY <2>5 DEF Effects, Remount, Ask
    <3> QED BY <2>1, <2>2, <3>1 DEF Forwards
  <2>6. CASE Render \/ Receive \/ Run \/ Throw \/ UNCHANGED vars
    BY <2>2, <2>6 DEF Render, Receive, Run, Throw, vars, page
  <2> QED BY <1>1, <2>3, <2>4, <2>5, <2>6 DEF Next, Page, Thread
<1>2. IInv /\ [Next]_vars => [Forwards]_vars
  BY <1>1
<1> QED BY <1>2, Invariance, PTL DEF Spec, NeverReopened, Forwards
=============================================================================
