---------------------------- MODULE RuntimeProofs ----------------------------
(***************************************************************************)
(* Proofs, for any commands and bounds, of the notebook runtime of a       *)
(* browser tab (BrowserRuntime): what was acknowledged is stored, what was *)
(* refused leaves no trace, the code of a command is started again only    *)
(* after its result was dropped, and a stop ends only its own execution.   *)
(*                                                                         *)
(* What the page decides (Active, Durable, Once) and what it exchanges     *)
(* with the worker (Exchange) are kept apart: every step of the exchange   *)
(* does one of four things to the run under way (Moves).  The exchange     *)
(* holds at most one request that the worker can still answer, and it is   *)
(* the one the run awaits; the requests left over in `pending` were never  *)
(* posted.                                                                 *)
(***************************************************************************)
EXTENDS BrowserRuntime, FiniteSetTheorems, TLAPS

-----------------------------------------------------------------------------
(* The inductive invariant. *)

Stages == {"none", "init", "mount", "workspace", "run", "restart", "commit", "stored"}
Results == {"none", "ok", "failed", "lost"}
Methods == {"initialize", "workspace", "execute", "complete"}
Request == [id : Nat, method : Methods, n : Nat]
Message == [id : Nat, what : {"result", "error", "bad", "crash"}]
Keys == {c.key : c \in Command} \cup {"setup"}
Kernel == [up : BOOLEAN, ready : {"none", "pending", "ok", "failed"}, pending : SUBSET Request,
           inbox : Seq(Request), running : SUBSET Request, flag : BOOLEAN]

TabTypes ==
  /\ opened \in BOOLEAN
  /\ task \in [n : Nat, stage : Stages, wait : Nat]
  /\ snapshot \in Seq(Nat) /\ stored \in Seq(Nat)
  /\ cache \in Seq(Keys) /\ evicted \in Seq(Keys) /\ Len(cache) <= MaxCache
  /\ runs \in Seq(Command) /\ answers \in Seq(Results) /\ Len(answers) = Len(runs)

\* The run under way is the last one, and the only one without an answer.
Active ==
  /\ task.stage # "none" => opened /\ task.n = Len(runs) /\ task.n \in DOMAIN runs
  /\ \A n \in DOMAIN answers : answers[n] = "none" <=> task.stage # "none" /\ n = task.n

\* Acknowledged changes are stored, and shown while the notebook is open; what
\* was refused, or is not yet committed, is neither.
Durable ==
  /\ ToSet(stored) \subseteq DOMAIN runs /\ ToSet(snapshot) \subseteq DOMAIN runs
  /\ \A n \in DOMAIN answers : answers[n] = "ok" /\ Kind(n) \in Changing =>
       n \in ToSet(stored) /\ (opened => n \in ToSet(snapshot))
  /\ \A n \in DOMAIN answers : answers[n] = "failed" => n \notin ToSet(stored) \cup ToSet(snapshot)
  /\ task.stage \notin {"none", "stored"} => task.n \notin ToSet(stored) \cup ToSet(snapshot)
  /\ task.stage = "stored" => stored = Proposal

\* A key is bound while a result is kept, a run is under way or one was lost.
Bound(key) ==
  \/ key \in ToSet(cache)
  \/ task.stage # "none" /\ runs[task.n].key = key
  \/ \E n \in DOMAIN runs : runs[n].key = key /\ answers[n] = "lost"
Execs(key) == {n \in DOMAIN runs : runs[n].key = key /\ runs[n].kind = "execute"}
Drops(s, key) == {i \in DOMAIN s : s[i] = key}

\* A key is executed once for each time its result was dropped, and once more
\* if it is bound.
Once ==
  /\ \A m, n \in DOMAIN runs : runs[m].key = runs[n].key => runs[m].kind = runs[n].kind
  /\ ~opened => cache = <<>>
  /\ \A key \in Keys :
       Cardinality(Execs(key)) <= Cardinality(Drops(evicted, key)) + (IF Bound(key) THEN 1 ELSE 0)

Tab == TabTypes /\ Active /\ Durable /\ Once

\* The request the run under way awaits.
Fits(method) ==
  \/ method = "initialize" /\ task.stage \in {"init", "restart"}
  \/ method = "workspace" /\ task.stage = "workspace"
  \/ method \in Requests /\ task.stage = "run" /\ Kind(task.n) = method
Mine(p) == task.stage # "none" /\ p.id = task.wait /\ p.n = task.n /\ Fits(p.method)

\* A request that was left pending although it was not posted.
Orphan(p) ==
  /\ p.method = "workspace" /\ p.id # task.wait
  /\ \A i \in DOMAIN mail : mail[i].id # p.id

\* What the worker has still to answer.
Posted == ToSet(kernel.inbox) \cup kernel.running

ExchangeTypes ==
  /\ kernel \in Kernel /\ (kernel.up <=> kernel.ready # "none")
  /\ mail \in Seq(Message) /\ stopTimers \subseteq Nat
  /\ count \in [requests : Nat, stops : Nat, reloads : Nat, errors : Nat]
  /\ ran \cup hit \cup stops \subseteq DOMAIN runs

Awaits ==
  /\ task.wait <= count.requests
  /\ task.stage \in {"none", "mount", "commit", "stored"} => task.wait = 0
  /\ task.stage \in {"init", "mount", "workspace", "run"} => Kind(task.n) \in Requests

Numbers ==
  /\ \A p \in kernel.pending : 1 <= p.id /\ p.id <= count.requests /\ p.n \in DOMAIN runs
  /\ \A i \in DOMAIN mail : mail[i].id <= count.requests
  /\ \A id \in stopTimers : id <= count.requests

OneRequest ==
  /\ \A p \in kernel.pending : (Mine(p) /\ kernel.up) \/ Orphan(p)
  /\ \A r \in Posted : /\ r \in kernel.pending /\ Mine(r)
                       /\ \A i \in DOMAIN mail : mail[i].id # r.id
  /\ Len(kernel.inbox) <= 1 /\ (kernel.running # {} => kernel.inbox = <<>>)
  /\ \A r, s \in kernel.running : r = s
  /\ ~kernel.up => Posted = {}

Stopped ==
  /\ kernel.flag => \A r \in Posted : r.method = "execute" => r.n \in stops
  /\ \A id \in stopTimers : \A p \in kernel.pending :
       p.id = id => p.method = "execute" /\ p.n \in stops
  /\ \A n \in ran : Kind(n) = "execute"
  /\ hit \subseteq stops

Exchange == ExchangeTypes /\ Awaits /\ Numbers /\ OneRequest /\ Stopped

RuntimeInvariant == Tab /\ Exchange

-----------------------------------------------------------------------------
(* Sequences. *)

LEMMA AppendElements ==
  ASSUME NEW S, NEW s \in Seq(S), NEW x \in S
  PROVE  /\ Append(s, x) \in Seq(S) /\ Len(Append(s, x)) = Len(s) + 1
         /\ DOMAIN Append(s, x) = DOMAIN s \cup {Len(s) + 1}
         /\ \A i \in DOMAIN s : Append(s, x)[i] = s[i]
         /\ Append(s, x)[Len(s) + 1] = x
         /\ ToSet(Append(s, x)) = ToSet(s) \cup {x}
<1>1. /\ Append(s, x) \in Seq(S) /\ Len(Append(s, x)) = Len(s) + 1
      /\ \A i \in 1..Len(s) : Append(s, x)[i] = s[i]
      /\ Append(s, x)[Len(s) + 1] = x
      /\ DOMAIN s = 1..Len(s) /\ DOMAIN Append(s, x) = 1..(Len(s) + 1) /\ Len(s) \in Nat
  OBVIOUS
<1>2. 1..(Len(s) + 1) = (1..Len(s)) \cup {Len(s) + 1}
  BY <1>1
<1> QED
  BY <1>1, <1>2 DEF ToSet

LEMMA DomainLength ==
  ASSUME NEW S, NEW s \in Seq(S)
  PROVE  DOMAIN s = 1..Len(s) /\ Len(s) \in Nat
OBVIOUS

LEMMA NoElements ==
  ASSUME NEW S, NEW s \in Seq(S), ToSet(s) = {}
  PROVE  s = <<>>
<1>1. DOMAIN s = {} /\ DOMAIN s = 1..Len(s) /\ Len(s) \in Nat
  BY DomainLength DEF ToSet
<1>2. Len(s) = 0
  BY <1>1
<1> QED
  BY <1>2

LEMMA TailElements ==
  ASSUME NEW S, NEW s \in Seq(S), s # <<>>
  PROVE  /\ Tail(s) \in Seq(S) /\ Len(Tail(s)) = Len(s) - 1 /\ Head(s) \in S
         /\ ToSet(s) = {Head(s)} \cup ToSet(Tail(s))
         /\ \A i \in DOMAIN Tail(s) : i + 1 \in DOMAIN s /\ Tail(s)[i] = s[i + 1]
<1>1. /\ Tail(s) \in Seq(S) /\ Len(Tail(s)) = Len(s) - 1 /\ Head(s) = s[1] /\ Head(s) \in S
      /\ DOMAIN s = 1..Len(s) /\ DOMAIN Tail(s) = 1..(Len(s) - 1) /\ Len(s) \in Nat \ {0}
      /\ \A i \in 1..(Len(s) - 1) : Tail(s)[i] = s[i + 1]
  OBVIOUS
<1>2. ASSUME NEW i \in 1..Len(s), i # 1
      PROVE  i - 1 \in 1..(Len(s) - 1) /\ Tail(s)[i - 1] = s[i]
  BY <1>1, <1>2
<1>3. ToSet(s) \subseteq {Head(s)} \cup ToSet(Tail(s))
  <2>1. ASSUME NEW i \in 1..Len(s) PROVE s[i] \in {Head(s)} \cup ToSet(Tail(s))
    <3>1. CASE i = 1
      BY <1>1, <3>1
    <3>2. CASE i # 1
      BY <1>1, <1>2, <3>2 DEF ToSet
    <3> QED
      BY <3>1, <3>2
  <2> QED
    BY <1>1, <2>1 DEF ToSet
<1>4. {Head(s)} \cup ToSet(Tail(s)) \subseteq ToSet(s)
  <2>1. Head(s) \in ToSet(s)
    BY <1>1 DEF ToSet
  <2>2. ASSUME NEW i \in 1..(Len(s) - 1) PROVE Tail(s)[i] \in ToSet(s)
    <3>1. i + 1 \in 1..Len(s) /\ Tail(s)[i] = s[i + 1]
      BY <1>1
    <3> QED
      BY <1>1, <3>1 DEF ToSet
  <2> QED
    BY <1>1, <2>1, <2>2 DEF ToSet
<1> QED
  BY <1>1, <1>3, <1>4

LEMMA LastElement ==
  ASSUME NEW S, NEW s \in Seq(S), s # <<>>, Len(s) <= 1
  PROVE  Tail(s) = <<>>
<1>1. Tail(s) \in Seq(S) /\ Len(Tail(s)) = Len(s) - 1 /\ Len(s) \in Nat
  BY TailElements
<1>2. Len(Tail(s)) = 0
  <2>1. Len(Tail(s)) \in Nat
    BY <1>1
  <2> QED
    BY <1>1, <2>1
<1> QED
  BY <1>1, <1>2

LEMMA DropsFinite ==
  ASSUME NEW S, NEW s \in Seq(S), NEW key
  PROVE  IsFiniteSet(Drops(s, key)) /\ Cardinality(Drops(s, key)) \in Nat
<1>1. IsFiniteSet(1..Len(s)) /\ Drops(s, key) \subseteq 1..Len(s)
  BY FS_Interval DEF Drops
<1> QED
  BY <1>1, FS_Subset, FS_CardinalityType

\* One more entry counts for its key.
LEMMA DropsAppend ==
  ASSUME NEW S, NEW s \in Seq(S), NEW x \in S, NEW key
  PROVE  Cardinality(Drops(Append(s, x), key)) =
           Cardinality(Drops(s, key)) + (IF x = key THEN 1 ELSE 0)
<1>1. IsFiniteSet(Drops(s, key)) /\ Cardinality(Drops(s, key)) \in Nat
  BY DropsFinite
<1>2. /\ DOMAIN Append(s, x) = DOMAIN s \cup {Len(s) + 1}
      /\ \A i \in DOMAIN s : Append(s, x)[i] = s[i]
      /\ Append(s, x)[Len(s) + 1] = x
  BY AppendElements
<1>3. Len(s) + 1 \notin DOMAIN s
  OBVIOUS
<1>4. Drops(Append(s, x), key) =
        IF x = key THEN Drops(s, key) \cup {Len(s) + 1} ELSE Drops(s, key)
  BY <1>2, <1>3 DEF Drops
<1>5. Len(s) + 1 \notin Drops(s, key)
  BY <1>3 DEF Drops
<1>6. Cardinality(Drops(s, key) \cup {Len(s) + 1}) = Cardinality(Drops(s, key)) + 1
  BY <1>1, <1>5, FS_AddElement
<1> QED
  BY <1>1, <1>4, <1>6

LEMMA DropsConcat ==
  ASSUME NEW S, NEW s \in Seq(S), NEW t \in Seq(S), NEW key
  PROVE  Cardinality(Drops(s \o t, key)) >=
           Cardinality(Drops(s, key)) + (IF key \in ToSet(t) THEN 1 ELSE 0)
<1>1. /\ s \o t \in Seq(S) /\ Len(s) \in Nat /\ Len(t) \in Nat
      /\ DOMAIN s = 1..Len(s) /\ DOMAIN t = 1..Len(t) /\ DOMAIN (s \o t) = 1..(Len(s) + Len(t))
      /\ \A i \in 1..Len(s) : (s \o t)[i] = s[i]
      /\ \A i \in 1..Len(t) : (s \o t)[Len(s) + i] = t[i]
  OBVIOUS
<1>2. /\ IsFiniteSet(Drops(s, key)) /\ Cardinality(Drops(s, key)) \in Nat
      /\ IsFiniteSet(Drops(s \o t, key)) /\ Cardinality(Drops(s \o t, key)) \in Nat
  BY <1>1, DropsFinite
<1>3. Drops(s, key) \subseteq Drops(s \o t, key)
  BY <1>1 DEF Drops
<1>4. CASE key \in ToSet(t)
  <2>1. PICK i \in 1..Len(t) : t[i] = key
    BY <1>1, <1>4 DEF ToSet
  <2>2. Len(s) + i \in Drops(s \o t, key) /\ Len(s) + i \notin Drops(s, key)
    BY <1>1, <2>1 DEF Drops
  <2>3. Drops(s, key) \cup {Len(s) + i} \subseteq Drops(s \o t, key)
    BY <1>3, <2>2
  <2>4. Cardinality(Drops(s, key) \cup {Len(s) + i}) = Cardinality(Drops(s, key)) + 1
    BY <1>2, <2>2, FS_AddElement
  <2>5. Cardinality(Drops(s, key) \cup {Len(s) + i}) <= Cardinality(Drops(s \o t, key))
    BY <1>2, <2>3, FS_Subset
  <2> QED
    BY <1>4, <2>4, <2>5
<1>5. CASE key \notin ToSet(t)
  <2>1. Cardinality(Drops(s, key)) <= Cardinality(Drops(s \o t, key))
    BY <1>2, <1>3, FS_Subset
  <2> QED
    BY <1>2, <1>5, <2>1
<1> QED
  BY <1>4, <1>5

-----------------------------------------------------------------------------
(* The results that are kept. *)

\* No result is lost without being counted as dropped.
Counting ==
  \A key \in Keys :
    Cardinality(Drops(evicted', key)) >=
      Cardinality(Drops(evicted, key))
        + (IF key \in ToSet(cache) /\ key \notin ToSet(cache') THEN 1 ELSE 0)

LEMMA KeepCounts ==
  ASSUME TabTypes, NEW k \in Keys, Keep(k)
  PROVE  /\ cache' \in Seq(Keys) /\ evicted' \in Seq(Keys) /\ Len(cache') <= MaxCache
         /\ k \in ToSet(cache') /\ Counting
<1> DEFINE kept == Append(cache, k)
<1>1. /\ cache \in Seq(Keys) /\ evicted \in Seq(Keys) /\ Len(cache) <= MaxCache
      /\ MaxCache \in Nat \ {0} /\ Len(cache) \in Nat
  BY RuntimeAssumption DEF TabTypes
<1>2. /\ kept \in Seq(Keys) /\ Len(kept) = Len(cache) + 1 /\ ToSet(kept) = ToSet(cache) \cup {k}
      /\ kept[Len(cache) + 1] = k
  BY <1>1, AppendElements
<1>3. \A key \in Keys : Cardinality(Drops(evicted, key)) \in Nat
  BY <1>1, DropsFinite
<1>4. CASE Len(kept) <= MaxCache
  <2>1. cache' = kept /\ evicted' = evicted
    BY <1>4 DEF Keep
  <2> QED
    BY <1>1, <1>2, <1>3, <1>4, <2>1 DEF Counting
<1>5. CASE ~(Len(kept) <= MaxCache)
  <2>1. cache' = Tail(kept) /\ evicted' = Append(evicted, Head(kept))
    BY <1>5 DEF Keep
  <2>2. kept # <<>> /\ Len(kept) > 1
    BY <1>1, <1>2, <1>5
  <2> HIDE DEF kept
  <2>3. /\ Tail(kept) \in Seq(Keys) /\ Len(Tail(kept)) = Len(kept) - 1 /\ Head(kept) \in Keys
        /\ ToSet(kept) = {Head(kept)} \cup ToSet(Tail(kept))
    BY <1>2, <2>2, TailElements
  <2>4. k \in ToSet(Tail(kept))
    <3>1. Len(cache) \in 1..Len(Tail(kept)) /\ Tail(kept)[Len(cache)] = k
      BY <1>1, <1>2, <2>2, <2>3
    <3> QED
      BY <2>3, <3>1, DomainLength DEF ToSet
  <2>5. Append(evicted, Head(kept)) \in Seq(Keys)
    BY <1>1, <2>3
  <2>6. \A key \in Keys : Cardinality(Drops(evicted', key)) =
          Cardinality(Drops(evicted, key)) + (IF Head(kept) = key THEN 1 ELSE 0)
    BY <1>1, <2>1, <2>3, DropsAppend
  <2>7. Counting
    BY <1>2, <1>3, <2>1, <2>3, <2>6 DEF Counting
  <2> QED
    BY <1>1, <1>2, <2>1, <2>3, <2>4, <2>5, <2>7
<1> QED
  BY <1>4, <1>5

LEMMA NoLoss ==
  ASSUME TabTypes, UNCHANGED <<cache, evicted>>
  PROVE  Counting
<1>1. evicted \in Seq(Keys)
  BY DEF TabTypes
<1>2. \A key \in Keys : Cardinality(Drops(evicted, key)) \in Nat
  BY <1>1, DropsFinite
<1> QED
  BY <1>2 DEF Counting

LEMMA ExecsFinite ==
  ASSUME TabTypes, NEW key
  PROVE  IsFiniteSet(Execs(key)) /\ Cardinality(Execs(key)) \in Nat
<1>1. DOMAIN runs = 1..Len(runs) /\ Len(runs) \in Nat
  BY DEF TabTypes
<1>2. IsFiniteSet(1..Len(runs)) /\ Execs(key) \subseteq 1..Len(runs)
  BY <1>1, FS_Interval DEF Execs
<1> QED
  BY <1>2, FS_Subset, FS_CardinalityType

\* Bound keys stay bound, or are dropped, until the next run.
LEMMA OnceKept ==
  ASSUME Tab, UNCHANGED runs, evicted' \in Seq(Keys), Counting, ~opened' => cache' = <<>>,
         \A key \in Keys : Execs(key) # {} /\ Bound(key) =>
           key \in ToSet(cache) \/ Bound(key)'
  PROVE  Once'
<1> DEFINE D(key) == Cardinality(Drops(evicted, key))
           E(key) == Cardinality(Drops(evicted', key))
<1>1. \A key \in Keys : D(key) \in Nat /\ E(key) \in Nat
  BY DropsFinite DEF Tab, TabTypes
<1>2. ASSUME NEW key \in Keys
      PROVE  Cardinality(Execs(key)) <= E(key) + (IF Bound(key)' THEN 1 ELSE 0)
  <2>1. Cardinality(Execs(key)) <= D(key) + (IF Bound(key) THEN 1 ELSE 0)
    BY DEF Tab, Once
  <2>2. E(key) >= D(key) + (IF key \in ToSet(cache) /\ key \notin ToSet(cache') THEN 1 ELSE 0)
    BY DEF Counting
  <2>3. CASE Execs(key) = {}
    <3>1. Cardinality(Execs(key)) = 0
      BY <2>3, FS_EmptySet
    <3> QED
      BY <1>1, <3>1
  <2>4. CASE Execs(key) # {} /\ Bound(key)
    <3>1. key \in ToSet(cache) \/ Bound(key)'
      BY <2>4
    <3>2. key \in ToSet(cache') => Bound(key)'
      BY DEF Bound
    <3>3. IsFiniteSet(Execs(key)) /\ Cardinality(Execs(key)) \in Nat
      BY ExecsFinite DEF Tab
    <3> HIDE DEF D, E
    <3>4. CASE Bound(key)'
      BY <1>1, <2>1, <2>2, <2>4, <3>3, <3>4
    <3>5. CASE ~Bound(key)'
      BY <1>1, <2>1, <2>2, <2>4, <3>1, <3>2, <3>3, <3>5
    <3> QED
      BY <3>4, <3>5
  <2>5. CASE Execs(key) # {} /\ ~Bound(key)
    <3>1. IsFiniteSet(Execs(key)) /\ Cardinality(Execs(key)) \in Nat
      BY ExecsFinite DEF Tab
    <3> HIDE DEF D, E
    <3> QED
      BY <1>1, <2>1, <2>2, <2>5, <3>1
  <2> QED
    BY <2>3, <2>4, <2>5
<1>3. \A key \in Keys : Execs(key)' = Execs(key)
  BY DEF Execs
<1> QED
  BY <1>2, <1>3 DEF Tab, Once

-----------------------------------------------------------------------------
(* What the page decides: the four things that happen to the run under way. *)

Moves ==
  /\ UNCHANGED <<opened, snapshot, stored, runs>>
  /\ \/ UNCHANGED <<task, answers, cache, evicted>>
     \/ task.stage \notin {"none", "stored"} /\ Fail
     \/ /\ task.stage \notin {"none", "stored"}
        /\ \E s \in {"mount", "workspace", "run", "commit"}, w \in Nat : Go(s, w)
     \/ /\ task.stage # "none" /\ Kind(task.n) = "complete"
        /\ Answer("ok") /\ UNCHANGED <<cache, evicted>>

\* An answer ends the run and leaves the other answers alone.
LEMMA AnswerEnds ==
  ASSUME Tab, task.stage # "none", NEW result \in Results \ {"none"}, Answer(result)
  PROVE  /\ task' = NoTask /\ task'.stage = "none" /\ task.n \in DOMAIN answers
         /\ task' \in [n : Nat, stage : Stages, wait : Nat]
         /\ answers' \in Seq(Results) /\ Len(answers') = Len(answers)
         /\ answers'[task.n] = result /\ DOMAIN answers' = DOMAIN answers
         /\ \A n \in DOMAIN answers \ {task.n} : answers'[n] = answers[n] /\ answers[n] # "none"
         /\ \A n \in DOMAIN answers' : answers'[n] # "none"
<1>1. /\ answers \in Seq(Results) /\ task.n \in DOMAIN runs /\ Len(answers) = Len(runs)
      /\ runs \in Seq(Command)
  BY DEF Tab, TabTypes, Active
<1>2. task.n \in DOMAIN answers /\ answers' = [answers EXCEPT ![task.n] = result]
  BY <1>1 DEF Answer
<1>3. /\ answers' \in Seq(Results) /\ Len(answers') = Len(answers)
      /\ answers'[task.n] = result /\ DOMAIN answers' = DOMAIN answers
      /\ \A n \in DOMAIN answers \ {task.n} : answers'[n] = answers[n]
  BY <1>1, <1>2
<1>4. \A n \in DOMAIN answers \ {task.n} : answers[n] # "none"
  BY DEF Tab, Active
<1>5. task' = NoTask /\ NoTask.stage = "none" /\ NoTask \in [n : Nat, stage : Stages, wait : Nat]
  BY DEF Answer, NoTask, Stages
<1> QED
  BY <1>2, <1>3, <1>4, <1>5

\* A key that was executed is only submitted as an execution.
LEMMA ExecsKind ==
  ASSUME Tab, NEW key \in Keys, Execs(key) # {}, NEW n \in DOMAIN runs, runs[n].key = key
  PROVE  Kind(n) = "execute"
BY DEF Tab, Once, Execs, Kind

LEMMA RunKey ==
  ASSUME TabTypes, NEW n \in DOMAIN runs
  PROVE  runs[n] \in Command /\ runs[n].key \in Keys
BY DEF TabTypes, Keys

LEMMA FailKeeps ==
  ASSUME Tab, task.stage \notin {"none", "stored"}, Fail,
         UNCHANGED <<opened, snapshot, stored, runs>>
  PROVE  Tab'
<1> DEFINE k == runs[task.n].key
<1>1. /\ task'.stage = "none" /\ task.n \in DOMAIN answers
      /\ task' \in [n : Nat, stage : Stages, wait : Nat]
      /\ answers' \in Seq(Results) /\ Len(answers') = Len(answers)
      /\ answers'[task.n] = "failed" /\ DOMAIN answers' = DOMAIN answers
      /\ \A n \in DOMAIN answers \ {task.n} : answers'[n] = answers[n] /\ answers[n] # "none"
      /\ \A n \in DOMAIN answers' : answers'[n] # "none"
  BY AnswerEnds DEF Fail, Results
<1>2. task.n \in DOMAIN runs /\ opened /\ k \in Keys
  BY RunKey DEF Tab, Active
<1>3. /\ cache' \in Seq(Keys) /\ evicted' \in Seq(Keys) /\ Len(cache') <= MaxCache /\ Counting
      /\ Kind(task.n) = "execute" => k \in ToSet(cache')
  <2>1. CASE Kind(task.n) = "execute"
    BY <1>2, <2>1, KeepCounts DEF Fail, KeepFailure, Tab
  <2>2. CASE Kind(task.n) # "execute"
    BY <2>2, NoLoss DEF Fail, Tab, TabTypes
  <2> QED
    BY <2>1, <2>2
<1>4. TabTypes'
  BY <1>1, <1>3 DEF Tab, TabTypes
<1>5. Active'
  BY <1>1 DEF Active
<1>6. Durable'
  <2>1. task.n \notin ToSet(stored) \cup ToSet(snapshot)
    BY DEF Tab, Durable
  <2> QED
    BY <1>1, <2>1 DEF Tab, Durable, Kind
<1>7. Once'
  <2>1. ASSUME NEW key \in Keys, Execs(key) # {}, Bound(key)
        PROVE  key \in ToSet(cache) \/ Bound(key)'
    <3>1. CASE key = k
      <4>1. Kind(task.n) = "execute"
        BY <1>2, <2>1, <3>1, ExecsKind
      <4> QED
        BY <1>3, <3>1, <4>1 DEF Bound
    <3>2. CASE key # k
      <4>1. CASE \E n \in DOMAIN runs : runs[n].key = key /\ answers[n] = "lost"
        BY <1>1, <3>2, <4>1 DEF Bound, Tab, TabTypes
      <4> QED
        BY <2>1, <3>2, <4>1 DEF Bound
    <3> QED
      BY <3>1, <3>2
  <2> QED
    BY <1>2, <1>3, <2>1, OnceKept
<1> QED
  BY <1>4, <1>5, <1>6, <1>7 DEF Tab

LEMMA GoKeeps ==
  ASSUME Tab, task.stage \notin {"none", "stored"},
         NEW s \in {"mount", "workspace", "run", "commit"}, NEW w \in Nat, Go(s, w),
         UNCHANGED <<opened, snapshot, stored, runs>>
  PROVE  Tab'
<1>1. /\ task' \in [n : Nat, stage : Stages, wait : Nat] /\ task'.stage = s
      /\ task'.n = task.n /\ UNCHANGED <<answers, cache, evicted>>
  BY DEF Go, Tab, TabTypes, Stages
<1>2. TabTypes' /\ Active'
  BY <1>1 DEF Tab, TabTypes, Active
<1>3. Durable'
  BY <1>1 DEF Tab, Durable, Kind
<1>4. Once'
  <2>1. \A key \in Keys : Bound(key)' <=> Bound(key)
    BY <1>1 DEF Bound
  <2> QED
    BY <1>1, <2>1 DEF Tab, Once, Execs
<1> QED
  BY <1>2, <1>3, <1>4 DEF Tab

LEMMA CompletedKeeps ==
  ASSUME Tab, task.stage # "none", Kind(task.n) = "complete", Answer("ok"),
         UNCHANGED <<cache, evicted>>, UNCHANGED <<opened, snapshot, stored, runs>>
  PROVE  Tab'
<1>1. /\ task'.stage = "none" /\ task.n \in DOMAIN answers
      /\ task' \in [n : Nat, stage : Stages, wait : Nat]
      /\ answers' \in Seq(Results) /\ Len(answers') = Len(answers)
      /\ answers'[task.n] = "ok" /\ DOMAIN answers' = DOMAIN answers
      /\ \A n \in DOMAIN answers \ {task.n} : answers'[n] = answers[n] /\ answers[n] # "none"
      /\ \A n \in DOMAIN answers' : answers'[n] # "none"
  BY AnswerEnds DEF Results
<1>2. TabTypes' /\ Active'
  BY <1>1 DEF Tab, TabTypes, Active
<1>3. Durable'
  BY <1>1 DEF Tab, Durable, Kind, Changing
<1>4. Once'
  <2>1. ASSUME NEW key \in Keys, Execs(key) # {}, Bound(key)
        PROVE  key \in ToSet(cache) \/ Bound(key)'
    <3>1. key # runs[task.n].key
      BY <2>1, ExecsKind DEF Tab, Active
    <3>2. CASE \E n \in DOMAIN runs : runs[n].key = key /\ answers[n] = "lost"
      BY <1>1, <3>1, <3>2 DEF Bound, Tab, TabTypes
    <3> QED
      BY <2>1, <3>1, <3>2 DEF Bound
  <2>2. Counting /\ opened
    BY NoLoss DEF Tab, Active
  <2> QED
    BY <2>1, <2>2, OnceKept DEF Tab, TabTypes
<1> QED
  BY <1>2, <1>3, <1>4 DEF Tab

LEMMA MovesKeeps ==
  ASSUME Tab, Moves
  PROVE  Tab'
<1>1. CASE UNCHANGED <<task, answers, cache, evicted>>
  <2>1. UNCHANGED <<opened, snapshot, stored, runs>>
    BY DEF Moves
  <2> QED
    BY <1>1, <2>1 DEF Tab, TabTypes, Active, Durable, Once, Bound, Execs, Kind, Proposal
<1> QED
  BY <1>1, FailKeeps, GoKeeps, CompletedKeeps DEF Moves

-----------------------------------------------------------------------------
(* The other steps of the page. *)

LEMMA OpenKeepsTab ==
  ASSUME Tab, Open
  PROVE  Tab'
<1>1. /\ ~opened /\ opened' = TRUE /\ snapshot' = stored /\ cache' = <<"setup">>
      /\ UNCHANGED <<task, stored, runs, answers, evicted>>
  BY DEF Open
<1>2. task.stage = "none" /\ cache = <<>>
  BY <1>1 DEF Tab, Active, Once
<1>3. cache' \in Seq(Keys) /\ Len(cache') = 1 /\ MaxCache >= 1
  BY <1>1, RuntimeAssumption DEF Keys
<1>4. TabTypes' /\ Active'
  BY <1>1, <1>2, <1>3 DEF Tab, TabTypes, Active
<1>5. Durable'
  BY <1>1, <1>2 DEF Tab, Durable, Kind
<1>6. Counting
  <2>1. ToSet(cache) = {}
    BY <1>2 DEF ToSet
  <2>2. \A key \in Keys : Cardinality(Drops(evicted, key)) \in Nat
    BY DropsFinite DEF Tab, TabTypes
  <2> QED
    BY <1>1, <2>1, <2>2 DEF Counting
<1>7. Once'
  <2>1. \A key \in Keys : Bound(key) => Bound(key)' \/ key \in ToSet(cache)
    BY <1>1, <1>2 DEF Bound
  <2> QED
    BY <1>1, <1>6, <2>1, OnceKept DEF Tab, TabTypes
<1> QED
  BY <1>4, <1>5, <1>7 DEF Tab

\* A run begins: it is under way, or refused at once by a runtime that failed.
Begins(command) ==
  /\ opened /\ task.stage = "none"
  /\ command.key \notin ToSet(cache)
  /\ \A n \in DOMAIN runs : runs[n].key = command.key =>
       answers[n] # "lost" /\ runs[n].kind = command.kind
  /\ runs' = Append(runs, command) /\ UNCHANGED <<opened, snapshot, stored>>
  /\ \/ /\ \E s \in {"init", "mount", "restart", "commit"}, w \in Nat :
             task' = [n |-> Len(runs) + 1, stage |-> s, wait |-> w]
        /\ answers' = Append(answers, "none") /\ UNCHANGED <<cache, evicted>>
     \/ /\ task' = NoTask /\ answers' = Append(answers, "failed")
        /\ IF command.kind = "execute" THEN Keep(command.key) ELSE UNCHANGED <<cache, evicted>>

LEMMA BeginsKeeps ==
  ASSUME Tab, NEW command \in Command, Begins(command)
  PROVE  Tab'
<1> DEFINE n == Len(runs) + 1
           k == command.key
<1>1. PICK r \in {"none", "failed"} : answers' = Append(answers, r)
  BY DEF Begins
<1>2. /\ runs' = Append(runs, command) /\ UNCHANGED <<opened, snapshot, stored>>
      /\ opened /\ task.stage = "none" /\ k \notin ToSet(cache) /\ k \in Keys
      /\ runs \in Seq(Command) /\ answers \in Seq(Results) /\ Len(answers) = Len(runs)
  BY DEF Begins, Tab, TabTypes, Keys
<1>3. /\ runs' \in Seq(Command) /\ Len(runs') = n /\ DOMAIN runs' = DOMAIN runs \cup {n}
      /\ \A m \in DOMAIN runs : runs'[m] = runs[m]
      /\ runs'[n] = command /\ n \notin DOMAIN runs /\ n \in Nat
  BY <1>2, AppendElements
<1>4. /\ answers' \in Seq(Results) /\ Len(answers') = n /\ DOMAIN answers' = DOMAIN runs'
      /\ DOMAIN answers = DOMAIN runs
      /\ \A m \in DOMAIN runs : answers'[m] = answers[m] /\ answers[m] # "none"
      /\ answers'[n] = r
  <2>1. r \in Results /\ DOMAIN answers = DOMAIN runs
    BY <1>2 DEF Results
  <2>2. \A m \in DOMAIN answers : answers[m] # "none"
    BY <1>2 DEF Tab, Active
  <2> QED
    BY <1>1, <1>2, <1>3, <2>1, <2>2, AppendElements
<1>5. /\ task' \in [n : Nat, stage : Stages, wait : Nat]
      /\ r = "none" <=> task'.stage # "none"
      /\ task'.stage # "none" => task'.n = n
      /\ task'.stage # "stored"
      /\ r = "none" => UNCHANGED <<cache, evicted>>
      /\ r = "failed" => IF command.kind = "execute" THEN Keep(k)
                         ELSE UNCHANGED <<cache, evicted>>
  <2>1. CASE task' = NoTask /\ answers' = Append(answers, "failed")
              /\ IF command.kind = "execute" THEN Keep(k) ELSE UNCHANGED <<cache, evicted>>
    <3>1. Append(answers, "failed")[n] = "failed"
      BY <1>2
    <3> QED
      BY <1>4, <2>1, <3>1 DEF NoTask, Stages
  <2>2. CASE /\ \E s \in {"init", "mount", "restart", "commit"}, w \in Nat :
                  task' = [n |-> n, stage |-> s, wait |-> w]
             /\ answers' = Append(answers, "none") /\ UNCHANGED <<cache, evicted>>
    <3>1. Append(answers, "none")[n] = "none"
      BY <1>2
    <3> QED
      BY <1>3, <1>4, <2>2, <3>1 DEF Stages
  <2> QED
    BY <2>1, <2>2 DEF Begins
<1>6. /\ cache' \in Seq(Keys) /\ evicted' \in Seq(Keys) /\ Len(cache') <= MaxCache /\ Counting
      /\ command.kind = "execute" /\ r = "failed" => k \in ToSet(cache')
  <2>1. CASE r = "failed" /\ command.kind = "execute"
    BY <1>2, <1>5, <2>1, KeepCounts DEF Tab
  <2>2. CASE UNCHANGED <<cache, evicted>> /\ ~(r = "failed" /\ command.kind = "execute")
    BY <2>2, NoLoss DEF Tab, TabTypes
  <2> QED
    BY <1>5, <2>1, <2>2
<1> HIDE DEF n, k
<1>7. TabTypes'
  BY <1>2, <1>3, <1>4, <1>5, <1>6 DEF Tab, TabTypes
<1>8. Active'
  BY <1>2, <1>3, <1>4, <1>5 DEF Active
<1>9. Durable'
  <2>1. ToSet(stored) \subseteq DOMAIN runs /\ ToSet(snapshot) \subseteq DOMAIN runs
    BY DEF Tab, Durable
  <2> QED
    BY <1>2, <1>3, <1>4, <1>5, <2>1 DEF Tab, Durable, Kind
<1>10. Once'
  <2>1. \A m \in DOMAIN runs : runs[m].key = k => answers[m] # "lost" /\ runs[m].kind = command.kind
    BY DEF Begins, k
  <2>2. \A l, m \in DOMAIN runs' : runs'[l].key = runs'[m].key => runs'[l].kind = runs'[m].kind
    BY <1>3, <2>1 DEF Tab, Once, k
  <2>3. ASSUME NEW key \in Keys
        PROVE  Cardinality(Execs(key)') <=
                 Cardinality(Drops(evicted', key)) + (IF Bound(key)' THEN 1 ELSE 0)
    <3> DEFINE D == Cardinality(Drops(evicted, key))
               E == Cardinality(Drops(evicted', key))
               X == Cardinality(Execs(key))
    <3>1. D \in Nat /\ E \in Nat /\ X \in Nat /\ IsFiniteSet(Execs(key))
      BY <1>6, DropsFinite, ExecsFinite DEF Tab, TabTypes
    <3>2. X <= D + (IF Bound(key) THEN 1 ELSE 0)
      BY DEF Tab, Once
    <3>3. E >= D + (IF key \in ToSet(cache) /\ key \notin ToSet(cache') THEN 1 ELSE 0)
      BY <1>6 DEF Counting
    <3> HIDE DEF D, E
    <3>4. CASE key = k
      <4>1. ~Bound(key)
        BY <1>2, <2>1, <3>4, <1>4 DEF Bound
      <4>2. CASE command.kind = "execute"
        <5>1. Execs(key)' = Execs(key) \cup {n}
          BY <1>3, <3>4, <4>2 DEF Execs, k
        <5>2. n \notin Execs(key)
          BY <1>3 DEF Execs
        <5>3. Cardinality(Execs(key)') = X + 1
          BY <3>1, <5>1, <5>2, FS_AddElement
        <5>4. Bound(key)'
          <6>1. CASE r = "failed"
            BY <1>6, <3>4, <4>2, <6>1 DEF Bound
          <6>2. CASE r = "none"
            BY <1>3, <1>5, <3>4, <6>2 DEF Bound, k
          <6> QED
            BY <6>1, <6>2
        <5> HIDE DEF X
        <5> QED
          BY <3>1, <3>2, <3>3, <4>1, <5>3, <5>4 DEF E
      <4>3. CASE command.kind # "execute"
        <5>1. Execs(key)' = Execs(key)
          BY <1>3, <4>3 DEF Execs
        <5>2. Cardinality(Execs(key)') = X
          BY <5>1
        <5> HIDE DEF X
        <5> QED
          BY <3>1, <3>2, <3>3, <4>1, <5>2 DEF E
      <4> QED
        BY <4>2, <4>3
    <3>5. CASE key # k
      <4>1. Execs(key)' = Execs(key)
        BY <1>3, <3>5 DEF Execs, k
      <4>2. Bound(key) => key \in ToSet(cache) \/ Bound(key)'
        BY <1>2, <1>3, <1>4 DEF Bound
      <4>3. key \in ToSet(cache') => Bound(key)'
        BY DEF Bound
      <4>4. Cardinality(Execs(key)') = X
        BY <4>1
      <4> HIDE DEF X
      <4> QED
        BY <3>1, <3>2, <3>3, <4>2, <4>3, <4>4 DEF E
    <3> QED
      BY <3>4, <3>5
  <2> QED
    BY <1>2, <2>2, <2>3 DEF Once
<1> QED
  BY <1>7, <1>8, <1>9, <1>10 DEF Tab

\* A change is in the proposal, after all that was shown.
LEMMA ProposalElements ==
  ASSUME Tab, task.stage # "none"
  PROVE  /\ Proposal \in Seq(Nat) /\ ToSet(snapshot) \subseteq ToSet(Proposal)
         /\ ToSet(Proposal) \subseteq ToSet(snapshot) \cup {task.n}
         /\ Kind(task.n) \in Changing => task.n \in ToSet(Proposal)
<1>1. snapshot \in Seq(Nat) /\ task.n \in Nat
  BY DEF Tab, TabTypes
<1>2. /\ Append(snapshot, task.n) \in Seq(Nat)
      /\ ToSet(Append(snapshot, task.n)) = ToSet(snapshot) \cup {task.n}
  BY <1>1, AppendElements
<1>3. CASE Kind(task.n) \in Changing
  <2>1. Proposal = Append(snapshot, task.n)
    BY <1>3 DEF Proposal
  <2> QED
    BY <1>2, <2>1
<1>4. CASE Kind(task.n) \notin Changing
  <2>1. Proposal = snapshot
    BY <1>4 DEF Proposal
  <2> QED
    BY <1>1, <1>4, <2>1
<1> QED
  BY <1>3, <1>4

LEMMA CommitKeepsTab ==
  ASSUME Tab, Commit
  PROVE  Tab'
<1>1. /\ task.stage = "commit" /\ stored' = Proposal
      /\ task' = [task EXCEPT !.stage = "stored", !.wait = 0]
      /\ UNCHANGED <<opened, snapshot, runs, answers, cache, evicted>>
  BY DEF Commit, Go
<1>2. /\ task' \in [n : Nat, stage : Stages, wait : Nat] /\ task'.stage = "stored"
      /\ task'.n = task.n
  BY <1>1 DEF Tab, TabTypes, Stages
<1>3. /\ opened /\ task.n \in DOMAIN runs /\ answers[task.n] = "none"
  BY <1>1 DEF Tab, Active, TabTypes
<1>4. /\ Proposal \in Seq(Nat) /\ ToSet(snapshot) \subseteq ToSet(Proposal)
      /\ ToSet(Proposal) \subseteq ToSet(snapshot) \cup {task.n}
  BY <1>1, ProposalElements
<1>5. Proposal' = Proposal
  BY <1>1, <1>2 DEF Proposal, Kind
<1>6. TabTypes' /\ Active'
  BY <1>1, <1>2, <1>4 DEF Tab, TabTypes, Active
<1>7. Durable'
  <2>1. ToSet(stored') \subseteq DOMAIN runs /\ stored' = Proposal'
    BY <1>1, <1>3, <1>4, <1>5 DEF Tab, Durable
  <2>2. ASSUME NEW n \in DOMAIN answers, answers[n] = "ok", Kind(n) \in Changing
        PROVE  n \in ToSet(stored') /\ n \in ToSet(snapshot)
    BY <1>1, <1>3, <1>4, <2>2 DEF Tab, Durable
  <2>3. ASSUME NEW n \in DOMAIN answers, answers[n] = "failed"
        PROVE  n \notin ToSet(stored') \cup ToSet(snapshot)
    <3>1. n # task.n
      BY <1>3, <2>3
    <3> QED
      BY <1>1, <1>4, <2>3, <3>1 DEF Tab, Durable
  <2>4. ToSet(snapshot) \subseteq DOMAIN runs
    BY DEF Tab, Durable
  <2> QED
    BY <1>1, <1>2, <2>1, <2>2, <2>3, <2>4 DEF Durable, Kind
<1>8. Once'
  <2>1. \A key \in Keys : Bound(key)' <=> Bound(key)
    BY <1>1, <1>2 DEF Bound
  <2> QED
    BY <1>1, <2>1 DEF Tab, Once, Execs
<1> QED
  BY <1>6, <1>7, <1>8 DEF Tab

LEMMA AcknowledgeKeepsTab ==
  ASSUME Tab, Acknowledge
  PROVE  Tab'
<1> DEFINE k == runs[task.n].key
<1>1. /\ task.stage = "stored" /\ snapshot' = Proposal /\ Answer("ok") /\ Keep(k)
      /\ UNCHANGED <<opened, stored, runs>>
  BY DEF Acknowledge
<1>2. /\ task'.stage = "none" /\ task.n \in DOMAIN answers
      /\ task' \in [n : Nat, stage : Stages, wait : Nat]
      /\ answers' \in Seq(Results) /\ Len(answers') = Len(answers)
      /\ answers'[task.n] = "ok" /\ DOMAIN answers' = DOMAIN answers
      /\ \A n \in DOMAIN answers \ {task.n} : answers'[n] = answers[n] /\ answers[n] # "none"
      /\ \A n \in DOMAIN answers' : answers'[n] # "none"
  BY <1>1, AnswerEnds DEF Results
<1>3. task.n \in DOMAIN runs /\ opened /\ k \in Keys
  BY <1>1, RunKey DEF Tab, Active
<1>4. /\ cache' \in Seq(Keys) /\ evicted' \in Seq(Keys) /\ Len(cache') <= MaxCache /\ Counting
      /\ k \in ToSet(cache')
  BY <1>1, <1>3, KeepCounts DEF Tab
<1>5. stored = Proposal
  BY <1>1 DEF Tab, Durable
<1>6. /\ Proposal \in Seq(Nat)
      /\ Kind(task.n) \in Changing => task.n \in ToSet(Proposal)
  BY <1>1, ProposalElements
<1>7. TabTypes' /\ Active'
  BY <1>1, <1>2, <1>4, <1>6 DEF Tab, TabTypes, Active
<1>8. Durable'
  <2>1. ToSet(stored) \subseteq DOMAIN runs
    BY DEF Tab, Durable
  <2>2. ASSUME NEW n \in DOMAIN answers, answers'[n] = "ok", Kind(n) \in Changing
        PROVE  n \in ToSet(stored)
    BY <1>2, <1>5, <1>6, <2>2 DEF Tab, Durable
  <2>3. ASSUME NEW n \in DOMAIN answers, answers'[n] = "failed"
        PROVE  n \notin ToSet(stored)
    BY <1>2, <2>3 DEF Tab, Durable
  <2> QED
    BY <1>1, <1>2, <1>5, <2>1, <2>2, <2>3 DEF Durable, Kind
<1>9. Once'
  <2>1. ASSUME NEW key \in Keys, Bound(key)
        PROVE  key \in ToSet(cache) \/ Bound(key)'
    <3>1. CASE key = k
      BY <1>4, <3>1 DEF Bound
    <3>2. CASE \E n \in DOMAIN runs : runs[n].key = key /\ answers[n] = "lost"
      <4>1. answers[task.n] = "none"
        BY <1>1, <1>2 DEF Tab, Active
      <4> QED
        BY <1>1, <1>2, <3>2, <4>1 DEF Bound, Tab, TabTypes
    <3> QED
      BY <2>1, <3>1, <3>2 DEF Bound
  <2> QED
    BY <1>1, <1>3, <1>4, <2>1, OnceKept
<1> QED
  BY <1>7, <1>8, <1>9 DEF Tab

LEMMA ReloadKeepsTab ==
  ASSUME Tab, Reload
  PROVE  Tab'
<1>1. /\ opened' = FALSE /\ task' = NoTask /\ snapshot' = <<>> /\ cache' = <<>>
      /\ answers' = [n \in DOMAIN answers |-> IF answers[n] = "none" THEN "lost" ELSE answers[n]]
      /\ evicted' = evicted \o cache /\ UNCHANGED <<stored, runs>>
  BY DEF Reload
<1>2. /\ cache \in Seq(Keys) /\ evicted \in Seq(Keys) /\ answers \in Seq(Results)
      /\ MaxCache \in Nat /\ Len(answers) = Len(runs) /\ runs \in Seq(Command)
  BY RuntimeAssumption DEF Tab, TabTypes
<1>3. /\ answers' \in Seq(Results) /\ Len(answers') = Len(answers)
      /\ DOMAIN answers' = DOMAIN answers
      /\ \A n \in DOMAIN answers :
           answers'[n] = (IF answers[n] = "none" THEN "lost" ELSE answers[n])
  <2>1. DOMAIN answers = 1..Len(answers) /\ Len(answers) \in Nat
        /\ \A n \in DOMAIN answers : answers[n] \in Results
    BY <1>2
  <2>2. answers' \in [1..Len(answers) -> Results]
    BY <1>1, <2>1 DEF Results
  <2>3. answers' \in Seq(Results) /\ Len(answers') = Len(answers)
    BY <2>1, <2>2
  <2> QED
    BY <1>1, <2>1, <2>3
<1>4. /\ task'.stage = "none" /\ task' \in [n : Nat, stage : Stages, wait : Nat]
  BY <1>1 DEF NoTask, Stages
<1>5. /\ cache' \in Seq(Keys) /\ Len(cache') = 0 /\ ToSet(cache') = {}
      /\ snapshot' \in Seq(Nat) /\ ToSet(snapshot') = {}
      /\ evicted' \in Seq(Keys)
  BY <1>1, <1>2 DEF ToSet
<1>6. TabTypes' /\ Active'
  <2>1. TabTypes'
    <3>1. stored \in Seq(Nat)
      BY DEF Tab, TabTypes
    <3>2. Len(cache') <= MaxCache
      BY <1>2, <1>5
    <3> QED
      BY <1>1, <1>2, <1>3, <1>4, <1>5, <3>1, <3>2 DEF TabTypes
  <2>2. Active'
    <3>1. \A n \in DOMAIN answers : answers'[n] # "none"
      BY <1>3
    <3> QED
      BY <1>3, <1>4, <3>1 DEF Active
  <2> QED
    BY <2>1, <2>2
<1>7. Durable'
  <2>1. ToSet(stored) \subseteq DOMAIN runs
    BY DEF Tab, Durable
  <2>2. ASSUME NEW n \in DOMAIN answers, answers'[n] = "ok", Kind(n) \in Changing
        PROVE  n \in ToSet(stored)
    BY <1>3, <2>2 DEF Tab, Durable
  <2>3. ASSUME NEW n \in DOMAIN answers, answers'[n] = "failed"
        PROVE  n \notin ToSet(stored)
    BY <1>3, <2>3 DEF Tab, Durable
  <2> QED
    BY <1>1, <1>3, <1>4, <1>5, <2>1, <2>2, <2>3 DEF Durable, Kind
<1>8. Counting
  <2>1. \A key \in Keys : Cardinality(Drops(evicted', key)) >=
          Cardinality(Drops(evicted, key)) + (IF key \in ToSet(cache) THEN 1 ELSE 0)
    BY <1>1, <1>2, DropsConcat
  <2> QED
    BY <1>5, <2>1 DEF Counting
<1>9. Once'
  <2>1. ASSUME NEW key \in Keys, Bound(key)
        PROVE  key \in ToSet(cache) \/ Bound(key)'
    <3>1. CASE task.stage # "none" /\ runs[task.n].key = key
      <4>1. task.n \in DOMAIN runs /\ answers[task.n] = "none" /\ task.n \in DOMAIN answers
        BY <1>2, <3>1 DEF Tab, Active
      <4> QED
        BY <1>1, <1>3, <3>1, <4>1 DEF Bound
    <3>2. CASE \E n \in DOMAIN runs : runs[n].key = key /\ answers[n] = "lost"
      BY <1>1, <1>2, <1>3, <3>2 DEF Bound
    <3> QED
      BY <2>1, <3>1, <3>2 DEF Bound
  <2> QED
    BY <1>1, <1>5, <1>8, <2>1, OnceKept
<1> QED
  BY <1>6, <1>7, <1>9 DEF Tab

-----------------------------------------------------------------------------
(* What the page exchanges with the worker. *)

\* While the run awaits no request, no worker has one either.
LEMMA Quiet ==
  ASSUME RuntimeInvariant, task.wait = 0
  PROVE  /\ \A p \in kernel.pending : Orphan(p)
         /\ kernel.inbox = <<>> /\ kernel.running = {}
<1>1. kernel \in Kernel /\ \A p \in kernel.pending : p \in Request /\ 1 <= p.id
  BY DEF RuntimeInvariant, Exchange, ExchangeTypes, Numbers, Kernel
<1>2. \A p \in kernel.pending : ~Mine(p)
  BY <1>1 DEF Mine, Request
<1>3. Posted = {}
  BY <1>2 DEF RuntimeInvariant, Exchange, OneRequest
<1>4. ToSet(kernel.inbox) = {} /\ kernel.running = {} /\ kernel.inbox \in Seq(Request)
  BY <1>1, <1>3 DEF Posted, Kernel
<1>5. kernel.inbox = <<>>
  BY <1>4, NoElements
<1> QED
  BY <1>2, <1>4, <1>5 DEF RuntimeInvariant, Exchange, OneRequest

\* An answer to a pending request is the answer the run awaits, and the worker
\* has nothing else to do.
LEMMA Answered ==
  ASSUME RuntimeInvariant, NEW i \in DOMAIN mail, NEW p \in kernel.pending, p.id = mail[i].id
  PROVE  /\ Mine(p) /\ kernel.inbox = <<>> /\ kernel.running = {}
         /\ \A q \in kernel.pending : q.id # p.id => Orphan(q)
<1>1. kernel \in Kernel
  BY DEF RuntimeInvariant, Exchange, ExchangeTypes
<1>2. Mine(p)
  BY DEF RuntimeInvariant, Exchange, OneRequest, Orphan
<1>3. Posted = {}
  BY <1>2 DEF RuntimeInvariant, Exchange, OneRequest, Mine
<1>4. ToSet(kernel.inbox) = {} /\ kernel.running = {} /\ kernel.inbox \in Seq(Request)
  BY <1>1, <1>3 DEF Posted, Kernel
<1>5. kernel.inbox = <<>>
  BY <1>4, NoElements
<1>6. \A q \in kernel.pending : q.id # p.id => Orphan(q)
  BY <1>2 DEF RuntimeInvariant, Exchange, OneRequest, Mine
<1> QED
  BY <1>2, <1>4, <1>5, <1>6

RunsKept == \A n \in DOMAIN runs : n \in DOMAIN runs' /\ runs'[n] = runs[n]
FewerMail ==
  mail' \in Seq(Message) /\ \A i \in DOMAIN mail' : \E j \in DOMAIN mail : mail'[i] = mail[j]
\* What a step leaves alone when it starts no code and stops none.
Calm ==
  /\ RunsKept /\ FewerMail /\ stopTimers' \subseteq stopTimers
  /\ UNCHANGED <<ran, stops>> /\ hit' \subseteq stops

\* A request that is left over, or added without being posted.
Left(p) ==
  \/ p \in kernel.pending /\ Orphan(p)
  \/ p = [id |-> NextId, method |-> "workspace", n |-> task.n] /\ task.n \in DOMAIN runs
       /\ count'.requests = NextId

\* A step after which neither the run nor the worker awaits the other.
LEMMA IdleKeeps ==
  ASSUME RuntimeInvariant, Calm,
         kernel' \in Kernel, kernel'.up <=> kernel'.ready # "none",
         kernel'.inbox = <<>>, kernel'.running = {}, \A p \in kernel'.pending : Left(p),
         count' \in [requests : Nat, stops : Nat, reloads : Nat, errors : Nat],
         count'.requests >= count.requests, task'.wait = 0 \/ kernel'.pending = {}, Awaits'
  PROVE  Exchange'
<1>1. /\ count \in [requests : Nat, stops : Nat, reloads : Nat, errors : Nat]
      /\ kernel \in Kernel /\ mail \in Seq(Message)
      /\ ran \cup hit \cup stops \subseteq DOMAIN runs /\ stopTimers \subseteq Nat
  BY DEF RuntimeInvariant, Exchange, ExchangeTypes
<1>2. count.requests \in Nat /\ count'.requests \in Nat
  BY <1>1
<1>3. ExchangeTypes'
  BY <1>1 DEF ExchangeTypes, Calm, FewerMail, RunsKept
<1>4. /\ \A p \in kernel.pending : p \in Request /\ 1 <= p.id /\ p.id <= count.requests
                                     /\ p.n \in DOMAIN runs
      /\ \A i \in DOMAIN mail : mail[i].id <= count.requests /\ mail[i].id \in Nat
      /\ \A id \in stopTimers : id <= count.requests /\ id \in Nat
  <2>1. \A p \in kernel.pending : p \in Request
    BY <1>1 DEF Kernel
  <2>2. \A i \in DOMAIN mail : mail[i] \in Message
    BY <1>1
  <2> QED
    BY <1>1, <2>1, <2>2 DEF RuntimeInvariant, Exchange, Numbers, Message
<1>5. ASSUME NEW p \in kernel'.pending
      PROVE  /\ 1 <= p.id /\ p.id <= count'.requests /\ p.n \in DOMAIN runs'
             /\ p.method = "workspace" /\ p.id # 0 /\ p.id \in Nat
             /\ \A j \in DOMAIN mail : mail[j].id # p.id
             /\ \A id \in stopTimers : p.id # id
  <2>1. CASE p \in kernel.pending /\ Orphan(p)
    <3>1. p \in Request /\ 1 <= p.id /\ p.id <= count.requests /\ p.n \in DOMAIN runs
      BY <1>4, <2>1
    <3>2. p.method = "workspace" /\ \A j \in DOMAIN mail : mail[j].id # p.id
      BY <2>1 DEF Orphan
    <3>3. \A id \in stopTimers : p.id # id
      BY <2>1, <3>2 DEF RuntimeInvariant, Exchange, Stopped
    <3> QED
      BY <1>2, <3>1, <3>2, <3>3 DEF Calm, RunsKept, Request
  <2>2. CASE p = [id |-> NextId, method |-> "workspace", n |-> task.n] /\ task.n \in DOMAIN runs
             /\ count'.requests = NextId
    <3>1. p.id = NextId /\ p.method = "workspace" /\ p.n = task.n
      BY <2>2
    <3>2. NextId = count.requests + 1
      BY DEF NextId
    <3> QED
      BY <1>2, <1>4, <2>2, <3>1, <3>2 DEF Calm, RunsKept
  <2> QED
    BY <2>1, <2>2 DEF Left
<1>6. ASSUME NEW i \in DOMAIN mail' PROVE mail'[i].id <= count'.requests
  <2>1. PICK j \in DOMAIN mail : mail'[i] = mail[j]
    BY DEF Calm, FewerMail
  <2>2. mail[j].id <= count.requests /\ mail[j].id \in Nat
    BY <1>4
  <2> QED
    BY <1>2, <2>1, <2>2
<1>7. Numbers'
  <2>1. \A id \in stopTimers' : id <= count'.requests
    BY <1>2, <1>4 DEF Calm
  <2> QED
    BY <1>5, <1>6, <2>1 DEF Numbers
<1>8. Posted' = {}
  <2>1. ToSet(kernel'.inbox) = {}
    BY DEF ToSet
  <2> QED
    BY <2>1 DEF Posted
<1>9. OneRequest'
  <2>1. ASSUME NEW p \in kernel'.pending PROVE Orphan(p)'
    BY <1>5, <2>1 DEF Orphan, Calm, FewerMail
  <2>2. Len(kernel'.inbox) <= 1
    OBVIOUS
  <2> QED
    BY <1>5, <1>8, <2>1, <2>2 DEF OneRequest
<1>10. Stopped'
  <2>1. \A n \in ran' : Kind(n)' = "execute"
    BY <1>1 DEF RuntimeInvariant, Exchange, Stopped, Calm, RunsKept, Kind
  <2> QED
    BY <1>5, <1>8, <2>1 DEF Stopped, Calm
<1> QED
  BY <1>3, <1>7, <1>9, <1>10 DEF Exchange

\* A step that posts the next request of the run, and starts to await it.
LEMMA PostKeeps ==
  ASSUME RuntimeInvariant, Calm, Counted,
         NEW k \in Kernel, k.up, k.ready # "none", k.inbox = <<>>, k.running = {},
         \A p \in k.pending : p \in kernel.pending /\ Orphan(p),
         NEW method \in Methods, method = "execute" => ~k.flag,
         kernel' = Post(k, NextId, method),
         task'.wait = NextId, task'.n \in DOMAIN runs', task'.n \in Nat,
         task'.stage # "none", Fits(method)', Awaits'
  PROVE  Exchange'
<1> DEFINE request == [id |-> NextId, method |-> method, n |-> task'.n]
           pending == k.pending \cup {request}
<1>1. /\ count \in [requests : Nat, stops : Nat, reloads : Nat, errors : Nat]
      /\ kernel \in Kernel /\ mail \in Seq(Message)
      /\ ran \cup hit \cup stops \subseteq DOMAIN runs /\ stopTimers \subseteq Nat
  BY DEF RuntimeInvariant, Exchange, ExchangeTypes
<1>2. /\ NextId \in Nat /\ NextId > count.requests /\ count.requests \in Nat
      /\ count' = [count EXCEPT !.requests = NextId]
      /\ count' \in [requests : Nat, stops : Nat, reloads : Nat, errors : Nat]
      /\ count'.requests = NextId /\ NextId >= 1
  BY <1>1 DEF NextId, Counted
<1>3. /\ request \in Request /\ request.id = NextId /\ request.method = method
      /\ request.n = task'.n
  BY <1>2 DEF Request
<1> HIDE DEF request
<1>4. /\ kernel' \in Kernel /\ kernel'.pending = pending /\ kernel'.inbox = <<request>>
      /\ kernel'.running = {} /\ kernel'.up = k.up /\ kernel'.ready = k.ready
      /\ kernel'.flag = k.flag
  <2>1. kernel' = [k EXCEPT !.pending = pending, !.inbox = <<request>>]
    <3>1. kernel' = [k EXCEPT !.pending = @ \cup {request},
                              !.inbox = IF k.up THEN Append(@, request) ELSE @]
      BY DEF Post, request
    <3>2. Append(k.inbox, request) = <<request>>
      OBVIOUS
    <3> QED
      BY <3>1, <3>2 DEF Kernel
  <2>2. pending \in SUBSET Request /\ <<request>> \in Seq(Request)
    BY <1>3 DEF Kernel
  <2> HIDE DEF pending
  <2> QED
    BY <2>1, <2>2 DEF Kernel
<1>5. /\ \A p \in k.pending : p \in Request /\ 1 <= p.id /\ p.id <= count.requests
                                 /\ p.n \in DOMAIN runs /\ p.method = "workspace"
      /\ \A i \in DOMAIN mail : mail[i].id <= count.requests /\ mail[i].id \in Nat
      /\ \A id \in stopTimers : id <= count.requests /\ id \in Nat
  <2>1. \A p \in kernel.pending : p \in Request
    BY <1>1 DEF Kernel
  <2>2. \A i \in DOMAIN mail : mail[i] \in Message
    BY <1>1
  <2> QED
    BY <1>1, <2>1, <2>2 DEF RuntimeInvariant, Exchange, Numbers, Message, Orphan
<1>6. ExchangeTypes'
  BY <1>1, <1>2, <1>4 DEF ExchangeTypes, Calm, FewerMail, RunsKept
<1>7. ASSUME NEW i \in DOMAIN mail'
      PROVE  /\ mail'[i].id <= count.requests /\ mail'[i].id \in Nat
             /\ \A p \in k.pending : mail'[i].id # p.id
  <2>1. PICK j \in DOMAIN mail : mail'[i] = mail[j]
    BY DEF Calm, FewerMail
  <2> QED
    BY <1>5, <2>1 DEF Orphan
<1>8. Numbers'
  <2>1. ASSUME NEW p \in kernel'.pending
        PROVE  1 <= p.id /\ p.id <= count'.requests /\ p.n \in DOMAIN runs'
    <3>1. CASE p = request
      BY <1>2, <1>3, <3>1
    <3>2. CASE p \in k.pending
      <4>1. p.id \in Nat
        BY <1>5, <3>2 DEF Request
      <4> QED
        BY <1>2, <1>5, <3>2, <4>1 DEF Calm, RunsKept
    <3> QED
      BY <1>4, <3>1, <3>2
  <2>2. \A i \in DOMAIN mail' : mail'[i].id <= count'.requests
    BY <1>2, <1>7
  <2>3. \A id \in stopTimers' : id <= count'.requests
    BY <1>2, <1>5 DEF Calm
  <2> QED
    BY <2>1, <2>2, <2>3 DEF Numbers
<1>9. ASSUME NEW p, p = request PROVE Mine(p)'
  BY <1>3, <1>9 DEF Mine
<1>10. Posted' = {request}
  <2>1. ToSet(<<request>>) = {request}
    BY DEF ToSet
  <2> QED
    BY <1>4, <2>1 DEF Posted
<1>11. OneRequest'
  <2>1. ASSUME NEW p \in k.pending PROVE Orphan(p)'
    <3>1. p.id # task'.wait
      <4>1. p.id \in Nat
        BY <1>5 DEF Request
      <4> QED
        BY <1>2, <1>5, <4>1
    <3> QED
      BY <1>5, <1>7, <3>1 DEF Orphan
  <2>2. ASSUME NEW p \in kernel'.pending
        PROVE  (Mine(p)' /\ kernel'.up) \/ Orphan(p)'
    <3>1. CASE p = request
      BY <1>4, <1>9, <3>1
    <3>2. CASE p \in k.pending
      BY <1>5, <2>1, <3>2
    <3> QED
      BY <1>4, <3>1, <3>2
  <2>3. ASSUME NEW i \in DOMAIN mail' PROVE mail'[i].id # request.id
    BY <1>2, <1>3, <1>7
  <2>4. Len(kernel'.inbox) <= 1
    BY <1>4
  <2>5. ASSUME NEW r \in Posted'
        PROVE  r \in kernel'.pending /\ Mine(r)' /\ \A i \in DOMAIN mail' : mail'[i].id # r.id
    BY <1>4, <1>9, <1>10, <2>3, <2>5
  <2> QED
    BY <1>4, <2>2, <2>4, <2>5 DEF OneRequest
<1>12. Stopped'
  <2>1. \A n \in ran' : Kind(n)' = "execute"
    BY <1>1 DEF RuntimeInvariant, Exchange, Stopped, Calm, RunsKept, Kind
  <2>2. kernel'.flag => request.method # "execute"
    BY <1>3, <1>4
  <2>3. ASSUME NEW id \in stopTimers', NEW p \in kernel'.pending
        PROVE  p.id # id
    <3>1. CASE p = request
      BY <1>2, <1>3, <1>5, <3>1 DEF Calm
    <3>2. CASE p \in k.pending
      <4>1. p \in kernel.pending /\ p.method = "workspace" /\ id \in stopTimers
        BY <1>5, <3>2 DEF Calm
      <4> QED
        BY <4>1 DEF RuntimeInvariant, Exchange, Stopped
    <3> QED
      BY <1>4, <3>1, <3>2
  <2> QED
    BY <1>10, <2>1, <2>2, <2>3 DEF Stopped, Calm
<1> QED
  BY <1>6, <1>8, <1>11, <1>12 DEF Exchange

LEMMA CalmUnchanged ==
  ASSUME RuntimeInvariant, UNCHANGED <<runs, stopTimers, histVars>>, FewerMail
  PROVE  Calm
BY DEF RuntimeInvariant, Exchange, Stopped, Calm, RunsKept, histVars

LEMMA MailTypes ==
  ASSUME RuntimeInvariant
  PROVE  /\ mail \in Seq(Message) /\ kernel \in Kernel /\ (kernel.up <=> kernel.ready # "none")
         /\ count \in [requests : Nat, stops : Nat, reloads : Nat, errors : Nat]
         /\ UNCHANGED mail => FewerMail
BY DEF RuntimeInvariant, Exchange, ExchangeTypes, FewerMail

\* After its answer the run awaits nothing.
LEMMA NothingAwaited ==
  ASSUME task' = NoTask, count' \in [requests : Nat, stops : Nat, reloads : Nat, errors : Nat]
  PROVE  task'.wait = 0 /\ Awaits'
<1>1. count'.requests \in Nat
  OBVIOUS
<1> QED
  BY <1>1 DEF Awaits, NoTask

LEMMA CloseKeeps ==
  ASSUME RuntimeInvariant, Close, UNCHANGED <<opened, snapshot, stored, runs, ran, stops, count>>,
         FewerMail, stopTimers' \subseteq stopTimers, hit' \subseteq stops
  PROVE  Moves /\ Exchange'
<1> DEFINE ids == {p.id : p \in kernel.pending}
<1>1. /\ kernel' = Closed
      /\ \/ Rejects(ids) /\ Fail
         \/ ~Rejects(ids) /\ UNCHANGED <<task, answers, cache, evicted>>
  BY DEF Close
<1>2. Rejects(ids) => task.stage \notin {"none", "stored"}
  <2>1. \A p \in kernel.pending : 1 <= p.id
    BY DEF RuntimeInvariant, Exchange, Numbers
  <2>2. Rejects(ids) => task.stage # "none" /\ task.wait # 0
    BY <2>1 DEF Rejects
  <2> QED
    BY <2>2 DEF RuntimeInvariant, Exchange, Awaits
<1>3. Moves
  BY <1>1, <1>2 DEF Moves
<1>4. Calm
  BY DEF Calm, RunsKept
<1>5. /\ kernel' \in Kernel /\ (kernel'.up <=> kernel'.ready # "none")
      /\ kernel'.inbox = <<>> /\ kernel'.running = {} /\ kernel'.pending = {}
  BY <1>1 DEF Closed, Kernel
<1>6. Awaits'
  <2>1. CASE Fail
    BY <2>1, MailTypes, NothingAwaited DEF Fail, Answer
  <2>2. CASE UNCHANGED task
    BY <2>2 DEF RuntimeInvariant, Exchange, Awaits, Kind
  <2> QED
    BY <1>1, <2>1, <2>2
<1>7. /\ count' \in [requests : Nat, stops : Nat, reloads : Nat, errors : Nat]
      /\ count'.requests >= count.requests
  BY MailTypes
<1>8. Exchange'
  BY <1>4, <1>5, <1>6, <1>7, IdleKeeps
<1> QED
  BY <1>3, <1>8

LEMMA TimesOutKeeps ==
  ASSUME RuntimeInvariant, TimesOut \/ Deadline
  PROVE  Moves /\ Exchange'
<1>1. Close /\ UNCHANGED stopTimers /\ UnchangedButClose
  BY DEF TimesOut, Deadline
<1>2. hit' \subseteq stops /\ FewerMail
  BY <1>1, MailTypes DEF UnchangedButClose, histVars, RuntimeInvariant, Exchange, Stopped
<1> QED
  BY <1>1, <1>2, CloseKeeps DEF UnchangedButClose, histVars

\* Only an execution awaited by the run is pending: the stop ends what it was
\* asked for.
LEMMA PendingExecution ==
  ASSUME RuntimeInvariant, NEW p \in kernel.pending, p.method = "execute"
  PROVE  Mine(p) /\ \A q \in kernel.pending : q.id = p.id => Mine(q) /\ q.method = "execute"
<1>1. Mine(p)
  BY DEF RuntimeInvariant, Exchange, OneRequest, Orphan
<1>2. ASSUME NEW q \in kernel.pending, q.id = p.id PROVE Mine(q) /\ q.method = "execute"
  <2>1. Mine(q)
    BY <1>1, <1>2 DEF RuntimeInvariant, Exchange, OneRequest, Orphan, Mine
  <2> QED
    BY <1>1, <2>1 DEF Mine, Fits
<1> QED
  BY <1>1, <1>2

LEMMA StopTimerKeeps ==
  ASSUME RuntimeInvariant, StopTimer
  PROVE  Moves /\ Exchange'
<1> DEFINE ended == {p.n : p \in {q \in kernel.pending : q.method = "execute"}}
<1>1. PICK id \in stopTimers :
        /\ stopTimers' = stopTimers \ {id}
        /\ IF Still(id) THEN Close /\ hit' = hit \cup ended
           ELSE UNCHANGED <<kernel, task, answers, cache, evicted, hit>>
  BY DEF StopTimer
<1>2. UNCHANGED <<opened, snapshot, stored, runs, mail, ran, stops, count>> /\ FewerMail
  BY MailTypes DEF StopTimer
<1>3. hit \subseteq stops
  BY DEF RuntimeInvariant, Exchange, Stopped
<1>4. CASE Still(id)
  <2>1. PICK p \in kernel.pending : p.id = id
    BY <1>4 DEF Still
  <2>2. p.method = "execute" /\ p.n \in stops
    BY <2>1 DEF RuntimeInvariant, Exchange, Stopped
  <2>3. ASSUME NEW q \in kernel.pending, q.method = "execute" PROVE q.n \in stops
    BY <2>2, <2>3, PendingExecution DEF Mine
  <2>4. hit' \subseteq stops
    BY <1>1, <1>3, <1>4, <2>3
  <2> QED
    BY <1>1, <1>2, <1>4, <2>4, CloseKeeps
<1>5. CASE ~Still(id)
  <2>1. /\ UNCHANGED <<kernel, task, answers, cache, evicted, hit>>
        /\ stopTimers' \subseteq stopTimers
    BY <1>1, <1>5
  <2>2. Moves
    BY <1>2, <2>1 DEF Moves
  <2>3. Exchange'
    BY <1>2, <2>1 DEF RuntimeInvariant, Exchange, ExchangeTypes, Awaits, Numbers, OneRequest,
                      Stopped, Posted, Mine, Orphan, Fits, Kind
  <2> QED
    BY <2>2, <2>3
<1> QED
  BY <1>4, <1>5

LEMMA InterruptKeeps ==
  ASSUME RuntimeInvariant, Interrupt
  PROVE  Moves /\ Exchange'
<1> DEFINE active == {p \in kernel.pending : p.method = "execute"}
           flag == kernel.flag \/ (active # {} /\ Isolated)
<1>1. /\ task.stage # "none" /\ stops' = stops \cup {task.n}
      /\ count' = [count EXCEPT !.stops = @ + 1]
      /\ stopTimers' = stopTimers \cup {p.id : p \in active}
      /\ UNCHANGED <<tabVars, task, mail, ran, hit>>
  BY DEF Interrupt
<1>2. kernel' = [kernel EXCEPT !.flag = flag] /\ flag \in BOOLEAN
  BY MailTypes DEF Interrupt, Kernel
<1>3. /\ kernel \in Kernel /\ (kernel.up <=> kernel.ready # "none")
      /\ count \in [requests : Nat, stops : Nat, reloads : Nat, errors : Nat]
  BY MailTypes
<1> HIDE DEF flag
<1>4. /\ kernel' \in Kernel /\ kernel'.up = kernel.up /\ kernel'.ready = kernel.ready
      /\ kernel'.pending = kernel.pending /\ kernel'.inbox = kernel.inbox
      /\ kernel'.running = kernel.running
  BY <1>2, <1>3 DEF Kernel
<1>5. /\ count' \in [requests : Nat, stops : Nat, reloads : Nat, errors : Nat]
      /\ count'.requests = count.requests
  BY <1>1, <1>3
<1>6. \A p \in active : /\ p \in kernel.pending /\ p.id \in Nat /\ p.id <= count.requests
                          /\ p.n = task.n
  BY <1>3, PendingExecution DEF Kernel, Request, Mine, RuntimeInvariant, Exchange, Numbers
<1>7. Moves
  BY <1>1 DEF Moves, tabVars
<1>8. ExchangeTypes'
  <2>1. stops' \subseteq DOMAIN runs
    BY <1>1 DEF RuntimeInvariant, Exchange, ExchangeTypes, Tab, Active
  <2>2. stopTimers' \subseteq Nat
    BY <1>1, <1>6 DEF RuntimeInvariant, Exchange, ExchangeTypes
  <2> QED
    BY <1>1, <1>3, <1>4, <1>5, <2>1, <2>2 DEF RuntimeInvariant, Exchange, ExchangeTypes, tabVars
<1>9. Awaits' /\ Numbers'
  <2>1. \A id \in stopTimers' : id <= count.requests
    BY <1>1, <1>6 DEF RuntimeInvariant, Exchange, Numbers
  <2> QED
    BY <1>1, <1>4, <1>5, <2>1 DEF RuntimeInvariant, Exchange, Awaits, Numbers, tabVars, Kind
<1>10. OneRequest'
  BY <1>1, <1>4 DEF RuntimeInvariant, Exchange, OneRequest, Posted, Mine, Orphan, Fits, Kind, tabVars
<1>11. Stopped'
  <2>1. Posted' = Posted
    BY <1>4 DEF Posted
  <2>2. \A r \in Posted : r.n \in stops'
    BY <1>1 DEF RuntimeInvariant, Exchange, OneRequest, Mine
  <2>3. ASSUME NEW id \in stopTimers', NEW p \in kernel.pending, p.id = id
        PROVE  p.method = "execute" /\ p.n \in stops'
    <3>1. CASE id \in stopTimers
      BY <1>1, <2>3, <3>1 DEF RuntimeInvariant, Exchange, Stopped
    <3>2. CASE id \in {q.id : q \in active}
      <4>1. PICK q \in active : q.id = id
        BY <3>2
      <4>2. Mine(p) /\ p.method = "execute"
        BY <2>3, <4>1, PendingExecution
      <4> QED
        BY <1>1, <4>2 DEF Mine
    <3> QED
      BY <1>1, <3>1, <3>2
  <2> QED
    BY <1>1, <1>4, <2>1, <2>2, <2>3 DEF RuntimeInvariant, Exchange, Stopped, Kind, tabVars
<1> QED
  BY <1>7, <1>8, <1>9, <1>10, <1>11 DEF Exchange

LEMMA WorkerTakesKeeps ==
  ASSUME RuntimeInvariant, WorkerTakes
  PROVE  Moves /\ Exchange'
<1> DEFINE r == Head(kernel.inbox)
<1>1. /\ kernel.running = {} /\ kernel.inbox # <<>>
      /\ kernel' = [kernel EXCEPT !.inbox = Tail(@), !.running = {r}]
      /\ ran' = IF r.method = "execute" THEN ran \cup {r.n} ELSE ran
      /\ UNCHANGED <<tabVars, task, stopTimers, stops, mail, hit, count>>
  BY DEF WorkerTakes, UnchangedByWorker
<1>2. /\ kernel \in Kernel /\ (kernel.up <=> kernel.ready # "none")
      /\ kernel.inbox \in Seq(Request)
  BY MailTypes DEF Kernel
<1>3. r \in Request /\ r \in Posted /\ ToSet(kernel.inbox) = {r} \cup ToSet(Tail(kernel.inbox))
  BY <1>1, <1>2, TailElements DEF Posted
<1>4. Tail(kernel.inbox) = <<>>
  <2>1. Len(kernel.inbox) <= 1
    BY DEF RuntimeInvariant, Exchange, OneRequest
  <2> QED
    BY <1>1, <1>2, <2>1, LastElement
<1>5. Posted = {r}
  <2>1. ToSet(<<>>) = {}
    BY DEF ToSet
  <2> QED
    BY <1>1, <1>3, <1>4, <2>1 DEF Posted
<1> HIDE DEF r
<1>6. /\ kernel' \in Kernel /\ kernel'.up = kernel.up /\ kernel'.ready = kernel.ready
      /\ kernel'.pending = kernel.pending /\ kernel'.inbox = <<>>
      /\ kernel'.running = {r} /\ kernel'.flag = kernel.flag
  <2>1. kernel' = [kernel EXCEPT !.inbox = <<>>, !.running = {r}]
    BY <1>1, <1>4
  <2>2. <<>> \in Seq(Request) /\ {r} \in SUBSET Request
    BY <1>3
  <2> QED
    BY <1>2, <2>1, <2>2 DEF Kernel
<1>7. Posted' = {r}
  <2>1. ToSet(<<>>) = {}
    BY DEF ToSet
  <2> QED
    BY <1>6, <2>1 DEF Posted
<1>8. Moves
  BY <1>1 DEF Moves, tabVars
<1>9. r.method = "execute" => r.n = task.n /\ task.n \in DOMAIN runs /\ Kind(task.n) = "execute"
  <2>1. Mine(r)
    BY <1>3 DEF RuntimeInvariant, Exchange, OneRequest
  <2> QED
    BY <2>1 DEF Mine, Fits, RuntimeInvariant, Tab, Active
<1>10. ExchangeTypes'
  BY <1>1, <1>6, <1>9 DEF RuntimeInvariant, Exchange, ExchangeTypes, tabVars
<1>11. Awaits' /\ Numbers'
  BY <1>1, <1>6 DEF RuntimeInvariant, Exchange, Awaits, Numbers, tabVars, Kind
<1>12. OneRequest'
  <2>1. Len(kernel'.inbox) <= 1
    BY <1>6
  <2> QED
    BY <1>1, <1>5, <1>6, <1>7, <2>1 DEF RuntimeInvariant, Exchange, OneRequest, Mine, Orphan, Fits,
                                       Kind, tabVars
<1>13. Stopped'
  <2>1. \A n \in ran' : Kind(n) = "execute"
    BY <1>1, <1>9 DEF RuntimeInvariant, Exchange, Stopped
  <2> QED
    BY <1>1, <1>5, <1>6, <1>7, <2>1 DEF RuntimeInvariant, Exchange, Stopped, Kind, tabVars
<1> QED
  BY <1>8, <1>10, <1>11, <1>12, <1>13 DEF Exchange

\* The worker answers the request it has, and has no other.
LEMMA TellsKeeps ==
  ASSUME RuntimeInvariant, NEW r \in kernel.running, NEW what \in {"result", "error", "bad"},
         Tells(r.id, what), UNCHANGED <<tabVars, task, stopTimers, stops, ran, count>>,
         kernel' = [kernel EXCEPT !.running = {}]
           \/ kernel' = [kernel EXCEPT !.running = {}, !.flag = FALSE],
         hit' = hit \/ (kernel.flag /\ r.method = "execute" /\ hit' = hit \cup {r.n})
  PROVE  Moves /\ Exchange'
<1> DEFINE m == [id |-> r.id, what |-> what]
<1>1. /\ kernel \in Kernel /\ (kernel.up <=> kernel.ready # "none") /\ mail \in Seq(Message)
      /\ count \in [requests : Nat, stops : Nat, reloads : Nat, errors : Nat]
  BY MailTypes
<1>2. r \in Posted /\ Mine(r) /\ r \in kernel.pending /\ r \in Request /\ kernel.inbox = <<>>
  BY <1>1 DEF Posted, RuntimeInvariant, Exchange, OneRequest, Kernel
<1>3. m \in Message /\ m.id = r.id
  BY <1>2 DEF Message, Request
<1>4. mail' = Append(mail, m)
  BY DEF Tells
<1> HIDE DEF m
<1>5. /\ mail' \in Seq(Message) /\ DOMAIN mail' = DOMAIN mail \cup {Len(mail) + 1}
      /\ \A i \in DOMAIN mail : mail'[i] = mail[i]
      /\ mail'[Len(mail) + 1] = m
  BY <1>1, <1>3, <1>4, AppendElements
<1>6. /\ kernel' \in Kernel /\ kernel'.up = kernel.up /\ kernel'.ready = kernel.ready
      /\ kernel'.pending = kernel.pending /\ kernel'.inbox = <<>>
      /\ kernel'.running = {} /\ (kernel'.flag => kernel.flag)
  BY <1>1, <1>2 DEF Kernel
<1>7. Posted' = {}
  <2>1. ToSet(<<>>) = {}
    BY DEF ToSet
  <2> QED
    BY <1>6, <2>1 DEF Posted
<1>8. Moves
  BY DEF Moves, tabVars
<1>9. hit' \subseteq stops
  BY <1>2 DEF RuntimeInvariant, Exchange, Stopped
<1>10. ExchangeTypes'
  BY <1>1, <1>5, <1>6, <1>9 DEF RuntimeInvariant, Exchange, ExchangeTypes, tabVars
<1>11. Awaits' /\ Numbers'
  <2>1. \A i \in DOMAIN mail' : mail'[i].id <= count.requests
    BY <1>2, <1>3, <1>5 DEF RuntimeInvariant, Exchange, Numbers
  <2> QED
    BY <1>6, <2>1 DEF RuntimeInvariant, Exchange, Awaits, Numbers, tabVars, Kind
<1>12. OneRequest'
  <2>1. ASSUME NEW p \in kernel.pending PROVE (Mine(p)' /\ kernel'.up) \/ Orphan(p)'
    <3>1. CASE Mine(p) /\ kernel.up
      BY <1>6, <3>1 DEF Mine, Fits, Kind, tabVars
    <3>2. CASE Orphan(p)
      BY <1>2, <1>3, <1>5, <3>2 DEF Mine, Orphan
    <3> QED
      BY <3>1, <3>2 DEF RuntimeInvariant, Exchange, OneRequest
  <2>2. Len(kernel'.inbox) <= 1
    BY <1>6
  <2> QED
    BY <1>6, <1>7, <2>1, <2>2 DEF RuntimeInvariant, Exchange, OneRequest
<1>13. Stopped'
  BY <1>6, <1>7, <1>9 DEF RuntimeInvariant, Exchange, Stopped, Kind, tabVars
<1> QED
  BY <1>8, <1>10, <1>11, <1>12, <1>13 DEF Exchange

LEMMA WorkerCrashesKeeps ==
  ASSUME RuntimeInvariant, WorkerCrashes
  PROVE  Moves /\ Exchange'
<1> DEFINE m == [id |-> 0, what |-> "crash"]
<1>1. /\ count' = [count EXCEPT !.errors = @ + 1] /\ mail' = Append(mail, m)
      /\ UNCHANGED <<tabVars, task, stopTimers, stops, kernel, ran, hit>>
  BY DEF WorkerCrashes, Tells, UnchangedByWorker
<1>2. /\ kernel \in Kernel /\ mail \in Seq(Message)
      /\ count \in [requests : Nat, stops : Nat, reloads : Nat, errors : Nat]
  BY MailTypes
<1>3. m \in Message /\ m.id = 0
  BY DEF Message
<1> HIDE DEF m
<1>4. /\ mail' \in Seq(Message) /\ DOMAIN mail' = DOMAIN mail \cup {Len(mail) + 1}
      /\ \A i \in DOMAIN mail : mail'[i] = mail[i]
      /\ mail'[Len(mail) + 1] = m
  BY <1>1, <1>2, <1>3, AppendElements
<1>5. /\ count' \in [requests : Nat, stops : Nat, reloads : Nat, errors : Nat]
      /\ count'.requests = count.requests /\ count.requests \in Nat
  BY <1>1, <1>2
<1>6. Moves
  BY <1>1 DEF Moves, tabVars
<1>7. ExchangeTypes' /\ Awaits'
  BY <1>1, <1>4, <1>5 DEF RuntimeInvariant, Exchange, ExchangeTypes, Awaits, Kind, tabVars
<1>8. Numbers'
  <2>1. \A i \in DOMAIN mail' : mail'[i].id <= count.requests
    BY <1>3, <1>4, <1>5 DEF RuntimeInvariant, Exchange, Numbers
  <2> QED
    BY <1>1, <1>5, <2>1 DEF RuntimeInvariant, Exchange, Numbers, tabVars
<1>9. \A p \in kernel.pending : p.id # 0
  <2>1. \A p \in kernel.pending : p.id \in Nat /\ 1 <= p.id
    BY <1>2 DEF Kernel, Request, RuntimeInvariant, Exchange, Numbers
  <2> QED
    BY <2>1
<1>10. OneRequest'
  <2>1. ASSUME NEW p \in kernel.pending, \A i \in DOMAIN mail : mail[i].id # p.id
        PROVE  \A i \in DOMAIN mail' : mail'[i].id # p.id
    BY <1>3, <1>4, <1>9, <2>1
  <2>2. \A p \in kernel.pending : (Mine(p)' /\ kernel'.up) \/ Orphan(p)'
    BY <1>1, <2>1 DEF RuntimeInvariant, Exchange, OneRequest, Mine, Orphan, Fits, Kind, tabVars
  <2>3. \A r \in Posted : /\ r \in kernel.pending /\ Mine(r)'
                          /\ \A i \in DOMAIN mail' : mail'[i].id # r.id
    BY <1>1, <2>1 DEF RuntimeInvariant, Exchange, OneRequest, Mine, Fits, Kind, tabVars
  <2>4. Posted' = Posted
    BY <1>1 DEF Posted
  <2> QED
    BY <1>1, <2>2, <2>3, <2>4 DEF RuntimeInvariant, Exchange, OneRequest
<1>11. Stopped'
  BY <1>1 DEF RuntimeInvariant, Exchange, Stopped, Posted, Kind, tabVars
<1> QED
  BY <1>6, <1>7, <1>8, <1>10, <1>11 DEF Exchange

LEMMA WorkerKeeps ==
  ASSUME RuntimeInvariant, Worker
  PROVE  Moves /\ Exchange'
<1>1. CASE WorkerEnds
  <2>1. PICK r \in kernel.running, what \in {"result", "error", "bad"} : Tells(r.id, what)
    BY <1>1 DEF WorkerEnds
  <2>2. /\ UNCHANGED <<tabVars, task, stopTimers, stops, ran, count>> /\ hit' = hit
        /\ kernel' = [kernel EXCEPT !.running = {}]
    BY <1>1 DEF WorkerEnds, UnchangedByWorker
  <2>3. hit' = hit \/ (kernel.flag /\ r.method = "execute" /\ hit' = hit \cup {r.n})
    BY <2>2
  <2> QED
    BY <2>1, <2>2, <2>3, TellsKeeps
<1>2. CASE WorkerInterrupted
  <2>1. PICK r \in kernel.running :
          r.method = "execute" /\ Tells(r.id, "result") /\ hit' = hit \cup {r.n}
    BY <1>2 DEF WorkerInterrupted
  <2> QED
    BY <1>2, <2>1, TellsKeeps DEF WorkerInterrupted, UnchangedByWorker
<1> QED
  BY <1>1, <1>2, WorkerTakesKeeps, WorkerCrashesKeeps DEF Worker

-----------------------------------------------------------------------------
(* The steps of the run. *)

\* A run begins in one of five ways.
StartCases(command, n) ==
  \/ /\ command.kind = "restart" /\ Counted
     /\ task' = [n |-> n, stage |-> "restart", wait |-> NextId] /\ kernel' = Initialize(Closed)
     /\ answers' = Append(answers, "none") /\ UNCHANGED <<cache, evicted>>
  \/ /\ command.kind \in Requests /\ kernel.ready = "none" /\ Counted
     /\ task' = [n |-> n, stage |-> "init", wait |-> NextId] /\ kernel' = Initialize(kernel)
     /\ answers' = Append(answers, "none") /\ UNCHANGED <<cache, evicted>>
  \/ /\ command.kind \in Requests /\ task' = [n |-> n, stage |-> "mount", wait |-> 0]
     /\ answers' = Append(answers, "none") /\ UNCHANGED <<cache, evicted, kernel, count>>
  \/ /\ task' = NoTask /\ answers' = Append(answers, "failed") /\ UNCHANGED <<kernel, count>>
     /\ IF command.kind = "execute" THEN Keep(command.key) ELSE UNCHANGED <<cache, evicted>>
  \/ /\ task' = [n |-> n, stage |-> "commit", wait |-> 0]
     /\ answers' = Append(answers, "none") /\ UNCHANGED <<cache, evicted, kernel, count>>

LEMMA StartBegins ==
  ASSUME RuntimeInvariant, NEW command \in Command, Start(command)
  PROVE  Begins(command) /\ StartCases(command, Len(runs) + 1)
<1>1. /\ opened /\ task.stage = "none" /\ runs' = Append(runs, command)
      /\ ~ \E i \in DOMAIN cache : cache[i] = command.key
      /\ ~ \E n \in DOMAIN runs : runs[n].key = command.key /\
             (answers[n] = "lost" \/ runs[n].kind # command.kind)
      /\ UNCHANGED <<opened, snapshot, stored, mail, stopTimers, histVars>>
  BY DEF Start
<1>2. StartCases(command, Len(runs) + 1)
  BY DEF Start, StartCases, KeepFailure
<1>3. NextId \in Nat
  BY MailTypes DEF NextId
<1>4. command.key \notin ToSet(cache)
  BY <1>1 DEF ToSet
<1>5. \/ /\ \E s \in {"init", "mount", "restart", "commit"}, w \in Nat :
              task' = [n |-> Len(runs) + 1, stage |-> s, wait |-> w]
         /\ answers' = Append(answers, "none") /\ UNCHANGED <<cache, evicted>>
      \/ /\ task' = NoTask /\ answers' = Append(answers, "failed")
         /\ IF command.kind = "execute" THEN Keep(command.key) ELSE UNCHANGED <<cache, evicted>>
  BY <1>2, <1>3 DEF StartCases
<1> QED
  BY <1>1, <1>2, <1>4, <1>5 DEF Begins

LEMMA StartKeeps ==
  ASSUME RuntimeInvariant, NEW command \in Command, Start(command)
  PROVE  Exchange'
<1> DEFINE n == Len(runs) + 1
<1>1. task.stage = "none" /\ task.wait = 0 /\ runs' = Append(runs, command)
      /\ UNCHANGED <<mail, stopTimers, histVars>>
  BY DEF Start, RuntimeInvariant, Exchange, Awaits
<1>2. /\ runs \in Seq(Command) /\ DOMAIN runs' = DOMAIN runs \cup {n} /\ runs'[n] = command
      /\ \A m \in DOMAIN runs : runs'[m] = runs[m]
      /\ n \in Nat /\ n \in DOMAIN runs'
  BY <1>1, AppendElements DEF RuntimeInvariant, Tab, TabTypes
<1>3. Calm
  BY <1>1, <1>2, MailTypes DEF Calm, RunsKept, histVars, RuntimeInvariant, Exchange, Stopped
<1>4. /\ kernel \in Kernel /\ (kernel.up <=> kernel.ready # "none")
      /\ count \in [requests : Nat, stops : Nat, reloads : Nat, errors : Nat]
  BY MailTypes
<1>5. (\A p \in kernel.pending : Orphan(p)) /\ kernel.inbox = <<>> /\ kernel.running = {}
  BY <1>1, Quiet
<1> HIDE DEF n
<1>6. ASSUME NEW k \in Kernel, NEW s \in {"restart", "init"}, Counted,
             k.inbox = <<>>, k.running = {}, k.pending \subseteq kernel.pending,
             s = "init" => command.kind \in Requests,
             task' = [n |-> n, stage |-> s, wait |-> NextId], kernel' = Initialize(k)
      PROVE  Exchange'
  <2> DEFINE up == [k EXCEPT !.up = TRUE, !.ready = "pending"]
  <2>1. /\ up \in Kernel /\ up.up /\ up.ready # "none" /\ up.inbox = <<>> /\ up.running = {}
        /\ up.pending = k.pending
    BY <1>6 DEF Kernel
  <2>2. kernel' = Post(up, NextId, "initialize")
    BY <1>6 DEF Initialize
  <2> HIDE DEF up
  <2>3. \A p \in up.pending : p \in kernel.pending /\ Orphan(p)
    BY <1>5, <1>6, <2>1
  <2>4. /\ task'.n = n /\ task'.stage = s /\ task'.wait = NextId
    BY <1>6
  <2>5. Fits("initialize")'
    BY <2>4 DEF Fits
  <2>6. Awaits'
    <3>1. count'.requests = NextId
      BY <1>4, <1>6 DEF Counted, NextId
    <3>2. NextId \in Nat
      BY <1>4 DEF NextId
    <3>3. s = "init" => runs'[n].kind \in Requests
      BY <1>2, <1>6
    <3> QED
      BY <2>4, <3>1, <3>2, <3>3 DEF Awaits, Kind
  <2>7. "initialize" \in Methods /\ "initialize" # "execute"
    BY DEF Methods
  <2> QED
    BY <1>2, <1>3, <1>6, <2>1, <2>2, <2>3, <2>4, <2>5, <2>6, <2>7, PostKeeps
<1>7. ASSUME UNCHANGED <<kernel, count>>, task'.wait = 0,
             \/ task'.stage \in {"none", "commit"}
             \/ task'.stage = "mount" /\ task'.n = n /\ command.kind \in Requests
      PROVE  Exchange'
  <2>1. Awaits'
    BY <1>2, <1>4, <1>7 DEF Awaits, Kind
  <2> QED
    BY <1>3, <1>4, <1>5, <1>7, <2>1, IdleKeeps DEF Left
<1>8. StartCases(command, n)
  BY StartBegins DEF n
<1>9. CASE kernel' = Initialize(Closed) /\ Counted
           /\ task' = [n |-> n, stage |-> "restart", wait |-> NextId]
  <2>1. /\ Closed \in Kernel /\ Closed.inbox = <<>> /\ Closed.running = {}
        /\ Closed.pending \subseteq kernel.pending
    BY DEF Closed, Kernel
  <2> QED
    BY <1>6, <1>9, <2>1
<1>10. CASE kernel' = Initialize(kernel) /\ Counted /\ command.kind \in Requests
            /\ task' = [n |-> n, stage |-> "init", wait |-> NextId]
  BY <1>4, <1>5, <1>6, <1>10
<1>11. CASE UNCHANGED <<kernel, count>> /\ task' = NoTask
  BY <1>7, <1>11 DEF NoTask
<1>12. CASE UNCHANGED <<kernel, count>> /\ task' = [n |-> n, stage |-> "commit", wait |-> 0]
  BY <1>7, <1>12
<1>13. CASE UNCHANGED <<kernel, count>> /\ task' = [n |-> n, stage |-> "mount", wait |-> 0]
            /\ command.kind \in Requests
  BY <1>7, <1>13
<1> QED
  BY <1>8, <1>9, <1>10, <1>11, <1>12, <1>13 DEF StartCases

LEMMA MountedKeeps ==
  ASSUME RuntimeInvariant, Mounted
  PROVE  Moves /\ Exchange'
<1>1. /\ task.stage = "mount" /\ task.wait = 0
      /\ UNCHANGED <<opened, snapshot, stored, runs, mail, stopTimers, histVars>>
  BY DEF Mounted, RuntimeInvariant, Exchange, Awaits
<1>2. Calm
  BY <1>1, MailTypes, CalmUnchanged
<1>3. /\ kernel \in Kernel /\ (kernel.up <=> kernel.ready # "none")
      /\ count \in [requests : Nat, stops : Nat, reloads : Nat, errors : Nat]
  BY MailTypes
<1>4. (\A p \in kernel.pending : Orphan(p)) /\ kernel.inbox = <<>> /\ kernel.running = {}
  BY <1>1, Quiet
<1>5. task.n \in DOMAIN runs /\ task.n \in Nat /\ Kind(task.n) \in Requests
  BY <1>1 DEF RuntimeInvariant, Tab, Active, TabTypes, Exchange, Awaits
<1>6. NextId \in Nat /\ (Counted => count'.requests = NextId
        /\ count' \in [requests : Nat, stops : Nat, reloads : Nat, errors : Nat])
  BY <1>3 DEF NextId, Counted
<1>7. CASE /\ kernel.up /\ Go("workspace", NextId)
           /\ kernel' = Post(kernel, NextId, "workspace") /\ Counted
  <2>1. task'.n = task.n /\ task'.stage = "workspace" /\ task'.wait = NextId
    BY <1>7 DEF Go, RuntimeInvariant, Tab, TabTypes
  <2>2. Fits("workspace")' /\ "workspace" \in Methods /\ "workspace" # "execute"
    BY <2>1 DEF Fits, Methods
  <2>3. Awaits'
    BY <1>1, <1>5, <1>6, <1>7, <2>1 DEF Awaits, Kind
  <2>4. Exchange'
    <3>1. \A p \in kernel.pending : p \in kernel.pending /\ Orphan(p)
      BY <1>4
    <3>2. kernel.ready # "none" /\ task'.n \in DOMAIN runs' /\ task'.n \in Nat
          /\ task'.stage # "none"
      BY <1>1, <1>3, <1>5, <1>7, <2>1
    <3> QED
      BY <1>2, <1>3, <1>4, <1>7, <2>1, <2>2, <2>3, <3>1, <3>2, PostKeeps
  <2>5. Moves
    BY <1>1, <1>6, <1>7 DEF Moves
  <2> QED
    BY <2>4, <2>5
<1>8. CASE /\ ~kernel.up /\ Fail /\ Counted
           /\ kernel' = [kernel EXCEPT !.pending =
                @ \cup {[id |-> NextId, method |-> "workspace", n |-> task.n]}]
  <2> DEFINE p == [id |-> NextId, method |-> "workspace", n |-> task.n]
             pending == kernel.pending \cup {p}
  <2>1. p \in Request
    BY <1>5, <1>6 DEF Request, Methods
  <2>2. pending \in SUBSET Request /\ kernel' = [kernel EXCEPT !.pending = pending]
    BY <1>3, <1>8, <2>1 DEF Kernel
  <2> HIDE DEF p
  <2>3. /\ kernel' \in Kernel /\ (kernel'.up <=> kernel'.ready # "none")
        /\ kernel'.inbox = <<>> /\ kernel'.running = {} /\ kernel'.pending = pending
    BY <1>3, <1>4, <2>2 DEF Kernel
  <2>4. \A q \in pending : Left(q)
    BY <1>4, <1>5, <1>6, <1>8 DEF Left, p
  <2> HIDE DEF pending
  <2>5. task'.wait = 0 /\ Awaits'
    BY <1>6, <1>8, NothingAwaited DEF Fail, Answer
  <2>6. NextId >= count.requests
    BY <1>3 DEF NextId
  <2>7. Exchange'
    BY <1>2, <1>6, <1>8, <2>3, <2>4, <2>5, <2>6, IdleKeeps
  <2>8. Moves
    BY <1>1, <1>8 DEF Moves
  <2> QED
    BY <2>7, <2>8
<1>9. CASE Fail /\ UNCHANGED <<kernel, count>>
  <2>1. task'.wait = 0 /\ Awaits'
    BY <1>3, <1>9, NothingAwaited DEF Fail, Answer
  <2>2. Exchange'
    BY <1>2, <1>3, <1>4, <1>9, <2>1, IdleKeeps DEF Left
  <2>3. Moves
    BY <1>1, <1>9 DEF Moves
  <2> QED
    BY <2>2, <2>3
<1> QED
  BY <1>7, <1>8, <1>9 DEF Mounted

\* A request was answered: the run goes on.
LEMMA ContinueKeeps ==
  ASSUME RuntimeInvariant, Calm, UNCHANGED <<opened, snapshot, stored, runs>>,
         NEW p \in kernel.pending, Mine(p), kernel.up,
         NEW k \in Kernel, k.up = kernel.up, k.ready = kernel.ready,
         k.inbox = <<>>, k.running = {}, \A q \in k.pending : q \in kernel.pending /\ Orphan(q),
         Continue(k, p.method)
  PROVE  Moves /\ Exchange'
<1>1. /\ kernel \in Kernel /\ (kernel.up <=> kernel.ready # "none")
      /\ count \in [requests : Nat, stops : Nat, reloads : Nat, errors : Nat]
  BY MailTypes
<1>2. /\ task \in [n : Nat, stage : Stages, wait : Nat] /\ p.method \in Methods
      /\ task.n \in DOMAIN runs /\ Fits(p.method) /\ task.stage \notin {"none", "stored"}
  BY <1>1 DEF RuntimeInvariant, Tab, TabTypes, Active, Mine, Fits, Kernel, Request
<1>3. task.stage \in {"init", "workspace", "run"} => Kind(task.n) \in Requests
  BY DEF RuntimeInvariant, Exchange, Awaits
<1>4. /\ NextId \in Nat /\ NextId >= count.requests /\ 0 \in Nat
      /\ Counted => count'.requests = NextId
  BY <1>1 DEF NextId, Counted
<1>5. ASSUME NEW s \in {"mount", "commit"}, Go(s, 0), UNCHANGED count,
             s = "mount" => task.stage = "init",
             NEW l \in Kernel, kernel' = l, l.up <=> l.ready # "none",
             l.inbox = <<>>, l.running = {}, l.pending = k.pending
      PROVE  Moves /\ Exchange'
  <2>1. task'.n = task.n /\ task'.stage = s /\ task'.wait = 0
    BY <1>2, <1>5 DEF Go
  <2>2. Awaits'
    BY <1>1, <1>3, <1>5, <2>1 DEF Awaits, Kind
  <2>3. Exchange'
    BY <1>1, <1>5, <2>1, <2>2, IdleKeeps DEF Left
  <2>4. Moves
    BY <1>2, <1>4, <1>5 DEF Moves
  <2> QED
    BY <2>3, <2>4
<1>6. CASE p.method = "initialize"
  <2> DEFINE ok == [k EXCEPT !.ready = "ok"]
  <2>1. /\ ok \in Kernel /\ (ok.up <=> ok.ready # "none") /\ ok.inbox = <<>> /\ ok.running = {}
        /\ ok.pending = k.pending
    BY <1>6 DEF Kernel
  <2>2. \/ task.stage = "init" /\ Go("mount", 0) /\ kernel' = ok /\ UNCHANGED count
        \/ task.stage # "init" /\ Go("commit", 0) /\ kernel' = ok /\ UNCHANGED count
    BY <1>6 DEF Continue
  <2> HIDE DEF ok
  <2> QED
    BY <1>5, <2>1, <2>2
<1>7. CASE p.method = "execute"
  <2>1. Go("commit", 0) /\ kernel' = k /\ UNCHANGED count
    BY <1>7 DEF Continue
  <2> QED
    BY <1>1, <1>5, <2>1
<1>8. CASE p.method = "complete"
  <2>1. Answer("ok") /\ UNCHANGED <<cache, evicted, count>> /\ kernel' = k
    BY <1>8 DEF Continue
  <2>2. Kind(task.n) = "complete"
    BY <1>2, <1>8 DEF Fits
  <2>3. Moves
    BY <1>2, <2>1, <2>2 DEF Moves
  <2>4. task'.wait = 0 /\ Awaits'
    BY <1>1, <2>1, NothingAwaited DEF Answer
  <2>5. Exchange'
    <3>1. /\ count'.requests >= count.requests
          /\ count' \in [requests : Nat, stops : Nat, reloads : Nat, errors : Nat]
      BY <1>1, <2>1
    <3>2. /\ kernel' \in Kernel /\ (kernel'.up <=> kernel'.ready # "none")
          /\ kernel'.inbox = <<>> /\ kernel'.running = {}
          /\ \A q \in kernel'.pending : Left(q)
      BY <1>1, <2>1 DEF Left
    <3> QED
      BY <2>4, <3>1, <3>2, IdleKeeps
  <2> QED
    BY <2>3, <2>5
<1>9. CASE p.method = "workspace"
  <2> DEFINE clean == [k EXCEPT !.flag = FALSE]
  <2> PICK kind \in Requests : kind = Kind(task.n)
    BY <1>2, <1>3, <1>9 DEF Fits
  <2>1. Go("run", NextId) /\ kernel' = Post(clean, NextId, kind) /\ Counted
    BY <1>9 DEF Continue, Reset
  <2>2. /\ clean \in Kernel /\ clean.up = kernel.up /\ clean.ready = kernel.ready
        /\ clean.inbox = <<>> /\ clean.running = {} /\ clean.pending = k.pending /\ ~clean.flag
    BY DEF Kernel
  <2> HIDE DEF clean
  <2>3. task.stage = "workspace" /\ kind \in Methods /\ kind \in Requests
    BY <1>2, <1>3, <1>9 DEF Fits, Methods, Requests
  <2>4. task'.n = task.n /\ task'.stage = "run" /\ task'.wait = NextId
    BY <1>2, <2>1 DEF Go
  <2>5. Fits(kind)'
    BY <2>3, <2>4 DEF Fits, Kind
  <2>6. Awaits'
    BY <1>4, <2>1, <2>3, <2>4 DEF Awaits, Kind
  <2>7. task'.n \in DOMAIN runs' /\ task'.n \in Nat /\ task'.stage # "none"
    BY <1>2, <2>4
  <2>8. Exchange'
    <3>1. \A q \in clean.pending : q \in kernel.pending /\ Orphan(q)
      BY <2>2
    <3>2. clean.up /\ clean.ready # "none"
      BY <1>1, <2>2
    <3> QED
      BY <2>1, <2>2, <2>3, <2>4, <2>5, <2>6, <2>7, <3>1, <3>2, PostKeeps
  <2>9. Moves
    BY <1>2, <1>4, <2>1 DEF Moves
  <2> QED
    BY <2>8, <2>9
<1> QED
  BY <1>2, <1>6, <1>7, <1>8, <1>9 DEF Methods

LEMMA ReceiveKeeps ==
  ASSUME RuntimeInvariant, Receive
  PROVE  Moves /\ Exchange'
<1> DEFINE m == Head(mail)
           request == {p \in kernel.pending : p.id = m.id}
           rest == [kernel EXCEPT !.pending = @ \ request]
<1>1. /\ mail # <<>> /\ mail' = Tail(mail)
      /\ UNCHANGED <<opened, snapshot, stored, runs, stopTimers, histVars>>
      /\ \/ m.what = "crash" /\ Close /\ UNCHANGED count
         \/ /\ request = {}
            /\ UNCHANGED <<kernel, task, answers, cache, evicted, count>>
         \/ m.what = "bad" /\ request # {} /\ Close /\ UNCHANGED count
         \/ /\ m.what = "error" /\ request # {} /\ UNCHANGED count
            /\ kernel' = IF \E p \in request : p.method = "initialize"
                         THEN [rest EXCEPT !.ready = "failed"] ELSE rest
            /\ IF Rejects({m.id}) THEN Fail ELSE UNCHANGED <<task, answers, cache, evicted>>
         \/ m.what = "result" /\ \E p \in request : Continue(rest, p.method)
  BY DEF Receive
<1>2. /\ kernel \in Kernel /\ mail \in Seq(Message) /\ (kernel.up <=> kernel.ready # "none")
      /\ count \in [requests : Nat, stops : Nat, reloads : Nat, errors : Nat]
  BY MailTypes
<1>3. FewerMail
  BY <1>1, <1>2, TailElements DEF FewerMail
<1>4. Calm
  BY <1>1, <1>3, CalmUnchanged
<1>5. 1 \in DOMAIN mail /\ m = mail[1]
  BY <1>1, <1>2
<1> HIDE DEF m
<1>6. /\ rest \in Kernel /\ rest.up = kernel.up /\ rest.ready = kernel.ready
      /\ rest.inbox = kernel.inbox /\ rest.running = kernel.running
      /\ rest.pending = kernel.pending \ request
  BY <1>2 DEF Kernel
<1> HIDE DEF rest
<1>7. CASE Close /\ UNCHANGED count
  BY <1>1, <1>3, <1>4, <1>7, CloseKeeps DEF Calm, histVars
<1>8. CASE UNCHANGED <<kernel, task, answers, cache, evicted, count>>
  <2>1. Moves
    BY <1>1, <1>8 DEF Moves
  <2>2. ExchangeTypes' /\ Awaits' /\ Stopped'
    BY <1>1, <1>3, <1>8 DEF FewerMail, RuntimeInvariant, Exchange, ExchangeTypes, Awaits, Stopped,
                            Kind, Posted, histVars
  <2>3. Numbers'
    BY <1>1, <1>3, <1>8 DEF FewerMail, RuntimeInvariant, Exchange, Numbers
  <2>4. OneRequest'
    <3>1. \A p : Mine(p)' <=> Mine(p)
      BY <1>1, <1>8 DEF Mine, Fits, Kind
    <3>2. \A p : Orphan(p) => Orphan(p)'
      BY <1>3, <1>8 DEF FewerMail, Orphan
    <3>3. Posted' = Posted
      BY <1>8 DEF Posted
    <3> QED
      BY <1>3, <1>8, <3>1, <3>2, <3>3 DEF FewerMail, RuntimeInvariant, Exchange, OneRequest
  <2> QED
    BY <2>1, <2>2, <2>3, <2>4 DEF Exchange
<1>9. ASSUME NEW p \in request
      PROVE  /\ Mine(p) /\ kernel.up /\ p \in kernel.pending
             /\ kernel.inbox = <<>> /\ kernel.running = {}
             /\ \A q \in rest.pending : q \in kernel.pending /\ Orphan(q)
  <2>1. p \in kernel.pending /\ p.id = mail[1].id
    BY <1>5
  <2>2. /\ Mine(p) /\ kernel.inbox = <<>> /\ kernel.running = {}
        /\ \A q \in kernel.pending : q.id # p.id => Orphan(q)
    BY <1>5, <2>1, Answered
  <2>3. ~Orphan(p)
    BY <2>2 DEF Mine, Orphan
  <2>4. kernel.up
    BY <2>1, <2>3 DEF RuntimeInvariant, Exchange, OneRequest
  <2> QED
    BY <1>5, <1>6, <2>1, <2>2, <2>4
<1>10. CASE /\ request # {} /\ UNCHANGED count
            /\ kernel' = IF \E p \in request : p.method = "initialize"
                         THEN [rest EXCEPT !.ready = "failed"] ELSE rest
            /\ IF Rejects({m.id}) THEN Fail ELSE UNCHANGED <<task, answers, cache, evicted>>
  <2>1. PICK p \in request : TRUE
    BY <1>10
  <2>2. p.id = m.id /\ Rejects({m.id}) /\ task.stage \notin {"none", "stored"}
    BY <1>9, <2>1 DEF Mine, Fits, Rejects
  <2>3. Fail
    BY <1>10, <2>2
  <2>4. /\ kernel' \in Kernel /\ (kernel'.up <=> kernel'.ready # "none")
        /\ kernel'.inbox = <<>> /\ kernel'.running = {} /\ kernel'.pending = rest.pending
    <3>1. kernel' = rest \/ kernel' = [rest EXCEPT !.ready = "failed"]
      BY <1>10
    <3>2. rest.up /\ rest.inbox = <<>> /\ rest.running = {}
      BY <1>6, <1>9, <2>1
    <3>3. CASE kernel' = rest
      BY <1>2, <1>6, <3>2, <3>3
    <3>4. CASE kernel' = [rest EXCEPT !.ready = "failed"]
      BY <1>6, <3>2, <3>4 DEF Kernel
    <3> QED
      BY <3>1, <3>3, <3>4
  <2>5. task'.wait = 0 /\ Awaits'
    BY <1>2, <1>10, <2>3, NothingAwaited DEF Fail, Answer
  <2>6. \A q \in kernel'.pending : Left(q)
    BY <1>9, <2>1, <2>4 DEF Left
  <2>7. Exchange'
    BY <1>2, <1>4, <1>10, <2>4, <2>5, <2>6, IdleKeeps
  <2>8. Moves
    BY <1>1, <2>2, <2>3 DEF Moves
  <2> QED
    BY <2>7, <2>8
<1>11. CASE \E p \in request : Continue(rest, p.method)
  <2>1. PICK p \in request : Continue(rest, p.method)
    BY <1>11
  <2>2. /\ Mine(p) /\ kernel.up /\ p \in kernel.pending
        /\ kernel.inbox = <<>> /\ kernel.running = {}
        /\ \A q \in rest.pending : q \in kernel.pending /\ Orphan(q)
    BY <1>9
  <2> HIDE DEF request
  <2> QED
    BY <1>1, <1>4, <1>6, <2>1, <2>2, ContinueKeeps
<1> QED
  BY <1>1, <1>7, <1>8, <1>10, <1>11

LEMMA StorageMoves ==
  ASSUME RuntimeInvariant, CommitFails
  PROVE  Moves
BY DEF CommitFails, Moves

\* Opening and storing the notebook leave the worker alone: the run awaits none.
LEMMA StorageKeeps ==
  ASSUME RuntimeInvariant, Open \/ Storage
  PROVE  Exchange'
<1>1. /\ task.stage \in {"none", "commit", "stored"}
      /\ UNCHANGED <<runs, kernel, mail, stopTimers, histVars, count>>
  BY DEF Open, Storage, Commit, Acknowledge, CommitFails, RuntimeInvariant, Tab, Active
<1>2. task.wait = 0
  BY <1>1 DEF RuntimeInvariant, Exchange, Awaits
<1>3. (\A p \in kernel.pending : Orphan(p)) /\ kernel.inbox = <<>> /\ kernel.running = {}
  BY <1>2, Quiet
<1>4. Calm
  BY <1>1, MailTypes, CalmUnchanged
<1>5. /\ kernel \in Kernel /\ (kernel.up <=> kernel.ready # "none")
      /\ count \in [requests : Nat, stops : Nat, reloads : Nat, errors : Nat]
      /\ count.requests \in Nat
  BY MailTypes
<1>6. task'.wait = 0 /\ Awaits'
  <2>1. CASE Open
    BY <1>1, <1>2, <2>1 DEF Open, Awaits, Kind, RuntimeInvariant, Exchange
  <2>2. CASE Commit
    <3>1. task'.stage = "stored" /\ task'.wait = 0
      BY <2>2 DEF Commit, Go, RuntimeInvariant, Tab, TabTypes
    <3> QED
      BY <1>1, <1>5, <3>1 DEF Awaits
  <2>3. CASE Acknowledge \/ CommitFails
    BY <1>1, <1>5, <2>3, NothingAwaited DEF Acknowledge, CommitFails, Fail, Answer
  <2> QED
    BY <2>1, <2>2, <2>3 DEF Storage
<1> QED
  BY <1>1, <1>3, <1>4, <1>5, <1>6, IdleKeeps DEF Left

LEMMA ReloadKeeps ==
  ASSUME RuntimeInvariant, Reload
  PROVE  Exchange'
<1>1. /\ count' = [count EXCEPT !.reloads = @ + 1] /\ task' = NoTask
      /\ kernel' = Closed /\ mail' = <<>> /\ stopTimers' = {} /\ UNCHANGED <<runs, histVars>>
  BY DEF Reload
<1>2. count \in [requests : Nat, stops : Nat, reloads : Nat, errors : Nat]
  BY MailTypes
<1>3. /\ count' \in [requests : Nat, stops : Nat, reloads : Nat, errors : Nat]
      /\ count'.requests >= count.requests
  BY <1>1, <1>2
<1>4. Calm
  BY <1>1 DEF Calm, RunsKept, FewerMail, histVars, RuntimeInvariant, Exchange, Stopped
<1>5. /\ kernel' \in Kernel /\ (kernel'.up <=> kernel'.ready # "none")
      /\ kernel'.inbox = <<>> /\ kernel'.running = {} /\ kernel'.pending = {}
  BY <1>1 DEF Closed, Kernel
<1>6. task'.wait = 0 /\ Awaits'
  BY <1>1, <1>3, NothingAwaited
<1> QED
  BY <1>3, <1>4, <1>5, <1>6, IdleKeeps

-----------------------------------------------------------------------------
(* The theorems. *)

LEMMA InitHolds ==
  ASSUME Init
  PROVE  RuntimeInvariant
<1>1. /\ opened = FALSE /\ task = NoTask /\ snapshot = <<>> /\ stored = <<>> /\ cache = <<>>
      /\ kernel = Closed /\ mail = <<>> /\ stopTimers = {}
      /\ runs = <<>> /\ answers = <<>> /\ ran = {} /\ evicted = <<>> /\ stops = {} /\ hit = {}
      /\ count = [requests |-> 0, stops |-> 0, reloads |-> 0, errors |-> 0]
  BY DEF Init
<1>2. /\ task.n = 0 /\ task.stage = "none" /\ task.wait = 0 /\ count.requests = 0
      /\ DOMAIN runs = {} /\ DOMAIN answers = {} /\ DOMAIN mail = {} /\ DOMAIN evicted = {}
  BY <1>1 DEF NoTask
<1>3. /\ kernel \in Kernel /\ kernel.pending = {} /\ kernel.inbox = <<>> /\ kernel.running = {}
      /\ ~kernel.up /\ kernel.ready = "none" /\ ~kernel.flag
  BY <1>1 DEF Closed, Kernel
<1>4. TabTypes /\ Active
  <2>1. Len(cache) <= MaxCache
    BY <1>1, RuntimeAssumption
  <2>2. task \in [n : Nat, stage : Stages, wait : Nat]
    BY <1>1 DEF NoTask, Stages
  <2>3. /\ snapshot \in Seq(Nat) /\ stored \in Seq(Nat) /\ cache \in Seq(Keys)
        /\ evicted \in Seq(Keys) /\ runs \in Seq(Command) /\ answers \in Seq(Results)
        /\ opened \in BOOLEAN /\ Len(answers) = Len(runs)
    <3>1. \A S : <<>> \in Seq(S)
      OBVIOUS
    <3> QED
      BY <1>1, <3>1
  <2> QED
    BY <1>2, <2>1, <2>2, <2>3 DEF TabTypes, Active
<1>5. Durable
  BY <1>1, <1>2 DEF Durable, ToSet
<1>6. Once
  <2>1. ASSUME NEW key \in Keys
        PROVE  Cardinality(Execs(key)) = 0 /\ Cardinality(Drops(evicted, key)) = 0
    <3>1. Execs(key) = {} /\ Drops(evicted, key) = {}
      BY <1>2 DEF Execs, Drops
    <3> QED
      BY <3>1, FS_EmptySet
  <2> QED
    BY <1>1, <1>2, <2>1 DEF Once
<1>7. Posted = {}
  BY <1>3 DEF Posted, ToSet
<1>8. ExchangeTypes /\ Awaits /\ Numbers
  BY <1>1, <1>2, <1>3 DEF ExchangeTypes, Awaits, Numbers
<1>9. OneRequest /\ Stopped
  <2>1. Len(kernel.inbox) <= 1
    BY <1>3
  <2> QED
    BY <1>1, <1>2, <1>3, <1>7, <2>1 DEF OneRequest, Stopped
<1> QED
  BY <1>4, <1>5, <1>6, <1>8, <1>9 DEF RuntimeInvariant, Tab, Exchange

LEMMA NextKeeps ==
  ASSUME RuntimeInvariant, [Next]_vars
  PROVE  RuntimeInvariant'
<1>1. Tab
  BY DEF RuntimeInvariant
<1>2. CASE Open
  BY <1>1, <1>2, OpenKeepsTab, StorageKeeps DEF RuntimeInvariant
<1>3. ASSUME NEW command \in Command, Start(command)
      PROVE  RuntimeInvariant'
  BY <1>1, <1>3, StartBegins, BeginsKeeps, StartKeeps DEF RuntimeInvariant
<1>4. CASE Mounted
  BY <1>1, <1>4, MountedKeeps, MovesKeeps DEF RuntimeInvariant
<1>5. CASE Receive
  BY <1>1, <1>5, ReceiveKeeps, MovesKeeps DEF RuntimeInvariant
<1>6. CASE TimesOut \/ Deadline
  BY <1>1, <1>6, TimesOutKeeps, MovesKeeps DEF RuntimeInvariant
<1>7. CASE Interrupt
  BY <1>1, <1>7, InterruptKeeps, MovesKeeps DEF RuntimeInvariant
<1>8. CASE StopTimer
  BY <1>1, <1>8, StopTimerKeeps, MovesKeeps DEF RuntimeInvariant
<1>9. CASE Worker
  BY <1>1, <1>9, WorkerKeeps, MovesKeeps DEF RuntimeInvariant
<1>10. CASE Storage
  <2>1. Tab'
    BY <1>1, <1>10, CommitKeepsTab, AcknowledgeKeepsTab, StorageMoves, MovesKeeps DEF Storage
  <2> QED
    BY <1>10, <2>1, StorageKeeps DEF RuntimeInvariant
<1>11. CASE Reload
  BY <1>1, <1>11, ReloadKeepsTab, ReloadKeeps DEF RuntimeInvariant
<1>12. CASE UNCHANGED vars
  <2>1. Moves
    BY <1>12 DEF vars, tabVars, Moves
  <2>2. Exchange'
    BY <1>12 DEF vars, tabVars, histVars, RuntimeInvariant, Exchange, ExchangeTypes, Awaits,
                 Numbers, OneRequest, Stopped, Posted, Mine, Orphan, Fits, Kind
  <2> QED
    BY <1>1, <2>1, <2>2, MovesKeeps DEF RuntimeInvariant
<1> QED
  BY <1>2, <1>3, <1>4, <1>5, <1>6, <1>7, <1>8, <1>9, <1>10, <1>11, <1>12 DEF Next

\* What the page decided and what it exchanges with the worker fit together
\* in every state, whichever way the callbacks, timers and stops of a page
\* interleave with its awaits.
THEOREM RuntimeInvariance == Spec => []RuntimeInvariant
<1>1. Init => RuntimeInvariant
  BY InitHolds
<1>2. RuntimeInvariant /\ [Next]_vars => RuntimeInvariant'
  BY NextKeeps
<1> QED
  BY <1>1, <1>2, PTL DEF Spec

\* A change is started again only after its result was dropped.
LEMMA OncePerDrop ==
  ASSUME RuntimeInvariant
  PROVE  StartedOnce
<1>1. SUFFICES ASSUME NEW c \in Command
               PROVE  Cardinality({n \in ran : runs[n].key = c.key})
                        <= 1 + Cardinality({i \in DOMAIN evicted : evicted[i] = c.key})
  BY DEF StartedOnce
<1> DEFINE key == c.key
           started == {n \in ran : runs[n].key = key}
<1>2. key \in Keys
  BY DEF Keys
<1>3. started \subseteq Execs(key)
  BY DEF RuntimeInvariant, Exchange, ExchangeTypes, Stopped, Execs, Kind
<1>4. IsFiniteSet(Execs(key)) /\ Cardinality(Execs(key)) \in Nat
  BY ExecsFinite DEF RuntimeInvariant, Tab
<1>5. Cardinality(started) <= Cardinality(Execs(key)) /\ Cardinality(started) \in Nat
  BY <1>3, <1>4, FS_Subset, FS_CardinalityType
<1>6. Cardinality(Execs(key)) <= Cardinality(Drops(evicted, key)) + (IF Bound(key) THEN 1 ELSE 0)
  BY <1>2 DEF RuntimeInvariant, Tab, Once
<1>7. Cardinality(Drops(evicted, key)) \in Nat
  BY DropsFinite DEF RuntimeInvariant, Tab, TabTypes
<1>8. Drops(evicted, key) = {i \in DOMAIN evicted : evicted[i] = c.key}
  BY DEF Drops
<1>9. Cardinality(started) <= 1 + Cardinality(Drops(evicted, key))
  <2> HIDE DEF started, key
  <2> QED
    BY <1>4, <1>5, <1>6, <1>7
<1> QED
  BY <1>8, <1>9

LEMMA ContainsElement ==
  ASSUME NEW s \in Seq(Nat), NEW t \in Seq(Nat), NEW n
  PROVE  /\ n \in ToSet(s) => Contains(s, n)
         /\ n \notin ToSet(s) \cup ToSet(t) => ~Contains(s \o t, n)
<1>1. /\ DOMAIN s = 1..Len(s) /\ DOMAIN t = 1..Len(t) /\ Len(s) \in Nat /\ Len(t) \in Nat
      /\ Len(s \o t) = Len(s) + Len(t)
      /\ \A i \in 1..Len(s) : (s \o t)[i] = s[i]
      /\ \A i \in 1..Len(t) : (s \o t)[Len(s) + i] = t[i]
  OBVIOUS
<1>2. n \in ToSet(s) => Contains(s, n)
  BY <1>1 DEF ToSet, Contains
<1>3. ASSUME NEW i \in 1..(Len(s) + Len(t))
      PROVE  (s \o t)[i] \in ToSet(s) \cup ToSet(t)
  <2>1. CASE i <= Len(s)
    BY <1>1, <2>1 DEF ToSet
  <2>2. CASE i > Len(s)
    <3>1. i - Len(s) \in 1..Len(t) /\ i = Len(s) + (i - Len(s))
      BY <1>1, <2>2
    <3>2. (s \o t)[i] = t[i - Len(s)]
      BY <1>1, <3>1
    <3> QED
      BY <1>1, <3>1, <3>2 DEF ToSet
  <2> QED
    BY <1>1, <2>1, <2>2
<1> QED
  BY <1>1, <1>2, <1>3 DEF Contains

\* Every answer tells what was stored, run and stopped: an acknowledged change
\* is in the stored notebook also after a reload, a refused one is in no later
\* version, the code of a command is started again only after its result was
\* dropped, and a stop ends only the execution it was asked for.
THEOREM RuntimeInvHolds == Spec => []RuntimeInv
<1>1. ASSUME RuntimeInvariant PROVE RuntimeInv
  <2>1. RuntimeTypeOK
    BY <1>1 DEF RuntimeInvariant, Tab, TabTypes, Exchange, ExchangeTypes, Kernel, Stages,
                RuntimeTypeOK
  <2>2. stored \in Seq(Nat) /\ snapshot \in Seq(Nat)
    BY <1>1 DEF RuntimeInvariant, Tab, TabTypes
  <2>3. AcknowledgedIsStored
    BY <1>1, <2>2, ContainsElement DEF RuntimeInvariant, Tab, Durable, AcknowledgedIsStored
  <2>4. RefusedLeavesNoTrace
    BY <1>1, <2>2, ContainsElement DEF RuntimeInvariant, Tab, Durable, RefusedLeavesNoTrace
  <2>5. StartedOnce /\ StopsItsOwn
    BY <1>1, OncePerDrop DEF RuntimeInvariant, Exchange, Stopped, StopsItsOwn
  <2> QED
    BY <2>1, <2>3, <2>4, <2>5 DEF RuntimeInv
<1> QED
  BY <1>1, RuntimeInvariance, PTL

=============================================================================
