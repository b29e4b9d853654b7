------------------------------ MODULE UiProofs ------------------------------
(***************************************************************************)
(* Machine-checked proofs about ReplayUi: one submission at a time holds   *)
(* the form, and a client that pages through the runs misses no row that   *)
(* stayed.                                                                 *)
(***************************************************************************)
EXTENDS ReplayUi, FunctionTheorems, FiniteSetTheorems, SequenceTheorems, TLAPS

-----------------------------------------------------------------------------
(* What a flow has still to do.                                            *)

(* Requests that do not release the form.                                  *)
Quiet(todo) == todo \in Seq(Requests) /\ ~Locks(todo)

LEMMA QuietRequest ==
  ASSUME NEW op \in Requests, op.get # "release"
  PROVE  Quiet(<<op>>)
BY DEF Quiet, Locks

LEMMA JoinedTodo ==
  ASSUME NEW a, Quiet(a), NEW b \in Seq(Requests), ReleasesLast(b)
  PROVE  /\ a \o b \in Seq(Requests) /\ ReleasesLast(a \o b)
         /\ Locks(a \o b) <=> Locks(b)
<1>1. PICK c, m, n : c = a \o b /\ m = Len(a) /\ n = Len(b)
  OBVIOUS
<1>2. a \in Seq(Requests) /\ b \in Seq(Requests)
  BY DEF Quiet
<1>3. /\ m \in Nat /\ n \in Nat /\ DOMAIN a = 1 .. m /\ DOMAIN b = 1 .. n
      /\ c \in Seq(Requests) /\ Len(c) = m + n
      /\ \A i \in 1 .. m + n : c[i] = IF i <= m THEN a[i] ELSE b[i - m]
  BY <1>1, <1>2, ConcatProperties, LenProperties
<1>4. DOMAIN c = 1 .. m + n
  BY <1>3, LenProperties
<1>5. \A i \in 1 .. m : a[i].get # "release"
  BY <1>3 DEF Quiet, Locks
<1>6. ASSUME NEW i \in DOMAIN c, c[i].get = "release"
      PROVE  i = m + n /\ Locks(b)
  <2>1. ~(i <= m)
    BY <1>3, <1>4, <1>5, <1>6
  <2>2. i - m \in DOMAIN b /\ b[i - m].get = "release"
    BY <1>3, <1>4, <1>6, <2>1
  <2>3. i - m = n
    BY <1>1, <2>2 DEF ReleasesLast
  <2>4. QED
    BY <1>3, <1>4, <2>2, <2>3 DEF Locks
<1>7. ASSUME NEW i \in DOMAIN b, b[i].get = "release" PROVE Locks(c)
  <2>1. i + m \in DOMAIN c /\ ~(i + m <= m) /\ i + m - m = i
    BY <1>3, <1>4
  <2>2. c[i + m].get = "release"
    BY <1>3, <1>4, <1>7, <2>1
  <2>3. QED
    BY <2>1, <2>2 DEF Locks
<1>8. ReleasesLast(c)
  BY <1>3, <1>6 DEF ReleasesLast
<1>9. Locks(c) <=> Locks(b)
  BY <1>6, <1>7 DEF Locks
<1>10. QED
  BY <1>1, <1>3, <1>8, <1>9

LEMMA RestOfTodo ==
  ASSUME NEW todo \in Seq(Requests), todo # <<>>, ReleasesLast(todo)
  PROVE  /\ Head(todo) \in Requests /\ Head(todo) = todo[1] /\ 1 \in DOMAIN todo
         /\ Tail(todo) \in Seq(Requests) /\ ReleasesLast(Tail(todo))
         /\ Head(todo).get # "release" => (Locks(Tail(todo)) <=> Locks(todo))
         /\ Head(todo).get = "release" => ~Locks(Tail(todo))
<1>1. PICK n, rest : n = Len(todo) /\ rest = Tail(todo)
  OBVIOUS
<1>2. n \in Nat /\ n >= 1 /\ DOMAIN todo = 1 .. n /\ Head(todo) = todo[1]
  BY <1>1, EmptySeq, LenProperties
<1>3. /\ Head(todo) \in Requests /\ rest \in Seq(Requests) /\ Len(rest) = n - 1
      /\ \A i \in 1 .. n - 1 : rest[i] = todo[i + 1]
  BY <1>1, <1>2, HeadTailProperties
<1>4. DOMAIN rest = 1 .. n - 1
  BY <1>3, LenProperties
<1>5. ASSUME NEW i \in DOMAIN rest, rest[i].get = "release"
      PROVE  i = n - 1 /\ Locks(todo) /\ todo[1].get # "release"
  <2>1. i + 1 \in DOMAIN todo /\ todo[i + 1].get = "release"
    BY <1>2, <1>3, <1>4, <1>5
  <2>2. i + 1 = n
    BY <1>1, <2>1 DEF ReleasesLast
  <2>3. 1 \in DOMAIN todo /\ 1 # n
    BY <1>2, <1>4, <2>2
  <2>4. todo[1].get # "release"
    BY <1>1, <2>3 DEF ReleasesLast
  <2>5. QED
    BY <1>2, <1>4, <2>1, <2>2, <2>4 DEF Locks
<1>6. ASSUME NEW i \in DOMAIN todo, todo[i].get = "release", todo[1].get # "release"
      PROVE  Locks(rest)
  <2>1. i # 1 /\ i - 1 \in 1 .. n - 1 /\ i - 1 + 1 = i
    BY <1>2, <1>6
  <2>2. rest[i - 1].get = "release"
    BY <1>3, <1>6, <2>1
  <2>3. QED
    BY <1>4, <2>1, <2>2 DEF Locks
<1>7. ReleasesLast(rest)
  BY <1>3, <1>5 DEF ReleasesLast
<1>8. 1 \in DOMAIN todo
  BY <1>2
<1>9. todo[1].get # "release" => (Locks(rest) <=> Locks(todo))
  BY <1>5, <1>6 DEF Locks
<1>10. todo[1].get = "release" => ~Locks(rest)
  BY <1>5 DEF Locks
<1>11. QED
  BY <1>1, <1>2, <1>3, <1>7, <1>8, <1>9, <1>10

(* The functions' requests, none of which releases the form.               *)
LEMMA RequestsAreQuiet ==
  /\ Quiet(<<>>) /\ Quiet(LoadRuns) /\ Quiet(Boot)
  /\ Quiet(<<Get("health")>> \o LoadRuns)
  /\ \A r \in Runs : Quiet(SelectRun(r)) /\ Quiet(<<Ask("status", r)>>)
                     /\ Quiet(<<Ask("export", r)>>)
  /\ Quiet(<<Get("import")>>)
  /\ Quiet(<<Get("health"), Get("paused")>>) /\ Quiet(<<Get("paused"), Get("health")>>)
<1>1. \A todo : Quiet(todo) => ReleasesLast(todo)
  BY DEF Quiet, Locks, ReleasesLast
<1>2. Quiet(<<>>)
  BY EmptySeq DEF Quiet, Locks
<1>3. Quiet(LoadRuns)
  BY DEF Quiet, Locks, LoadRuns, Get, Requests
<1>4. ASSUME NEW a, NEW b, Quiet(a), Quiet(b) PROVE Quiet(a \o b)
  <2>1. b \in Seq(Requests) /\ ReleasesLast(b) /\ ~Locks(b)
    BY <1>1, <1>4 DEF Quiet
  <2>2. QED
    BY <1>4, <2>1, JoinedTodo DEF Quiet
<1>5. Quiet(<<Get("health")>>) /\ Quiet(<<Get("booted")>>) /\ Quiet(<<Get("import")>>)
  BY DEF Quiet, Locks, Get, Requests
<1>6. Quiet(<<Get("health")>> \o LoadRuns)
  BY <1>3, <1>4, <1>5
<1>7. Quiet(Boot)
  BY <1>4, <1>5, <1>6 DEF Boot
<1>8. \A r \in Runs : Quiet(SelectRun(r)) /\ Quiet(<<Ask("status", r)>>)
                     /\ Quiet(<<Ask("export", r)>>)
  BY DEF Quiet, Locks, SelectRun, Ask, Requests
<1>9. Quiet(<<Get("health"), Get("paused")>>) /\ Quiet(<<Get("paused"), Get("health")>>)
  BY DEF Quiet, Locks, Get, Requests
<1>10. QED
  BY <1>2, <1>3, <1>5, <1>6, <1>7, <1>8, <1>9

-----------------------------------------------------------------------------
(* One flow moves.                                                         *)

Typed ==
  /\ journal \in [Runs -> StepCount] /\ created \in [Runs -> Times]
  /\ decided \subseteq Runs /\ server \in ServerState
  /\ file \in File /\ page \in PageState

LEMMA UiParts ==
  ASSUME UiIInv
  PROVE  /\ Typed /\ LockIsHeld /\ DOMAIN flow = Flows
         /\ \A t \in Flows : FlowOK(flow[t])
BY DEF UiIInv, UiTypeOK, Typed

LEMMA FlowParts ==
  ASSUME UiIInv, NEW t \in Flows
  PROVE  /\ flow[t] = [todo |-> flow[t].todo, got |-> flow[t].got]
         /\ flow[t].todo \in Seq(Requests) /\ ReleasesLast(flow[t].todo)
         /\ flow[t].got # Nil => flow[t].todo # <<>> /\ Fits(Head(flow[t].todo), flow[t].got)
BY DEF UiIInv, UiTypeOK, FlowOK, LockIsHeld

(* Whether the form is locked stays as it was.                             *)
LEMMA FlowMoves ==
  ASSUME UiIInv, NEW t \in Flows, NEW now, flow' = [flow EXCEPT ![t] = now],
         FlowOK(now), ReleasesLast(now.todo), Locks(now.todo) <=> Locks(flow[t].todo),
         Typed', page'.busy = page.busy, UNCHANGED list
  PROVE  UiIInv'
<1>1. /\ LockIsHeld /\ DOMAIN flow = Flows
      /\ \A u \in Flows : FlowOK(flow[u])
  BY UiParts
<1>2. /\ DOMAIN flow' = Flows /\ flow'[t] = now
      /\ \A u \in Flows : u # t => flow'[u] = flow[u]
  BY <1>1
<1>3. \A u \in Flows : FlowOK(flow'[u])
  BY <1>1, <1>2
<1>4. \A u \in Flows : Locks(flow'[u].todo) <=> Locks(flow[u].todo)
  BY <1>2
<1>5. \A u \in Flows : ReleasesLast(flow'[u].todo)
  BY <1>1, <1>2 DEF LockIsHeld
<1>6. LockIsHeld'
  <2>1. page'.busy <=> \E u \in Flows : Locks(flow'[u].todo)
    BY <1>1, <1>4 DEF LockIsHeld
  <2>2. \A u, v \in Flows : (Locks(flow'[u].todo) /\ Locks(flow'[v].todo)) => u = v
    BY <1>1, <1>4 DEF LockIsHeld
  <2>3. QED
    BY <1>5, <2>1, <2>2 DEF LockIsHeld
<1>7. UiTypeOK'
  BY <1>2, <1>3 DEF UiTypeOK, Typed, FlowOK, Fits
<1>8. (list = Nil \/ ListUpTo(list))'
  BY DEF UiIInv, ListUpTo
<1>9. QED
  BY <1>6, <1>7, <1>8 DEF UiIInv

(* The flow takes the answer and goes on.                                  *)
LEMMA FlowGoesOn ==
  ASSUME UiIInv, NEW t \in Flows, flow[t].todo # <<>>, Head(flow[t].todo).get # "release",
         NEW more, Quiet(more), GoOn(t, more),
         Typed', page'.busy = page.busy, UNCHANGED list
  PROVE  UiIInv'
<1>1. PICK todo, rest, now : /\ todo = flow[t].todo /\ rest = more \o Tail(todo)
                             /\ now = Begun(rest)
  OBVIOUS
<1>2. todo \in Seq(Requests) /\ ReleasesLast(todo)
  BY <1>1, FlowParts
<1>3. /\ Tail(todo) \in Seq(Requests) /\ ReleasesLast(Tail(todo))
      /\ Locks(Tail(todo)) <=> Locks(todo)
  BY <1>1, <1>2, RestOfTodo
<1>4. /\ rest \in Seq(Requests) /\ ReleasesLast(rest)
      /\ Locks(rest) <=> Locks(todo)
  BY <1>1, <1>3, JoinedTodo
<1>5. now = [todo |-> rest, got |-> Nil] /\ now.todo = rest
  BY <1>1 DEF Begun
<1>6. FlowOK(now)
  BY <1>4, <1>5 DEF FlowOK
<1>7. flow' = [flow EXCEPT ![t] = now]
  BY <1>1, UiParts DEF GoOn
<1>8. QED
  BY <1>1, <1>4, <1>5, <1>6, <1>7, FlowMoves

(* The flow is answered.                                                   *)
LEMMA FlowIsAnswered ==
  ASSUME UiIInv, NEW t \in Flows, flow[t].todo # <<>>,
         NEW got, Fits(Head(flow[t].todo), got), Answered(t, got),
         Typed', UNCHANGED <<page, list>>
  PROVE  UiIInv'
<1>1. PICK f, now : f = flow[t] /\ now = [f EXCEPT !.got = got]
  OBVIOUS
<1>2. now = [todo |-> flow[t].todo, got |-> got] /\ now.todo = flow[t].todo
  <2>1. f = [todo |-> f.todo, got |-> f.got]
    BY <1>1, FlowParts
  <2>2. now = [todo |-> f.todo, got |-> got]
    BY <1>1, <2>1
  <2>3. QED
    BY <1>1, <2>2
<1>3. FlowOK(now)
  BY <1>2, FlowParts DEF FlowOK
<1>4. flow' = [flow EXCEPT ![t] = now]
  BY <1>1, UiParts DEF Answered
<1>5. QED
  BY <1>2, <1>3, <1>4, FlowMoves, FlowParts

(* An exception leaves the release.                                        *)
LEMMA FlowThrows ==
  ASSUME UiIInv, NEW t \in Flows, Throws(t),
         Typed', page'.busy = page.busy, UNCHANGED list
  PROVE  UiIInv'
<1>1. PICK todo, left, now : /\ todo = flow[t].todo
                             /\ left = IF Locks(todo) THEN <<Get("release")>> ELSE <<>>
                             /\ now = Begun(left)
  OBVIOUS
<1>2. left \in Seq(Requests) /\ ReleasesLast(left) /\ (Locks(left) <=> Locks(todo))
  <2>1. CASE Locks(todo)
    <3>1. left = <<Get("release")>>
      BY <1>1, <2>1
    <3>2. left \in Seq(Requests) /\ Len(left) = 1 /\ DOMAIN left = {1}
          /\ left[1].get = "release"
      BY <3>1 DEF Get, Requests
    <3>3. QED
      BY <2>1, <3>2 DEF ReleasesLast, Locks
  <2>2. CASE ~Locks(todo)
    BY <1>1, <2>2, RequestsAreQuiet DEF Quiet, Locks, ReleasesLast
  <2>3. QED
    BY <2>1, <2>2
<1>3. now = [todo |-> left, got |-> Nil] /\ now.todo = left
  BY <1>1 DEF Begun
<1>4. FlowOK(now)
  BY <1>2, <1>3 DEF FlowOK
<1>5. flow' = [flow EXCEPT ![t] = now]
  BY <1>1, UiParts DEF Throws
<1>6. QED
  BY <1>1, <1>2, <1>3, <1>4, <1>5, FlowMoves

(* A flow starts that does not lock the form.                              *)
LEMMA FlowStarts ==
  ASSUME UiIInv, NEW t \in Flows, NEW todo, Quiet(todo), Starts(t, todo),
         Typed', page'.busy = page.busy, UNCHANGED list
  PROVE  UiIInv'
<1>1. PICK now : now = Begun(todo)
  OBVIOUS
<1>2. now = [todo |-> todo, got |-> Nil] /\ now.todo = todo
  BY <1>1 DEF Begun
<1>3. FlowOK(now) /\ ReleasesLast(todo) /\ ~Locks(todo)
  BY <1>2 DEF FlowOK, Quiet, Locks, ReleasesLast
<1>4. ~Locks(flow[t].todo)
  BY DEF Starts, Idle, Locks
<1>5. flow' = [flow EXCEPT ![t] = now]
  BY <1>1 DEF Starts
<1>6. QED
  BY <1>2, <1>3, <1>4, <1>5, FlowMoves

(* No flow moves.                                                          *)
LEMMA FlowsRest ==
  ASSUME UiIInv, Typed', UNCHANGED <<flow, list>>, page'.busy = page.busy
  PROVE  UiIInv'
<1>1. LockIsHeld'
  BY DEF UiIInv, LockIsHeld, Locks, ReleasesLast
<1>2. UiTypeOK'
  BY DEF UiIInv, UiTypeOK, Typed, FlowOK, Fits
<1>3. (list = Nil \/ ListUpTo(list))'
  BY DEF UiIInv, ListUpTo
<1>4. QED
  BY <1>1, <1>2, <1>3 DEF UiIInv

-----------------------------------------------------------------------------
(* The runs go on; requests are answered.                                  *)

LEMMA ShownTyped ==
  ASSUME Typed
  PROVE  Shown \in File
<1>1. CASE server.live
  <2>1. /\ Shown = [steps |-> journal, created |-> created, order |-> Order]
        /\ Order \in Orders
    BY <1>1, UiAssumption DEF Shown
  <2>2. QED
    BY <2>1 DEF Typed, File
<1>2. CASE ~server.live
  BY <1>2 DEF Shown, Typed, ServerState
<1>3. QED
  BY <1>1, <1>2

LEMMA SourceTyped ==
  ASSUME Typed
  PROVE  /\ Source \in [Runs -> StepCount]
         /\ \A r \in Runs : Only(r, Source[r]) \in [Runs -> StepCount]
         /\ \A r \in Runs : HitlState(Source[r]) \in {"none", "paused", "resumed"}
<1>1. Shown.steps \in [Runs -> StepCount]
  BY ShownTyped DEF File
<1>2. \A n \in StepCount : HitlState(n) \in {"none", "paused", "resumed"}
  BY DEF HitlState
<1>3. Absent \in StepCount /\ Resumed \in StepCount
  BY DEF Absent, Resumed, StepCount
<1>4. Source \in [Runs -> StepCount]
  BY <1>1, <1>3 DEF Source
<1>5. Nowhere \in [Runs -> StepCount]
  BY <1>3 DEF Nowhere
<1>6. QED
  BY <1>2, <1>4, <1>5 DEF Only

LEMMA ProgressInv ==
  ASSUME UiIInv, NEW r \in Runs,
         Progress(r) \/ DecideElsewhere(r) \/ \E s \in Runs : ForkRun(s, r)
  PROVE  UiIInv'
<1>1. Typed
  BY UiParts
<1>2. CASE Progress(r)
  <2>1. journal[r] \in StepCount /\ journal[r] < Resumed
    BY <1>1, <1>2 DEF Typed, Progress
  <2>2. journal[r] + 1 \in StepCount
    BY <2>1 DEF StepCount, Absent, Resumed
  <2>3. journal' \in [Runs -> StepCount]
    BY <1>1, <1>2, <2>2 DEF Progress, Typed
  <2>4. Typed'
    BY <1>1, <1>2, <2>3 DEF Progress, Typed
  <2>5. QED
    BY <1>2, <2>4, FlowsRest DEF Progress
<1>3. CASE DecideElsewhere(r)
  <2>1. Typed'
    BY <1>1, <1>3 DEF DecideElsewhere, Typed
  <2>2. QED
    BY <1>3, <2>1, FlowsRest DEF DecideElsewhere
<1>4. ASSUME NEW s \in Runs, ForkRun(s, r) PROVE UiIInv'
  <2>1. journal[s] \in StepCount
    BY <1>1 DEF Typed
  <2>2. PICK n \in Started .. journal[s] : journal' = [journal EXCEPT ![r] = n]
    BY <1>4 DEF ForkRun
  <2>3. n \in StepCount
    BY <2>1, <2>2 DEF StepCount, Absent, Started, Resumed
  <2>4. journal' \in [Runs -> StepCount]
    BY <1>1, <2>2, <2>3 DEF Typed
  <2>5. created' \in [Runs -> Times]
    BY <1>1, <1>4 DEF ForkRun, Typed
  <2>6. Typed'
    BY <1>1, <1>4, <2>4, <2>5 DEF ForkRun, Typed
  <2>7. QED
    BY <1>4, <2>6, FlowsRest DEF ForkRun
<1>5. QED
  BY <1>2, <1>3, <1>4

(* The next request of a flow is one the page makes.                       *)
LEMMA NextRequest ==
  ASSUME UiIInv, NEW t \in Flows, flow[t].todo # <<>>
  PROVE  /\ Head(flow[t].todo) \in Requests
         /\ Head(flow[t].todo).get \in {"tree", "replay", "status", "input", "posted", "export"}
              => Run(t) \in Runs
<1>1. Head(flow[t].todo) \in Requests
  BY FlowParts, RestOfTodo
<1>2. QED
  BY <1>1 DEF Requests, Run

LEMMA AnswerReadInv ==
  ASSUME UiIInv, NEW t \in Flows, AnswerRead(t)
  PROVE  UiIInv'
<1>1. PICK op : op = Head(flow[t].todo)
  OBVIOUS
<1>2. flow[t].todo # <<>> /\ op.get \notin Writes \cup Inner
  BY <1>1 DEF AnswerRead, Waits
<1>3. /\ op \in Requests
      /\ op.get \in {"tree", "replay", "status", "export"} => op.run \in Runs
  BY <1>1, <1>2, NextRequest DEF Run
<1>4. Typed
  BY UiParts
<1>5. PICK src : src = Source
  OBVIOUS
<1>6. /\ src \in [Runs -> StepCount]
      /\ \A r \in Runs : Only(r, src[r]) \in [Runs -> StepCount]
      /\ \A r \in Runs : HitlState(src[r]) \in {"none", "paused", "resumed"}
      /\ server.live \in BOOLEAN
  BY <1>4, <1>5, SourceTyped DEF Typed, ServerState
<1>7. PICK got : got = Seen(op)
  OBVIOUS
<1>8. /\ op.get = "health" => got = [live |-> server.live]
      /\ op.get = "runs" => got = [runs |-> src]
      /\ op.get = "paused" => got = [paused |-> PausedIn(src)]
      /\ op.get = "tree" => got = [known |-> src[op.run] # Absent]
      /\ op.get = "status" => got = [hitl |-> HitlState(src[op.run])]
      /\ op.get = "export" => got = [file |-> [Shown EXCEPT !.steps = Only(op.run, src[op.run])]]
  BY <1>5, <1>7 DEF Seen
<1>9. op.get = "export" => [Shown EXCEPT !.steps = Only(op.run, src[op.run])] \in File
  BY <1>3, <1>4, <1>6, ShownTyped DEF File
<1>10. PausedIn(src) \subseteq Runs
  BY DEF PausedIn
<1>11. Fits(op, got)
  <2>1. op.get = "health" => got.live \in BOOLEAN
    BY <1>6, <1>8
  <2>2. op.get = "runs" => got.runs \in [Runs -> StepCount]
    BY <1>6, <1>8
  <2>3. op.get = "paused" => got.paused \subseteq Runs
    BY <1>8, <1>10
  <2>4. op.get = "tree" => got.known \in BOOLEAN
    <3>1. PICK known : known = (src[op.run] # Absent)
      OBVIOUS
    <3>2. known \in BOOLEAN
      BY <3>1
    <3>3. op.get = "tree" => got = [known |-> known]
      BY <1>8, <3>1
    <3>4. QED
      BY <3>2, <3>3
  <2>5. op.get = "status" => got.hitl \in {"none", "paused", "resumed"}
    BY <1>3, <1>6, <1>8
  <2>6. op.get = "export" => got.file \in File
    BY <1>8, <1>9
  <2>7. QED
    BY <2>1, <2>2, <2>3, <2>4, <2>5, <2>6 DEF Fits
<1>12. Answered(t, got) /\ UNCHANGED <<page, list>>
  BY <1>1, <1>7 DEF AnswerRead
<1>13. Typed'
  BY <1>4 DEF AnswerRead, Typed
<1>14. QED
  BY <1>1, <1>2, <1>11, <1>12, <1>13, FlowIsAnswered

(* An answer that is a word fits every write.                              *)
LEMMA WordsFit ==
  ASSUME NEW op, op.get \in Writes, NEW got
  PROVE  Fits(op, got)
BY DEF Writes, Fits

LEMMA TakeInputInv ==
  ASSUME UiIInv, NEW t \in Flows, TakeInput(t)
  PROVE  UiIInv'
<1>1. PICK todo, r : todo = flow[t].todo /\ r = Run(t)
  OBVIOUS
<1>2. todo # <<>> /\ Head(todo).get = "input" /\ flow[t].got = Nil
  BY <1>1 DEF TakeInput, Waits, Asks
<1>3. Head(todo) \in Requests /\ r \in Runs
  BY <1>1, <1>2, NextRequest
<1>4. Typed /\ server.queued \cup {r} \subseteq Runs
  BY <1>3, UiParts DEF Typed, ServerState
<1>5. UNCHANGED <<page, list>>
  BY DEF TakeInput
<1>6. ASSUME server' = [server EXCEPT !.queued = @ \cup {r}] \/ UNCHANGED server
      PROVE  Typed'
  <2>1. server' \in ServerState
    BY <1>4, <1>6 DEF Typed, ServerState
  <2>2. QED
    BY <1>4, <2>1 DEF TakeInput, Typed
<1>7. ASSUME NEW got, Answered(t, got), Typed' PROVE UiIInv'
  BY <1>1, <1>2, <1>5, <1>7, FlowIsAnswered, WordsFit DEF Writes
<1>8. ASSUME flow' = [flow EXCEPT ![t].todo[1].get = "posted"], Typed' PROVE UiIInv'
  <2>1. /\ todo \in Seq(Requests) /\ ReleasesLast(todo)
        /\ 1 \in DOMAIN todo /\ Head(todo) = todo[1]
    BY <1>1, <1>2, FlowParts, RestOfTodo
  <2>2. PICK op : op = [todo[1] EXCEPT !.get = "posted"]
    OBVIOUS
  <2>3. op \in Requests /\ op.get = "posted"
    <3>1. todo[1] \in [get : {"tree", "replay", "status", "input", "posted", "export"}, run : Runs]
      BY <1>2, <1>3, <2>1 DEF Requests
    <3>2. QED
      BY <2>2, <3>1 DEF Requests
  <2>4. PICK new : new = [todo EXCEPT ![1] = op]
    OBVIOUS
  <2>5. 1 \in 1 .. Len(todo) /\ DOMAIN todo = 1 .. Len(todo)
    BY <2>1, LenProperties
  <2>6. /\ new \in Seq(Requests) /\ Len(new) = Len(todo)
        /\ \A j \in 1 .. Len(todo) : new[j] = IF j = 1 THEN op ELSE todo[j]
    BY <2>1, <2>3, <2>4, <2>5, ExceptSeq
  <2>7. DOMAIN new = 1 .. Len(todo)
    BY <2>6, LenProperties
  <2>8. todo[1].get # "release" /\ op.get # "release"
    BY <1>2, <2>1, <2>3
  <2>9. \A j \in 1 .. Len(todo) : new[j].get = "release" <=> todo[j].get = "release"
    BY <2>6, <2>8
  <2>10. ReleasesLast(new) /\ (Locks(new) <=> Locks(todo))
    BY <2>1, <2>5, <2>6, <2>7, <2>9 DEF ReleasesLast, Locks
  <2>11. PICK f, now : f = flow[t] /\ now = [f EXCEPT !.todo = new]
    OBVIOUS
  <2>12. f = [todo |-> todo, got |-> Nil]
    BY <1>1, <1>2, <2>11, FlowParts
  <2>13. now = [todo |-> new, got |-> Nil] /\ now.todo = new
    BY <2>11, <2>12
  <2>14. flow' = [flow EXCEPT ![t] = now]
    <3>1. [f EXCEPT !.todo[1].get = "posted"] = now
      BY <1>1, <2>2, <2>4, <2>11
    <3>2. flow' = [flow EXCEPT ![t] = [f EXCEPT !.todo[1].get = "posted"]]
      BY <1>8, <2>11
    <3>3. QED
      BY <3>1, <3>2
  <2>15. FlowOK(now)
    BY <2>6, <2>13 DEF FlowOK
  <2>16. QED
    BY <1>1, <1>5, <1>8, <2>10, <2>13, <2>14, <2>15, FlowMoves
<1>9. QED
  BY <1>1, <1>6, <1>7, <1>8 DEF TakeInput

LEMMA ProvideInputInv ==
  ASSUME UiIInv, NEW t \in Flows, ProvideInput(t)
  PROVE  UiIInv'
<1>1. /\ flow[t].todo # <<>> /\ Head(flow[t].todo).get = "posted"
  BY DEF ProvideInput, Waits, Asks
<1>2. Run(t) \in Runs
  BY <1>1, NextRequest
<1>3. Typed'
  BY <1>2, UiParts DEF ProvideInput, Typed
<1>4. PICK got : got = IF Run(t) \notin decided THEN "accepted"
                       ELSE IF HitlState(Source[Run(t)]) = "resumed" THEN "resumed"
                       ELSE "refused"
  OBVIOUS
<1>5. Answered(t, got) /\ UNCHANGED <<page, list>>
  BY <1>4 DEF ProvideInput
<1>6. Fits(Head(flow[t].todo), got)
  BY <1>1, WordsFit DEF Writes
<1>7. QED
  BY <1>1, <1>3, <1>5, <1>6, FlowIsAnswered

LEMMA TakeImportInv ==
  ASSUME UiIInv, NEW t \in Flows, TakeImport(t)
  PROVE  UiIInv'
<1>1. /\ flow[t].todo # <<>> /\ Head(flow[t].todo).get = "import"
  BY DEF TakeImport, Waits, Asks
<1>2. server' \in ServerState
  BY UiParts DEF TakeImport, Typed, ServerState
<1>3. Typed'
  BY <1>2, UiParts DEF TakeImport, Typed
<1>4. Answered(t, "ok") /\ UNCHANGED <<page, list>>
  BY DEF TakeImport
<1>5. Fits(Head(flow[t].todo), "ok")
  BY <1>1, WordsFit DEF Writes
<1>6. QED
  BY <1>1, <1>3, <1>4, <1>5, FlowIsAnswered

-----------------------------------------------------------------------------
(* The page takes an answer.                                               *)

(* The page changes, and goes on as it did about the form.                 *)
LEMMA PageTyped ==
  ASSUME UiIInv, page' \in PageState, UNCHANGED <<journal, created, decided, server, file>>
  PROVE  Typed'
BY UiParts DEF Typed

(* The first answers: the source, the runs, the paused runs.               *)
LEMMA AnswersFit ==
  ASSUME UiIInv, NEW t \in Flows, Tell(t)
  PROVE  /\ flow[t].todo # <<>>
         /\ Asks(t, "health") => Got(t).live \in BOOLEAN
         /\ Asks(t, "runs")   => Got(t).runs \in [Runs -> StepCount]
         /\ Asks(t, "paused") => Got(t).paused \subseteq Runs
         /\ Asks(t, "tree")   => Got(t).known \in BOOLEAN
         /\ Asks(t, "status") => Got(t).hitl \in {"none", "paused", "resumed"}
         /\ Asks(t, "export") => Got(t).file \in File
BY FlowParts DEF Tell, Got, Asks, Fits

(* What the poll goes on with.                                             *)
LEMMA ThenStatusIsQuiet ==
  ASSUME Typed, NEW t
  PROVE  Quiet(ThenStatus(t))
<1>1. page.selected \in Runs \cup {Nil}
  BY DEF Typed, PageState
<1>2. QED
  BY <1>1, RequestsAreQuiet DEF ThenStatus

LEMMA FirstAnswersInv ==
  ASSUME UiIInv, NEW t \in Flows, HealthCame(t) \/ RunsCame(t) \/ PausedCame(t)
  PROVE  UiIInv'
<1>1. Typed /\ Quiet(<<>>) /\ Quiet(ThenStatus(t))
  BY UiParts, ThenStatusIsQuiet, RequestsAreQuiet
<1>2. PICK p : p = page
  OBVIOUS
<1>3. p \in PageState
  BY <1>1, <1>2 DEF Typed
<1>4. CASE HealthCame(t)
  <2>1. /\ flow[t].todo # <<>> /\ Head(flow[t].todo).get # "release"
        /\ Got(t).live \in BOOLEAN
    BY <1>4, AnswersFit DEF HealthCame, Asks
  <2>2. page' = [p EXCEPT !.live = Got(t).live, !.enabled = TRUE]
    BY <1>2, <1>4 DEF HealthCame
  <2>3. page' \in PageState /\ page'.busy = p.busy
    BY <1>3, <2>1, <2>2 DEF PageState
  <2>4. Typed' /\ GoOn(t, <<>>) /\ UNCHANGED list
    BY <1>4, <2>3, PageTyped DEF HealthCame, Elsewhere
  <2>5. QED
    BY <1>1, <1>2, <2>1, <2>3, <2>4, FlowGoesOn
<1>5. CASE RunsCame(t)
  <2>1. /\ flow[t].todo # <<>> /\ Head(flow[t].todo).get # "release"
        /\ Got(t).runs \in [Runs -> StepCount]
    BY <1>5, AnswersFit DEF RunsCame, Asks
  <2>2. page' = [p EXCEPT !.runs = Got(t).runs]
    BY <1>2, <1>5 DEF RunsCame
  <2>3. page' \in PageState /\ page'.busy = p.busy
    BY <1>3, <2>1, <2>2 DEF PageState
  <2>4. Typed' /\ GoOn(t, <<>>) /\ UNCHANGED list
    BY <1>5, <2>3, PageTyped DEF RunsCame, Elsewhere
  <2>5. QED
    BY <1>1, <1>2, <2>1, <2>3, <2>4, FlowGoesOn
<1>6. CASE PausedCame(t)
  <2>1. /\ flow[t].todo # <<>> /\ Head(flow[t].todo).get # "release"
        /\ Got(t).paused \subseteq Runs
    BY <1>6, AnswersFit DEF PausedCame, Asks
  <2>2. page' = [p EXCEPT !.paused = Got(t).paused]
    BY <1>2, <1>6 DEF PausedCame
  <2>3. page' \in PageState /\ page'.busy = p.busy
    BY <1>3, <2>1, <2>2 DEF PageState
  <2>4. Typed' /\ GoOn(t, ThenStatus(t)) /\ UNCHANGED list
    BY <1>6, <2>3, PageTyped DEF PausedCame, Elsewhere
  <2>5. QED
    BY <1>1, <1>2, <2>1, <2>3, <2>4, FlowGoesOn
<1>7. QED
  BY <1>4, <1>5, <1>6

LEMMA TreesCameInv ==
  ASSUME UiIInv, NEW t \in Flows, TreesCame(t)
  PROVE  UiIInv'
<1>1. Typed /\ page \in PageState /\ page.selected \in Runs \cup {Nil}
  BY UiParts DEF Typed, PageState
<1>2. flow[t].todo # <<>> /\ Head(flow[t].todo).get # "release"
  BY DEF TreesCame, Asks
<1>3. UNCHANGED <<journal, created, decided, server, file, list>>
  BY DEF TreesCame, Elsewhere
<1>4. ASSUME NEW more, Quiet(more), GoOn(t, more), page' \in PageState,
             page'.busy = page.busy
      PROVE  UiIInv'
  BY <1>2, <1>3, <1>4, PageTyped, FlowGoesOn
<1>5. CASE page.selected # Nil /\ GoOn(t, <<Ask("status", page.selected)>>) /\ UNCHANGED page
  <2>1. Quiet(<<Ask("status", page.selected)>>)
    BY <1>1, <1>5, RequestsAreQuiet
  <2>2. QED
    BY <1>1, <1>4, <1>5, <2>1
<1>6. ASSUME NEW r \in Restorable, page' = [page EXCEPT !.selected = r], GoOn(t, SelectRun(r))
      PROVE  UiIInv'
  <2>1. r \in Runs
    BY DEF Restorable, Known
  <2>2. Quiet(SelectRun(r))
    BY <2>1, RequestsAreQuiet
  <2>3. page' \in PageState /\ page'.busy = page.busy
    BY <1>1, <1>6, <2>1 DEF PageState
  <2>4. QED
    BY <1>4, <1>6, <2>2, <2>3
<1>7. CASE GoOn(t, <<>>) /\ UNCHANGED page
  BY <1>1, <1>4, <1>7, RequestsAreQuiet
<1>8. QED
  BY <1>5, <1>6, <1>7 DEF TreesCame

LEMMA RunAnswersInv ==
  ASSUME UiIInv, NEW t \in Flows, TreeCame(t) \/ ReplayCame(t) \/ StatusCame(t)
  PROVE  UiIInv'
<1>1. Typed /\ page \in PageState /\ Quiet(<<>>)
  BY UiParts, RequestsAreQuiet DEF Typed
<1>2. /\ flow[t].todo # <<>> /\ Head(flow[t].todo).get # "release"
      /\ Head(flow[t].todo).get \in {"tree", "replay", "status"}
  BY DEF TreeCame, ReplayCame, StatusCame, Asks
<1>3. Run(t) \in Runs
  BY <1>2, NextRequest
<1>4. PICK r, known : r = Run(t) /\ known = IF Got(t).known THEN Run(t) ELSE Nil
  OBVIOUS
<1>5. r \in Runs /\ known \in Runs \cup {Nil}
  BY <1>3, <1>4
<1>6. page' \in PageState /\ page'.busy = page.busy
  <2>1. CASE TreeCame(t)
    <3>1. page' = [page EXCEPT !.path = known]
      BY <1>4, <2>1 DEF TreeCame
    <3>2. QED
      BY <1>1, <1>5, <3>1 DEF PageState
  <2>2. CASE ReplayCame(t)
    <3>1. page' = [page EXCEPT !.replay = r]
      BY <1>4, <2>2 DEF ReplayCame
    <3>2. QED
      BY <1>1, <1>5, <3>1 DEF PageState
  <2>3. CASE StatusCame(t)
    <3>1. PICK h, e : h = Got(t).hitl /\ e = (Got(t).hitl = "paused")
      OBVIOUS
    <3>2. h \in {"none", "paused", "resumed"} /\ e \in BOOLEAN
      BY <2>3, <3>1, AnswersFit DEF StatusCame
    <3>3. page' = [page EXCEPT !.hitl = h, !.enabled = e]
      BY <2>3, <3>1 DEF StatusCame
    <3>4. QED
      BY <1>1, <3>2, <3>3 DEF PageState
  <2>4. QED
    BY <2>1, <2>2, <2>3
<1>7. UNCHANGED <<journal, created, decided, server, file, list>> /\ GoOn(t, <<>>)
  BY DEF TreeCame, ReplayCame, StatusCame, Elsewhere
<1>8. QED
  BY <1>1, <1>2, <1>6, <1>7, PageTyped, FlowGoesOn

LEMMA WritesCameInv ==
  ASSUME UiIInv, NEW t \in Flows, InputCame(t) \/ ImportCame(t) \/ ExportCame(t)
  PROVE  UiIInv'
<1>1. Typed /\ page \in PageState /\ Quiet(<<>>) /\ Quiet(LoadRuns)
      /\ Quiet(<<Get("health")>> \o LoadRuns)
  BY UiParts, RequestsAreQuiet DEF Typed
<1>2. flow[t].todo # <<>>
  BY AnswersFit DEF InputCame, ImportCame, ExportCame
<1>3. UNCHANGED list
  BY DEF InputCame, ImportCame, ExportCame, Elsewhere
<1>4. CASE InputCame(t)
  <2>1. Head(flow[t].todo).get # "release"
    BY <1>4 DEF InputCame
  <2>2. Typed' /\ UNCHANGED page
    BY <1>1, <1>4, PageTyped DEF InputCame, Elsewhere
  <2>3. GoOn(t, LoadRuns) \/ Throws(t)
    BY <1>4 DEF InputCame
  <2>4. QED
    BY <1>1, <1>2, <1>3, <2>1, <2>2, <2>3, FlowGoesOn, FlowThrows
<1>5. CASE ImportCame(t)
  <2>1. page' \in PageState /\ page'.busy = page.busy
    BY <1>1, <1>5 DEF ImportCame, PageState
  <2>2. /\ Typed' /\ Head(flow[t].todo).get # "release"
        /\ GoOn(t, <<Get("health")>> \o LoadRuns)
    BY <1>5, <2>1, PageTyped DEF ImportCame, Elsewhere, Asks
  <2>3. QED
    BY <1>1, <1>2, <1>3, <2>1, <2>2, FlowGoesOn
<1>6. CASE ExportCame(t)
  <2>1. Got(t).file \in File
    BY <1>6, AnswersFit DEF ExportCame
  <2>2. /\ Typed' /\ UNCHANGED page /\ Head(flow[t].todo).get # "release"
        /\ GoOn(t, <<>>)
    BY <1>1, <1>6, <2>1 DEF ExportCame, Typed, Asks
  <2>3. QED
    BY <1>1, <1>2, <1>3, <2>2, FlowGoesOn
<1>7. QED
  BY <1>4, <1>5, <1>6

LEMMA InnerStepsInv ==
  ASSUME UiIInv, NEW t \in Flows, Booted(t) \/ Reselect(t)
  PROVE  UiIInv'
<1>1. Typed /\ page \in PageState /\ Quiet(<<>>)
  BY UiParts, RequestsAreQuiet DEF Typed
<1>2. flow[t].todo # <<>> /\ Head(flow[t].todo).get # "release" /\ UNCHANGED list
  BY DEF Booted, Reselect, Asks, Elsewhere
<1>3. CASE Booted(t)
  <2>1. page' \in PageState /\ page'.busy = page.busy
    BY <1>1, <1>3 DEF Booted, PageState
  <2>2. Typed' /\ GoOn(t, <<>>)
    BY <1>3, <2>1, PageTyped DEF Booted, Elsewhere
  <2>3. QED
    BY <1>1, <1>2, <2>1, <2>2, FlowGoesOn
<1>4. CASE Reselect(t)
  <2>1. page.selected \in Runs \cup {Nil}
    BY <1>1 DEF PageState
  <2>2. PICK more : more = IF page.selected = Nil THEN <<>> ELSE SelectRun(page.selected)
    OBVIOUS
  <2>3. Quiet(more)
    BY <2>1, <2>2, RequestsAreQuiet
  <2>4. Typed' /\ GoOn(t, more) /\ UNCHANGED page
    BY <1>1, <1>4, <2>2, PageTyped DEF Reselect, Elsewhere
  <2>5. QED
    BY <1>2, <2>3, <2>4, FlowGoesOn
<1>5. QED
  BY <1>3, <1>4

(* The form is released by the one flow that holds it.                     *)
LEMMA ReleaseInv ==
  ASSUME UiIInv, NEW t \in Flows, Release(t)
  PROVE  UiIInv'
<1>1. Typed /\ page \in PageState /\ LockIsHeld /\ DOMAIN flow = Flows
      /\ \A u \in Flows : FlowOK(flow[u])
  BY UiParts DEF Typed
<1>2. PICK todo, rest, now : todo = flow[t].todo /\ rest = <<>> \o Tail(todo) /\ now = Begun(rest)
  OBVIOUS
<1>3. /\ todo # <<>> /\ Head(todo).get = "release"
      /\ todo \in Seq(Requests) /\ ReleasesLast(todo)
  BY <1>2, FlowParts DEF Release, Asks
<1>4. /\ Tail(todo) \in Seq(Requests) /\ ReleasesLast(Tail(todo)) /\ ~Locks(Tail(todo))
      /\ Locks(todo)
  BY <1>3, RestOfTodo DEF Locks
<1>5. rest \in Seq(Requests) /\ ReleasesLast(rest) /\ ~Locks(rest)
  BY <1>2, <1>4, JoinedTodo, RequestsAreQuiet
<1>6. now = [todo |-> rest, got |-> Nil] /\ now.todo = rest
  BY <1>2 DEF Begun
<1>7. FlowOK(now)
  BY <1>5, <1>6 DEF FlowOK
<1>8. flow' = [flow EXCEPT ![t] = now]
  BY <1>1, <1>2 DEF Release, GoOn
<1>9. /\ DOMAIN flow' = Flows /\ flow'[t] = now
      /\ \A u \in Flows : u # t => flow'[u] = flow[u]
  BY <1>1, <1>8
<1>10. page' \in PageState /\ page'.busy = FALSE
  BY <1>1 DEF Release, PageState
<1>11. \A u \in Flows : ~Locks(flow'[u].todo)
  <2>1. \A u \in Flows : u # t => ~Locks(flow[u].todo)
    BY <1>1, <1>2, <1>4 DEF LockIsHeld
  <2>2. QED
    BY <1>5, <1>6, <1>9, <2>1
<1>12. \A u \in Flows : ReleasesLast(flow'[u].todo)
  BY <1>1, <1>5, <1>6, <1>9 DEF LockIsHeld
<1>13. LockIsHeld'
  BY <1>10, <1>11, <1>12 DEF LockIsHeld, Locks, ReleasesLast
<1>14. Typed'
  BY <1>10, PageTyped DEF Release, Elsewhere
<1>15. \A u \in Flows : FlowOK(flow'[u])
  BY <1>1, <1>7, <1>9
<1>16. UiTypeOK'
  BY <1>9, <1>14, <1>15 DEF UiTypeOK, Typed, FlowOK, Fits
<1>17. (list = Nil \/ ListUpTo(list))'
  BY DEF UiIInv, ListUpTo, Release, Elsewhere
<1>18. QED
  BY <1>13, <1>16, <1>17 DEF UiIInv

-----------------------------------------------------------------------------
(* Requests fail; users and the timer start flows.                         *)

LEMMA CaughtInv ==
  ASSUME UiIInv, NEW t \in Flows, Caught(t)
  PROVE  UiIInv'
<1>1. Typed /\ page \in PageState /\ Quiet(<<>>) /\ Quiet(ThenStatus(t))
  BY UiParts, ThenStatusIsQuiet, RequestsAreQuiet DEF Typed
<1>2. /\ flow[t].todo # <<>> /\ Head(flow[t].todo).get # "release"
      /\ UNCHANGED <<journal, created, decided, server, file, list>>
  BY DEF Caught, AwaitsFault, Inner
<1>3. ASSUME NEW more, Quiet(more), GoOn(t, more), page' \in PageState,
             page'.busy = page.busy
      PROVE  UiIInv'
  BY <1>2, <1>3, PageTyped, FlowGoesOn
<1>4. CASE page' = [page EXCEPT !.paused = {}] /\ GoOn(t, ThenStatus(t))
  <2>1. page' \in PageState /\ page'.busy = page.busy
    BY <1>1, <1>4 DEF PageState
  <2>2. QED
    BY <1>1, <1>3, <1>4, <2>1
<1>5. CASE /\ Asks(t, "status") /\ GoOn(t, <<>>)
           /\ page' = [page EXCEPT !.hitl = HitlState(page.runs[Run(t)])]
  <2>1. PICK h : h = HitlState(page.runs[Run(t)])
    OBVIOUS
  <2>2. h \in {"none", "paused", "resumed"}
    BY <2>1 DEF HitlState
  <2>3. page' = [page EXCEPT !.hitl = h]
    BY <1>5, <2>1
  <2>4. page' \in PageState /\ page'.busy = page.busy
    BY <1>1, <2>2, <2>3 DEF PageState
  <2>5. QED
    BY <1>1, <1>3, <1>5, <2>4
<1>6. CASE GoOn(t, <<>>) /\ UNCHANGED page
  BY <1>1, <1>3, <1>6
<1>7. QED
  BY <1>4, <1>5, <1>6 DEF Caught

LEMMA ThrownInv ==
  ASSUME UiIInv, NEW t \in Flows, Thrown(t)
  PROVE  UiIInv'
<1>1. page \in PageState
  BY UiParts DEF Typed
<1>2. PICK up : up = IF t = "load" /\ page.up = "booting" THEN "dead" ELSE page.up
  OBVIOUS
<1>3. up \in {"booting", "up", "dead"}
  BY <1>1, <1>2 DEF PageState
<1>4. page' = [page EXCEPT !.up = up]
  BY <1>2 DEF Thrown
<1>5. page' \in PageState /\ page'.busy = page.busy
  BY <1>1, <1>3, <1>4 DEF PageState
<1>6. Typed' /\ Throws(t) /\ UNCHANGED list
  BY <1>5, PageTyped DEF Thrown, AwaitsFault
<1>7. QED
  BY <1>5, <1>6, FlowThrows

LEMMA StartsInv ==
  ASSUME UiIInv,
         \/ \E t \in Slots : (\E r \in Runs : ClickRun(t, r)) \/ ClickExport(t)
         \/ ClickImport \/ Poll
  PROVE  UiIInv'
<1>1. Typed /\ page \in PageState /\ page.selected \in Runs \cup {Nil}
  BY UiParts DEF Typed, PageState
<1>2. ASSUME NEW t \in Slots, NEW r \in Runs, ClickRun(t, r) PROVE UiIInv'
  <2>1. page' \in PageState /\ page'.busy = page.busy
    BY <1>1, <1>2 DEF ClickRun, PageState
  <2>2. Typed' /\ t \in Flows
    BY <1>2, <2>1, PageTyped DEF ClickRun, Flows
  <2>3. Quiet(SelectRun(r))
    BY RequestsAreQuiet
  <2>4. Starts(t, SelectRun(r)) /\ UNCHANGED list
    BY <1>2 DEF ClickRun
  <2>5. QED
    BY <2>1, <2>2, <2>3, <2>4, FlowStarts
<1>3. ASSUME NEW t \in Slots, ClickExport(t) PROVE UiIInv'
  <2>1. page.selected \in Runs
    BY <1>1, <1>3 DEF ClickExport
  <2>2. Quiet(<<Ask("export", page.selected)>>)
    BY <2>1, RequestsAreQuiet
  <2>3. Typed' /\ t \in Flows
    BY <1>1, <1>3, PageTyped DEF ClickExport, Flows
  <2>4. Starts(t, <<Ask("export", page.selected)>>) /\ UNCHANGED <<page, list>>
    BY <1>3 DEF ClickExport
  <2>5. QED
    BY <2>2, <2>3, <2>4, FlowStarts
<1>4. CASE ClickImport
  <2>1. Typed' /\ "load" \in Flows
    BY <1>1, <1>4, PageTyped DEF ClickImport, Flows
  <2>2. Starts("load", <<Get("import")>>) /\ UNCHANGED <<page, list>>
    BY <1>4 DEF ClickImport
  <2>3. QED
    BY <2>1, <2>2, RequestsAreQuiet, FlowStarts
<1>5. CASE Poll
  <2>1. Typed' /\ "poll" \in Flows /\ UNCHANGED <<page, list>>
    BY <1>1, <1>5, PageTyped DEF Poll, Elsewhere, Flows
  <2>2. PICK todo : /\ todo \in {<<Get("health"), Get("paused")>>, <<Get("paused"), Get("health")>>}
                    /\ Starts("poll", todo)
    BY <1>5 DEF Poll
  <2>3. Quiet(todo)
    BY <2>2, RequestsAreQuiet
  <2>4. QED
    BY <2>1, <2>2, <2>3, FlowStarts
<1>6. QED
  BY <1>2, <1>3, <1>4, <1>5

(* The form is locked by a submission, and no other holds it then.         *)
LEMMA ClickSubmitInv ==
  ASSUME UiIInv, NEW t \in Slots, ClickSubmit(t)
  PROVE  UiIInv'
<1>1. Typed /\ page \in PageState /\ LockIsHeld /\ DOMAIN flow = Flows /\ t \in Flows
      /\ \A u \in Flows : FlowOK(flow[u])
  BY UiParts DEF Typed, Flows
<1>2. page.selected \in Runs /\ page.busy = FALSE
  BY <1>1 DEF ClickSubmit, hitlCanSubmit, PageState
<1>3. PICK todo, now : /\ todo = <<Ask("input", page.selected), Get("reselect"), Get("release")>>
                       /\ now = Begun(todo)
  OBVIOUS
<1>4. /\ todo \in Seq(Requests) /\ Len(todo) = 3 /\ DOMAIN todo = 1 .. 3
      /\ todo[1].get = "input" /\ todo[2].get = "reselect" /\ todo[3].get = "release"
  BY <1>2, <1>3 DEF Ask, Get, Requests
<1>5. ReleasesLast(todo) /\ Locks(todo)
  BY <1>4 DEF ReleasesLast, Locks
<1>6. now = [todo |-> todo, got |-> Nil] /\ now.todo = todo
  BY <1>3 DEF Begun
<1>7. FlowOK(now)
  BY <1>4, <1>6 DEF FlowOK
<1>8. flow' = [flow EXCEPT ![t] = now]
  BY <1>3 DEF ClickSubmit, Starts
<1>9. /\ DOMAIN flow' = Flows /\ flow'[t] = now
      /\ \A u \in Flows : u # t => flow'[u] = flow[u]
  BY <1>1, <1>8
<1>10. page' \in PageState /\ page'.busy = TRUE
  BY <1>1 DEF ClickSubmit, PageState
<1>11. \A u \in Flows : Locks(flow'[u].todo) <=> u = t
  <2>1. \A u \in Flows : ~Locks(flow[u].todo)
    BY <1>1, <1>2 DEF LockIsHeld
  <2>2. QED
    BY <1>5, <1>6, <1>9, <2>1
<1>12. \A u \in Flows : ReleasesLast(flow'[u].todo)
  BY <1>1, <1>5, <1>6, <1>9 DEF LockIsHeld
<1>13. LockIsHeld'
  BY <1>1, <1>10, <1>11, <1>12 DEF LockIsHeld, Locks, ReleasesLast
<1>14. Typed'
  BY <1>10, PageTyped DEF ClickSubmit
<1>15. \A u \in Flows : FlowOK(flow'[u])
  BY <1>1, <1>7, <1>9
<1>16. UiTypeOK'
  BY <1>9, <1>14, <1>15 DEF UiTypeOK, Typed, FlowOK, Fits
<1>17. (list = Nil \/ ListUpTo(list))'
  BY DEF UiIInv, ListUpTo, ClickSubmit
<1>18. QED
  BY <1>13, <1>16, <1>17 DEF UiIInv

-----------------------------------------------------------------------------
(* The order of a listing.                                                 *)

LEMMA OrderFacts ==
  ASSUME NEW o \in Orders
  PROVE  /\ o \in [Row -> Nat]
         /\ \A x, y \in Row : o[x] = o[y] => x = y
         /\ \A x, y \in Row : x.at < y.at => o[x] < o[y]
         /\ \A x \in Row : x.at \in Nat /\ o[x] \in Nat
         /\ \A x, y \in Row : o[x] <= o[y] => x.at <= y.at
<1>1. /\ o \in [Row -> Nat]
      /\ \A x, y \in Row : (o[x] = o[y] => x = y) /\ (x.at < y.at => o[x] < o[y])
  <2>1. o \in [Row -> Nat]
    BY DEF Orders
  <2>2. \A x, y \in Row : (o[x] = o[y] => x = y) /\ (x.at < y.at => o[x] < o[y])
    <3>1. RowsInOrder(o)
      BY DEF Orders
    <3>2. QED
      BY <3>1 DEF RowsInOrder
  <2>3. QED
    BY <2>1, <2>2
<1>2. \A x \in Row : x.at \in Nat /\ o[x] \in Nat
  BY <1>1, UiAssumption DEF Row
<1>3. ASSUME NEW x \in Row, NEW y \in Row, o[x] <= o[y] PROVE x.at <= y.at
  <2>1. ~(o[y] < o[x]) /\ x.at \in Nat /\ y.at \in Nat
    BY <1>2, <1>3
  <2>2. ~(y.at < x.at)
    BY <1>1, <2>1
  <2>3. QED
    BY <2>1, <2>2
<1>4. QED
  BY <1>1, <1>2, <1>3

(* What a source shows can be listed.                                      *)
LEMMA SourceRowsFinite ==
  ASSUME Typed
  PROVE  SourceRows \in SUBSET Row /\ IsFiniteSet(SourceRows) /\ Shown.order \in Orders
<1>1. Shown.created \in [Runs -> Times] /\ Shown.order \in Orders
  BY ShownTyped DEF File
<1>2. Known(Source) \in SUBSET Runs
  BY DEF Known
<1>3. SourceRows \in SUBSET Row
  BY <1>1, <1>2 DEF SourceRows, Row
<1>4. IsFiniteSet(Known(Source))
  BY <1>2, UiAssumption, FS_Subset
<1>5. PICK f : f = [r \in Known(Source) |-> [run |-> r, at |-> Shown.created[r]]]
  OBVIOUS
<1>6. f \in Surjection(Known(Source), SourceRows)
  BY <1>5 DEF Surjection, SourceRows
<1>7. IsFiniteSet(SourceRows)
  BY <1>4, <1>6, FS_Surjection
<1>8. QED
  BY <1>1, <1>3, <1>7

LEMMA Ranks ==
  ASSUME NEW S \in SUBSET Row, IsFiniteSet(S), NEW o \in Orders
  PROVE  /\ Cardinality(S) \in Nat
         /\ \A x \in S : Cardinality(Before(S, o, x)) \in 0 .. Cardinality(S) - 1
         /\ \A x, y \in S :
              o[x] < o[y] => Cardinality(Before(S, o, x)) < Cardinality(Before(S, o, y))
<1>1. o \in [Row -> Nat]
  BY OrderFacts
<1>2. Cardinality(S) \in Nat
  BY FS_CardinalityType
<1>3. ASSUME NEW A \in SUBSET S, NEW B \in SUBSET A, NEW x \in A, x \notin B
      PROVE  Cardinality(A) \in Nat /\ Cardinality(B) \in Nat /\ Cardinality(B) < Cardinality(A)
  <2>1. IsFiniteSet(A) /\ IsFiniteSet(B)
    BY <1>1, FS_Subset
  <2>2. Cardinality(A) \in Nat /\ Cardinality(B) \in Nat
    BY <2>1, FS_CardinalityType
  <2>3. Cardinality(B) <= Cardinality(A) /\ (Cardinality(A) = Cardinality(B) => A = B)
    BY <2>1, FS_Subset
  <2>4. A # B
    BY <1>3
  <2>5. QED
    BY <2>2, <2>3, <2>4
<1>4. ASSUME NEW x \in S PROVE Cardinality(Before(S, o, x)) \in 0 .. Cardinality(S) - 1
  <2>1. Before(S, o, x) \in SUBSET S /\ x \notin Before(S, o, x)
    BY <1>1 DEF Before
  <2>2. /\ Cardinality(Before(S, o, x)) \in Nat
        /\ Cardinality(Before(S, o, x)) < Cardinality(S)
    BY <1>3, <2>1
  <2>3. QED
    BY <1>2, <2>2
<1>5. ASSUME NEW x \in S, NEW y \in S, o[x] < o[y]
      PROVE  Cardinality(Before(S, o, x)) < Cardinality(Before(S, o, y))
  <2>1. /\ Before(S, o, y) \in SUBSET S /\ Before(S, o, x) \in SUBSET Before(S, o, y)
        /\ x \in Before(S, o, y) /\ x \notin Before(S, o, x)
    BY <1>1, <1>5 DEF Before
  <2>2. QED
    BY <1>3, <2>1
<1>6. QED
  BY <1>2, <1>4, <1>5

(* Each place in the list is somebody's.                                   *)
LEMMA Places ==
  ASSUME NEW S \in SUBSET Row, IsFiniteSet(S), NEW o \in Orders,
         NEW i \in 1 .. Cardinality(S)
  PROVE  \E x \in S : Cardinality(Before(S, o, x)) = i - 1
<1>1. PICK n, rank : /\ n = Cardinality(S)
                     /\ rank = [x \in S |-> Cardinality(Before(S, o, x)) + 1]
  OBVIOUS
<1>2. n \in Nat
  BY <1>1, Ranks
<1>3. \A x \in S : Cardinality(Before(S, o, x)) \in 0 .. n - 1
  BY <1>1, Ranks
<1>4. rank \in [S -> 1 .. n]
  BY <1>1, <1>2, <1>3
<1>5. ASSUME NEW x \in S, NEW y \in S, rank[x] = rank[y] PROVE x = y
  <2>1. Cardinality(Before(S, o, x)) = Cardinality(Before(S, o, y))
    BY <1>1, <1>3, <1>5
  <2>2. ~(o[x] < o[y]) /\ ~(o[y] < o[x])
    BY <1>3, <2>1, Ranks
  <2>3. x \in Row /\ y \in Row /\ o[x] \in Nat /\ o[y] \in Nat
    BY OrderFacts
  <2>4. o[x] = o[y]
    BY <2>2, <2>3
  <2>5. QED
    BY <2>3, <2>4, OrderFacts
<1>6. rank \in Injection(S, 1 .. n)
  BY <1>4, <1>5, Fun_IsInj
<1>7. IsFiniteSet(1 .. n) /\ Cardinality(1 .. n) = n
  BY <1>2, FS_Interval
<1>8. rank \in Surjection(S, 1 .. n)
  BY <1>1, <1>6, <1>7, FS_Injection
<1>9. PICK x \in S : rank[x] = i
  BY <1>1, <1>8 DEF Surjection
<1>10. QED
  BY <1>1, <1>3, <1>9

(* The list is in order, and has everything.                               *)
LEMMA InOrderLists ==
  ASSUME NEW S \in SUBSET Row, IsFiniteSet(S), NEW o \in Orders
  PROVE  /\ InOrder(S, o) \in Seq(S)
         /\ \A i, j \in DOMAIN InOrder(S, o) : i < j => o[InOrder(S, o)[i]] < o[InOrder(S, o)[j]]
         /\ \A r \in S : \E i \in DOMAIN InOrder(S, o) : InOrder(S, o)[i] = r
<1>1. PICK n, sorted : n = Cardinality(S) /\ sorted = InOrder(S, o)
  OBVIOUS
<1>2. n \in Nat /\ o \in [Row -> Nat]
  BY <1>1, Ranks, OrderFacts
<1>3. /\ DOMAIN sorted = 1 .. n /\ sorted = [i \in 1 .. n |-> sorted[i]]
      /\ \A i \in 1 .. n : sorted[i] = CHOOSE x \in S : Cardinality(Before(S, o, x)) = i - 1
  <2>1. sorted = [i \in 1 .. n |-> CHOOSE x \in S : Cardinality(Before(S, o, x)) = i - 1]
    BY <1>1 DEF InOrder
  <2>2. QED
    BY <2>1
<1>4. ASSUME NEW i \in 1 .. n
      PROVE  sorted[i] \in S /\ Cardinality(Before(S, o, sorted[i])) = i - 1
  <2>1. \E x \in S : Cardinality(Before(S, o, x)) = i - 1
    BY <1>1, Places
  <2>2. QED
    BY <1>3, <2>1
<1>5. sorted \in [1 .. n -> S]
  BY <1>3, <1>4
<1>6. sorted \in Seq(S)
  BY <1>2, <1>5, SeqDef
<1>7. ASSUME NEW x \in S, NEW y \in S,
             Cardinality(Before(S, o, x)) <= Cardinality(Before(S, o, y))
      PROVE  o[x] <= o[y]
  <2>1. o[x] \in Nat /\ o[y] \in Nat
    BY <1>2
  <2>2. /\ Cardinality(Before(S, o, x)) \in 0 .. n - 1 /\ Cardinality(Before(S, o, y)) \in 0 .. n - 1
        /\ o[y] < o[x] => Cardinality(Before(S, o, y)) < Cardinality(Before(S, o, x))
    BY <1>1, Ranks
  <2>3. ~(o[y] < o[x])
    BY <1>2, <1>7, <2>2
  <2>4. QED
    BY <2>1, <2>3
<1>8. ASSUME NEW i \in 1 .. n, NEW j \in 1 .. n, i < j
      PROVE  o[sorted[i]] < o[sorted[j]]
  <2>1. PICK x, y : x = sorted[i] /\ y = sorted[j]
    OBVIOUS
  <2>2. /\ x \in S /\ y \in S
        /\ Cardinality(Before(S, o, x)) = i - 1 /\ Cardinality(Before(S, o, y)) = j - 1
    BY <1>4, <2>1
  <2>3. x # y /\ o[x] <= o[y] /\ o[x] \in Nat /\ o[y] \in Nat
    BY <1>2, <1>7, <1>8, <2>2
  <2>4. o[x] # o[y]
    BY <2>2, <2>3, OrderFacts
  <2>5. QED
    BY <2>1, <2>3, <2>4
<1>9. ASSUME NEW r \in S PROVE \E i \in 1 .. n : sorted[i] = r
  <2>1. Cardinality(Before(S, o, r)) \in 0 .. n - 1
    BY <1>1, Ranks
  <2>2. PICK i \in 1 .. n : i - 1 = Cardinality(Before(S, o, r))
    <3>1. PICK c : c = Cardinality(Before(S, o, r))
      OBVIOUS
    <3>2. c \in 0 .. n - 1
      BY <2>1, <3>1
    <3>3. \E i \in 1 .. n : i - 1 = c
      <4>1. c + 1 \in 1 .. n /\ (c + 1) - 1 = c
        BY <1>2, <3>2
      <4>2. QED
        BY <4>1
    <3>4. QED
      BY <3>1, <3>3
  <2>3. PICK x : x = sorted[i]
    OBVIOUS
  <2>4. x \in S /\ Cardinality(Before(S, o, x)) = Cardinality(Before(S, o, r))
    BY <1>4, <2>2, <2>3
  <2>5. o[x] <= o[r] /\ o[r] <= o[x] /\ o[x] \in Nat /\ o[r] \in Nat
    BY <1>2, <1>7, <2>1, <2>4
  <2>6. x = r
    BY <2>4, <2>5, OrderFacts
  <2>7. QED
    BY <2>3, <2>6
<1>10. QED
  BY <1>1, <1>3, <1>6, <1>8, <1>9

-----------------------------------------------------------------------------
(* A page of the list.                                                     *)

(* Its time is none of which nothing is promised.                          *)
Steady(x, r) == r.at \notin x.moot

(* Up to the cursor.                                                       *)
UpTo(x, r) == x.cursor # Nil /\ x.order[r] <= x.order[x.cursor]

Listed(x, r) == \E i \in DOMAIN x.rows : x.rows[i] = r

ListTyped(x) ==
  /\ x = [pc |-> x.pc, cursor |-> x.cursor, rows |-> x.rows, all |-> x.all,
          order |-> x.order, moot |-> x.moot]
  /\ x.pc \in {"page", "done", "refused"}
  /\ x.rows \in Seq(Row) /\ x.all \in SUBSET Row /\ x.cursor \in Row \cup {Nil}
  /\ x.order \in Orders /\ x.moot \in SUBSET Times

ListSorted(x) ==
  \A i, j \in DOMAIN x.rows : i < j =>
    /\ x.rows[i].at <= x.rows[j].at
    /\ x.rows[i] = x.rows[j] => ~Steady(x, x.rows[i])

ListReaches(x) ==
  /\ \A i \in DOMAIN x.rows :
       /\ x.cursor # Nil /\ x.rows[i].at <= x.cursor.at
       /\ Steady(x, x.rows[i]) => x.order[x.rows[i]] <= x.order[x.cursor]
  /\ \A r \in x.all : (UpTo(x, r) /\ Steady(x, r)) => Listed(x, r)

(* What a list that is in order, and complete up to its cursor, is.        *)
LEMMA ListParts ==
  ASSUME NEW x
  PROVE  ListUpTo(x) <=> /\ ListTyped(x) /\ ListSorted(x)
                         /\ x.pc = "page" => ListReaches(x)
                         /\ x.pc = "done" => \A r \in x.all : Steady(x, r) => Listed(x, r)
<1>1. ListUpTo(x) => ListTyped(x) /\ ListSorted(x)
  BY DEF ListUpTo, ListTyped, ListSorted, Steady
<1>2. ListUpTo(x) => (x.pc = "page" => ListReaches(x))
  BY DEF ListUpTo, ListReaches, Steady, UpTo, Listed
<1>3. ListUpTo(x) => (x.pc = "done" => \A r \in x.all : Steady(x, r) => Listed(x, r))
  BY DEF ListUpTo, Steady, Listed
<1>4. ASSUME ListTyped(x), ListSorted(x), x.pc = "page" => ListReaches(x),
             x.pc = "done" => \A r \in x.all : Steady(x, r) => Listed(x, r)
      PROVE  ListUpTo(x)
  BY <1>4 DEF ListUpTo, ListTyped, ListSorted, ListReaches, Steady, UpTo, Listed
<1>5. QED
  BY <1>1, <1>2, <1>3, <1>4

Reordered(x, o) ==
  [x EXCEPT !.order = o,
            !.moot = IF x.cursor = Nil \/ x.order = o THEN x.moot
                     ELSE x.moot \cup {x.cursor.at}]

(* Another order takes over: what shares the cursor's time is moot, and    *)
(* all other rows stay before it or behind it.                             *)
LEMMA OrderChanges ==
  ASSUME NEW x, ListUpTo(x), x.pc = "page", NEW o \in Orders,
         NEW y, y = Reordered(x, o)
  PROVE  ListUpTo(y) /\ y.pc = "page"
<1>1. PICK moot : /\ moot = IF x.cursor = Nil \/ x.order = o THEN x.moot
                           ELSE x.moot \cup {x.cursor.at}
                  /\ y = [x EXCEPT !.order = o, !.moot = moot]
  BY DEF Reordered
<1>2. ListTyped(x) /\ ListSorted(x) /\ ListReaches(x)
  BY ListParts
<1>3. y = [pc |-> x.pc, cursor |-> x.cursor, rows |-> x.rows, all |-> x.all,
           order |-> o, moot |-> moot]
  BY <1>1, <1>2 DEF ListTyped
<1>4. /\ y.pc = "page" /\ y.cursor = x.cursor /\ y.rows = x.rows /\ y.all = x.all
      /\ y.order = o /\ y.moot = moot
  BY <1>3
<1>5. x.cursor # Nil => x.cursor \in Row /\ x.cursor.at \in Times
  BY <1>2 DEF ListTyped, Row
<1>6. moot \in SUBSET Times /\ x.moot \subseteq moot
  BY <1>1, <1>2, <1>5 DEF ListTyped
<1>7. ListTyped(y)
  BY <1>2, <1>3, <1>4, <1>6 DEF ListTyped
<1>8. ListSorted(y)
  BY <1>2, <1>4, <1>6 DEF ListSorted, Steady
<1>9. /\ DOMAIN x.rows = 1 .. Len(x.rows)
      /\ \A i \in DOMAIN x.rows : x.rows[i] \in Row
  BY <1>2, LenProperties DEF ListTyped
<1>10. CASE x.cursor = Nil \/ x.order = o
  <2>1. moot = x.moot
    BY <1>1, <1>10
  <2>2. CASE x.order = o
    <3>1. y = x
      BY <1>2, <1>3, <2>1, <2>2 DEF ListTyped
    <3>2. QED
      BY <3>1
  <2>3. CASE x.cursor = Nil
    <3>1. ListReaches(y)
      BY <1>2, <1>4, <2>3 DEF ListReaches, UpTo
    <3>2. QED
      BY <1>4, <1>7, <1>8, <3>1, ListParts
  <2>4. QED
    BY <1>10, <2>2, <2>3
<1>11. CASE x.cursor # Nil /\ x.order # o
  <2>1. /\ moot = x.moot \cup {x.cursor.at} /\ x.cursor \in Row
        /\ x.order \in Orders
    BY <1>1, <1>2, <1>5, <1>11 DEF ListTyped
  <2>2. ASSUME NEW i \in DOMAIN x.rows
        PROVE  /\ x.rows[i].at <= x.cursor.at
               /\ Steady(y, x.rows[i]) => o[x.rows[i]] <= o[x.cursor]
    <3>1. x.rows[i].at <= x.cursor.at /\ x.rows[i] \in Row
      BY <1>2, <1>9 DEF ListReaches
    <3>2. /\ x.rows[i].at \in Nat /\ x.cursor.at \in Nat
          /\ o[x.rows[i]] \in Nat /\ o[x.cursor] \in Nat
      BY <2>1, <3>1, OrderFacts
    <3>3. ASSUME Steady(y, x.rows[i]) PROVE o[x.rows[i]] <= o[x.cursor]
      <4>1. x.rows[i].at # x.cursor.at
        BY <1>4, <2>1, <3>3 DEF Steady
      <4>2. x.rows[i].at < x.cursor.at
        BY <3>1, <3>2, <4>1
      <4>3. o[x.rows[i]] < o[x.cursor]
        BY <2>1, <3>1, <4>2, OrderFacts
      <4>4. QED
        BY <3>2, <4>3
    <3>4. QED
      BY <3>1, <3>3
  <2>3. ASSUME NEW r \in x.all, o[r] <= o[x.cursor], Steady(y, r)
        PROVE  Listed(x, r)
    <3>1. r \in Row /\ r.at # x.cursor.at /\ Steady(x, r)
      BY <1>2, <1>4, <2>1, <2>3 DEF ListTyped, Steady
    <3>2. r.at <= x.cursor.at /\ r.at \in Nat /\ x.cursor.at \in Nat
      BY <2>1, <2>3, <3>1, OrderFacts
    <3>3. r.at < x.cursor.at
      BY <3>1, <3>2
    <3>4. x.order[r] < x.order[x.cursor] /\ x.order[r] \in Nat /\ x.order[x.cursor] \in Nat
      BY <2>1, <3>1, <3>3, OrderFacts
    <3>5. x.order[r] <= x.order[x.cursor]
      BY <3>4
    <3>6. QED
      BY <1>2, <1>11, <3>1, <3>5 DEF ListReaches, UpTo
  <2>4. ListReaches(y)
    BY <1>4, <1>11, <2>2, <2>3 DEF ListReaches, UpTo, Listed
  <2>5. QED
    BY <1>4, <1>7, <1>8, <2>4, ListParts
<1>12. ListUpTo(y)
  <2>1. CASE x.cursor = Nil \/ x.order = o
    BY <1>10, <2>1
  <2>2. CASE x.cursor # Nil /\ x.order # o
    BY <1>11, <2>2
  <2>3. QED
    BY <2>1, <2>2
<1>13. QED
  BY <1>4, <1>12

(* A page, with no change of order, and the list that it leads to.         *)
IsPage(x, known, rest, more, rows) ==
  /\ rest = InOrder({r \in known : x.cursor # Nil => x.order[r] > x.order[x.cursor]}, x.order)
  /\ more <=> Len(rest) > PageLimit
  /\ rows = IF more THEN SubSeq(rest, 1, PageLimit) ELSE rest

Extended(x, known, more, rows) ==
  [pc |-> IF more THEN "page" ELSE "done",
   cursor |-> IF more THEN rows[PageLimit] ELSE x.cursor,
   rows |-> x.rows \o rows,
   all |-> x.all \cap known,
   order |-> x.order, moot |-> x.moot]

(* The page from the cursor on leaves nothing out.                         *)
LEMMA OnePage ==
  ASSUME NEW x, ListUpTo(x), x.pc = "page",
         NEW known \in SUBSET Row, IsFiniteSet(known),
         NEW rest, NEW more, NEW rows, IsPage(x, known, rest, more, rows)
  PROVE  ListUpTo(Extended(x, known, more, rows))
<1>1. PICK now : now = Extended(x, known, more, rows)
  OBVIOUS
<1>2. PICK o, S, old, n, k, all :
        /\ o = x.order /\ S = {r \in known : x.cursor # Nil => o[r] > o[x.cursor]}
        /\ old = x.rows /\ n = Len(old) /\ k = Len(rows) /\ all = old \o rows
  OBVIOUS
<1>3. /\ rest = InOrder(S, o) /\ (more <=> Len(rest) > PageLimit)
       /\ rows = IF more THEN SubSeq(rest, 1, PageLimit) ELSE rest
  BY <1>2 DEF IsPage
<1>4. ListTyped(x) /\ ListSorted(x) /\ ListReaches(x)
  BY ListParts
<1>5. /\ o \in Orders /\ S \in SUBSET Row /\ S \subseteq known /\ IsFiniteSet(S)
      /\ PageLimit \in Nat /\ PageLimit >= 1 /\ Nil \notin Row
  <2>1. o \in Orders
    BY <1>2, <1>4 DEF ListTyped
  <2>2. S \in SUBSET Row /\ S \subseteq known
    BY <1>2
  <2>3. IsFiniteSet(S)
    BY <2>2, FS_Subset
  <2>4. QED
    BY <2>1, <2>2, <2>3, UiAssumption
<1>6. /\ rest \in Seq(S)
      /\ \A i, j \in DOMAIN rest : i < j => o[rest[i]] < o[rest[j]]
      /\ \A r \in S : \E i \in DOMAIN rest : rest[i] = r
  BY <1>5, <1>3, InOrderLists
<1>7. Len(rest) \in Nat /\ DOMAIN rest = 1 .. Len(rest)
      /\ \A i \in 1 .. Len(rest) : rest[i] \in S
  BY <1>6, LenProperties
<1>8. /\ rows \in Seq(S) /\ k = IF more THEN PageLimit ELSE Len(rest)
      /\ \A i \in 1 .. k : rows[i] = rest[i]
  <2>1. CASE more
    <3>1. \A i \in 1 .. PageLimit : rest[i] \in S
      BY <1>5, <1>7, <1>3, <2>1
    <3>2. /\ SubSeq(rest, 1, PageLimit) \in Seq(S)
          /\ Len(SubSeq(rest, 1, PageLimit)) = IF 1 <= PageLimit THEN PageLimit - 1 + 1 ELSE 0
          /\ \A i \in 1 .. PageLimit - 1 + 1 : SubSeq(rest, 1, PageLimit)[i] = rest[1 + i - 1]
      BY <1>5, <3>1, SubSeqProperties
    <3>3. rows = SubSeq(rest, 1, PageLimit)
      BY <1>3, <2>1
    <3>4. k = PageLimit
      BY <1>2, <1>5, <3>2, <3>3
    <3>5. \A i \in 1 .. PageLimit : rows[i] = rest[i]
      <4>1. \A i \in 1 .. PageLimit : i \in 1 .. PageLimit - 1 + 1 /\ 1 + i - 1 = i
        BY <1>5
      <4>2. QED
        BY <3>2, <3>3, <4>1
    <3>6. QED
      BY <2>1, <3>2, <3>3, <3>4, <3>5
  <2>2. CASE ~more
    BY <1>2, <1>6, <1>3, <2>2
  <2>3. QED
    BY <2>1, <2>2
<1>9. k \in Nat /\ k <= Len(rest) /\ \A i \in 1 .. k : rows[i] \in S /\ i \in DOMAIN rest
  <2>1. k \in Nat /\ k <= Len(rest)
    <3>1. CASE more
      BY <1>5, <1>7, <1>8, <1>3, <3>1
    <3>2. CASE ~more
      BY <1>7, <1>8, <3>2
    <3>3. QED
      BY <3>1, <3>2
  <2>2. ASSUME NEW i \in 1 .. k PROVE rows[i] \in S /\ i \in DOMAIN rest
    <3>1. i \in 1 .. Len(rest)
      BY <1>7, <2>1
    <3>2. rows[i] = rest[i]
      BY <1>8
    <3>3. QED
      BY <1>7, <3>1, <3>2
  <2>3. QED
    BY <2>1, <2>2
<1>10. /\ old \in Seq(Row) /\ n \in Nat /\ DOMAIN old = 1 .. n
      /\ \A i \in 1 .. n : old[i] \in Row
      /\ x.cursor \in Row \cup {Nil} /\ x.all \in SUBSET Row /\ x.moot \in SUBSET Times
  <2>1. old \in Seq(Row)
    BY <1>2, <1>4 DEF ListTyped
  <2>2. n \in Nat /\ DOMAIN old = 1 .. n /\ \A i \in 1 .. n : old[i] \in Row
    BY <1>2, <2>1, LenProperties
  <2>3. QED
    BY <1>4, <2>1, <2>2 DEF ListTyped
<1>11. /\ all \in Seq(Row) /\ Len(all) = n + k
      /\ \A i \in 1 .. n + k : all[i] = IF i <= n THEN old[i] ELSE rows[i - n]
  <2>1. rows \in Seq(Row)
    BY <1>5, <1>8, SeqMonotonic
  <2>2. /\ old \o rows \in Seq(Row) /\ Len(old \o rows) = Len(old) + Len(rows)
        /\ \A i \in 1 .. Len(old) + Len(rows) :
             (old \o rows)[i] = IF i <= Len(old) THEN old[i] ELSE rows[i - Len(old)]
    BY <1>10, <2>1, ConcatProperties
  <2>3. QED
    BY <1>2, <2>2
<1>12. DOMAIN all = 1 .. n + k /\ \A i \in DOMAIN all : i \in Int /\ all[i] \in Row
  BY <1>9, <1>10, <1>11, LenProperties
<1>13. \A i \in 1 .. n : i \in 1 .. n + k /\ all[i] = old[i]
  BY <1>9, <1>10, <1>11
<1>14. ASSUME NEW i \in 1 .. n + k, ~(i <= n)
       PROVE  i - n \in 1 .. k /\ i - n \in DOMAIN rest /\ all[i] = rest[i - n] /\ all[i] \in S
  <2>1. i - n \in 1 .. k
    BY <1>9, <1>10, <1>14
  <2>2. rows[i - n] = rest[i - n] /\ i - n \in DOMAIN rest /\ rows[i - n] \in S
    BY <1>8, <1>9, <2>1
  <2>3. all[i] = rows[i - n]
    BY <1>11, <1>14
  <2>4. QED
    BY <2>1, <2>2, <2>3
<1>15. ASSUME NEW i \in 1 .. k PROVE i + n \in 1 .. n + k /\ all[i + n] = rest[i]
  <2>1. PICK j : j = i + n
    OBVIOUS
  <2>2. j \in 1 .. n + k /\ ~(j <= n) /\ j - n = i
    BY <1>9, <1>10, <2>1
  <2>3. all[j] = rest[j - n]
    BY <1>14, <2>2
  <2>4. QED
    BY <2>1, <2>2, <2>3
<1>16. ASSUME NEW i \in 1 .. n
       PROVE  /\ x.cursor \in Row /\ old[i].at <= x.cursor.at
              /\ Steady(x, old[i]) => o[old[i]] <= o[x.cursor]
  BY <1>2, <1>4, <1>10 DEF ListReaches
<1>17. ASSUME NEW i \in DOMAIN all, NEW j \in DOMAIN all, i < j
       PROVE  /\ all[i].at <= all[j].at
              /\ Steady(x, all[i]) => o[all[i]] < o[all[j]] \/ (i \in 1 .. n /\ j \in 1 .. n)
              /\ all[i] = all[j] => ~Steady(x, all[i])
  <2>1. CASE j <= n
    <3>1. i \in 1 .. n /\ j \in 1 .. n
      BY <1>9, <1>10, <1>12, <1>17, <2>1
    <3>2. /\ old[i].at <= old[j].at
          /\ old[i] = old[j] => ~Steady(x, old[i])
      BY <1>2, <1>4, <1>10, <1>17, <3>1 DEF ListSorted
    <3>3. QED
      BY <1>13, <3>1, <3>2
  <2>2. CASE i <= n /\ ~(j <= n)
    <3>1. i \in 1 .. n /\ all[i] = old[i] /\ old[i] \in Row
      BY <1>9, <1>10, <1>12, <1>13, <2>2
    <3>2. /\ x.cursor \in Row /\ old[i].at <= x.cursor.at
          /\ Steady(x, old[i]) => o[old[i]] <= o[x.cursor]
      BY <1>16, <3>1
    <3>3. all[j] \in S /\ all[j] \in Row
      BY <1>5, <1>12, <1>14, <2>2
    <3>4. o[all[j]] > o[x.cursor]
      BY <1>2, <1>5, <3>2, <3>3
    <3>5. /\ o[old[i]] \in Nat /\ o[x.cursor] \in Nat /\ o[all[j]] \in Nat
          /\ old[i].at \in Nat /\ x.cursor.at \in Nat /\ all[j].at \in Nat
      BY <1>5, <3>1, <3>2, <3>3, OrderFacts
    <3>6. x.cursor.at <= all[j].at
      <4>1. o[x.cursor] <= o[all[j]]
        BY <3>4, <3>5
      <4>2. QED
        BY <1>5, <3>2, <3>3, <4>1, OrderFacts
    <3>7. old[i].at <= all[j].at
      BY <3>2, <3>5, <3>6
    <3>8. Steady(x, old[i]) => o[old[i]] < o[all[j]]
      BY <3>2, <3>4, <3>5
    <3>9. old[i] = all[j] => ~Steady(x, old[i])
      BY <3>5, <3>8
    <3>10. QED
      BY <3>1, <3>7, <3>8, <3>9
  <2>3. CASE ~(i <= n) /\ ~(j <= n)
    <3>1. /\ i - n \in DOMAIN rest /\ all[i] = rest[i - n]
          /\ j - n \in DOMAIN rest /\ all[j] = rest[j - n]
      BY <1>12, <1>14, <2>3
    <3>2. i - n < j - n
      BY <1>9, <1>10, <1>12, <1>17
    <3>3. o[all[i]] < o[all[j]] /\ all[i] \in Row /\ all[j] \in Row
      BY <1>6, <1>12, <3>1, <3>2
    <3>4. /\ o[all[i]] \in Nat /\ o[all[j]] \in Nat
          /\ all[i].at \in Nat /\ all[j].at \in Nat
      BY <1>5, <3>3, OrderFacts
    <3>5. all[i].at <= all[j].at
      <4>1. o[all[i]] <= o[all[j]]
        BY <3>3, <3>4
      <4>2. QED
        BY <1>5, <3>3, <4>1, OrderFacts
    <3>6. all[i] # all[j]
      BY <3>3, <3>4
    <3>7. QED
      BY <3>3, <3>5, <3>6
  <2>4. QED
    BY <1>9, <1>10, <1>12, <1>17, <2>1, <2>2, <2>3
<1>18. ASSUME NEW r \in x.all \cap known, r \notin S, Steady(x, r)
       PROVE  \E i \in DOMAIN all : all[i] = r
  <2>1. r \in Row /\ x.cursor \in Row /\ ~(o[r] > o[x.cursor])
    <3>1. S = {q \in known : x.cursor # Nil => o[q] > o[x.cursor]}
      BY <1>2
    <3>2. r \in known /\ r \in Row /\ r \notin S
      BY <1>18
    <3>3. x.cursor # Nil /\ ~(o[r] > o[x.cursor])
      BY <3>1, <3>2
    <3>4. x.cursor \in Row
      <4>1. x.cursor \in Row \cup {Nil}
        BY <1>4 DEF ListTyped
      <4>2. QED
        BY <3>3, <4>1
    <3>5. QED
      BY <3>2, <3>3, <3>4
  <2>2. o[r] \in Nat /\ o[x.cursor] \in Nat
    BY <1>5, <2>1, OrderFacts
  <2>3. o[r] <= o[x.cursor] /\ x.cursor # Nil
    BY <1>5, <2>1, <2>2
  <2>4. Listed(x, r)
    BY <1>2, <1>4, <1>18, <2>3 DEF ListReaches, UpTo
  <2>5. PICK i \in 1 .. n : old[i] = r
    BY <1>2, <1>10, <2>4 DEF Listed
  <2>6. QED
    BY <1>12, <1>13, <2>5
<1>19. PICK left : left = x.all \cap known
  OBVIOUS
<1>20. CASE more
  <2>1. PICK c : c = rows[PageLimit]
    OBVIOUS
  <2>2. k = PageLimit /\ PageLimit \in 1 .. k /\ c = rest[PageLimit] /\ c \in S
    BY <1>5, <1>8, <1>9, <1>20, <2>1
  <2>3. c \in Row /\ c # Nil /\ o[c] \in Nat /\ c.at \in Nat
    BY <1>5, <2>2, OrderFacts
  <2>4. now = [pc |-> "page", cursor |-> c, rows |-> all, all |-> left,
               order |-> o, moot |-> x.moot]
    BY <1>1, <1>2, <1>19, <1>20, <2>1 DEF Extended
  <2>5. /\ now.pc = "page" /\ now.cursor = c /\ now.rows = all /\ now.all = left
        /\ now.order = o /\ now.moot = x.moot
    BY <2>4
  <2>6. ASSUME NEW i \in DOMAIN all
        PROVE  /\ all[i].at <= c.at
               /\ Steady(x, all[i]) => o[all[i]] <= o[c]
    <3>1. n + k \in DOMAIN all /\ i \in Int /\ i <= n + k /\ ~(n + k <= n)
      BY <1>5, <1>9, <1>10, <1>12, <2>2
    <3>2. all[n + k] = c
      BY <1>9, <1>10, <1>15, <2>2
    <3>3. CASE i = n + k
      BY <2>3, <3>2, <3>3
    <3>4. CASE i < n + k
      <4>1. n + k \notin 1 .. n
        BY <1>9, <1>10, <3>1
      <4>2. /\ all[i].at <= c.at
            /\ Steady(x, all[i]) => o[all[i]] < o[c]
        BY <1>17, <3>1, <3>2, <3>4, <4>1
      <4>3. o[all[i]] \in Nat
        BY <1>5, <1>12, OrderFacts
      <4>4. QED
        BY <2>3, <4>2, <4>3
    <3>5. i = n + k \/ i < n + k
      <4>1. n \in Nat /\ k \in Nat
        BY <1>9, <1>10
      <4>2. QED
        BY <3>1, <4>1
    <3>6. QED
      BY <3>3, <3>4, <3>5
  <2>7. ASSUME NEW r \in x.all \cap known, o[r] <= o[c], Steady(x, r)
        PROVE  \E i \in DOMAIN all : all[i] = r
    <3>1. CASE r \in S
      <4>1. PICK i \in DOMAIN rest : rest[i] = r
        BY <1>6, <3>1
      <4>2. i \in Int /\ i >= 1 /\ PageLimit \in DOMAIN rest
        BY <1>7, <1>9, <2>2, <4>1
      <4>3. ~(PageLimit < i)
        <5>1. SUFFICES ASSUME PageLimit < i PROVE FALSE
          OBVIOUS
        <5>2. o[c] < o[r]
          BY <1>6, <2>2, <4>1, <4>2, <5>1
        <5>3. o[r] \in Nat
          BY <1>5, <3>1, OrderFacts
        <5>4. QED
          BY <2>3, <2>7, <5>2, <5>3
      <4>4. i \in 1 .. k
        BY <1>5, <2>2, <4>2, <4>3
      <4>5. QED
        BY <1>12, <1>15, <4>1, <4>4
    <3>2. CASE r \notin S
      BY <1>18, <2>7, <3>2
    <3>3. QED
      BY <3>1, <3>2
  <2>8. ListTyped(now)
    <3>1. /\ now.rows \in Seq(Row) /\ now.all \in SUBSET Row /\ now.cursor \in Row \cup {Nil}
          /\ now.order \in Orders /\ now.moot \in SUBSET Times
      <4>1. /\ x.all \in SUBSET Row /\ x.cursor \in Row \cup {Nil} /\ x.moot \in SUBSET Times
        BY <1>4 DEF ListTyped
      <4>2. all \in Seq(Row) /\ o \in Orders
        BY <1>5, <1>11
      <4>3. left \in SUBSET Row
        BY <1>19, <4>1
      <4>4. QED
        BY <2>3, <2>5, <4>1, <4>2, <4>3
    <3>2. now = [pc |-> now.pc, cursor |-> now.cursor, rows |-> now.rows, all |-> now.all,
                 order |-> now.order, moot |-> now.moot]
      BY <2>4
    <3>3. QED
      BY <2>5, <3>1, <3>2 DEF ListTyped
  <2>9. ListSorted(now)
    BY <1>17, <2>5 DEF ListSorted, Steady
  <2>10. ListReaches(now)
    BY <1>19, <2>3, <2>5, <2>6, <2>7 DEF ListReaches, UpTo, Listed, Steady
  <2>11. QED
    BY <1>1, <2>5, <2>8, <2>9, <2>10, ListParts
<1>21. CASE ~more
  <2>1. /\ k = Len(rest)
        /\ now = [pc |-> "done", cursor |-> x.cursor, rows |-> all, all |-> left,
                  order |-> o, moot |-> x.moot]
    BY <1>1, <1>2, <1>8, <1>19, <1>21 DEF Extended
  <2>2. /\ now.pc = "done" /\ now.cursor = x.cursor /\ now.rows = all /\ now.all = left
        /\ now.order = o /\ now.moot = x.moot
    BY <2>1
  <2>3. ASSUME NEW r \in x.all \cap known, Steady(x, r)
        PROVE  \E i \in DOMAIN all : all[i] = r
    <3>1. CASE r \in S
      <4>1. PICK i \in 1 .. k : rest[i] = r
        BY <1>6, <1>7, <2>1, <3>1
      <4>2. QED
        BY <1>12, <1>15, <4>1
    <3>2. CASE r \notin S
      BY <1>18, <2>3, <3>2
    <3>3. QED
      BY <3>1, <3>2
  <2>4. ListTyped(now)
    <3>1. /\ now.rows \in Seq(Row) /\ now.all \in SUBSET Row /\ now.cursor \in Row \cup {Nil}
          /\ now.order \in Orders /\ now.moot \in SUBSET Times
      <4>1. /\ x.all \in SUBSET Row /\ x.cursor \in Row \cup {Nil} /\ x.moot \in SUBSET Times
        BY <1>4 DEF ListTyped
      <4>2. all \in Seq(Row) /\ o \in Orders
        BY <1>5, <1>11
      <4>3. left \in SUBSET Row
        BY <1>19, <4>1
      <4>4. QED
        BY <2>2, <4>1, <4>2, <4>3
    <3>2. now = [pc |-> now.pc, cursor |-> now.cursor, rows |-> now.rows, all |-> now.all,
                 order |-> now.order, moot |-> now.moot]
      BY <2>1
    <3>3. QED
      BY <2>2, <3>1, <3>2 DEF ListTyped
  <2>5. ListSorted(now)
    BY <1>17, <2>2 DEF ListSorted, Steady
  <2>6. \A r \in now.all : Steady(now, r) => Listed(now, r)
    BY <1>19, <2>2, <2>3 DEF Steady, Listed
  <2>7. QED
    BY <1>1, <2>2, <2>4, <2>5, <2>6, ListParts
<1>22. QED
  BY <1>20, <1>21

-----------------------------------------------------------------------------
(* The invariant.                                                          *)

LEMMA ListInv ==
  ASSUME UiIInv, StartList \/ ListPage \/ CursorNotFound
  PROVE  UiIInv'
<1>1. Typed /\ UNCHANGED <<journal, created, decided, server, file, page, flow>>
  BY UiParts DEF StartList, ListPage, CursorNotFound
<1>2. SourceRows \in SUBSET Row /\ IsFiniteSet(SourceRows) /\ Shown.order \in Orders
  BY <1>1, SourceRowsFinite
<1>3. LockIsHeld'
  BY <1>1 DEF UiIInv, LockIsHeld, Locks, ReleasesLast
<1>4. UiTypeOK'
  BY <1>1 DEF UiIInv, UiTypeOK, FlowOK, Fits
<1>5. SUFFICES ASSUME NEW now, now = list', ~ListUpTo(now) PROVE FALSE
  BY <1>3, <1>4 DEF UiIInv, ListUpTo
<1>6. CASE StartList
  <2>1. now = [pc |-> "page", cursor |-> Nil, rows |-> <<>>, all |-> SourceRows,
               order |-> Shown.order, moot |-> {}]
    BY <1>5, <1>6 DEF StartList
  <2>2. /\ now.pc = "page" /\ now.cursor = Nil /\ now.rows = <<>> /\ now.all = SourceRows
        /\ now.order = Shown.order /\ now.moot = {}
    BY <2>1
  <2>3. <<>> \in Seq(Row) /\ DOMAIN <<>> = {}
    BY EmptySeq
  <2>4. ListTyped(now)
    BY <1>2, <2>1, <2>2, <2>3 DEF ListTyped
  <2>5. ListSorted(now) /\ ListReaches(now)
    BY <2>2, <2>3 DEF ListSorted, ListReaches, UpTo
  <2>6. QED
    BY <1>5, <2>2, <2>4, <2>5, ListParts
<1>7. CASE ListPage
  <2>1. PICK x, o, known : x = list /\ o = Shown.order /\ known = SourceRows
    OBVIOUS
  <2>2. ListUpTo(x) /\ x.pc = "page" /\ known \in SUBSET Row /\ IsFiniteSet(known) /\ o \in Orders
    BY <1>2, <1>7, <2>1 DEF ListPage, Listing, UiIInv
  <2>3. PICK moot : moot = IF x.cursor = Nil \/ x.order = o THEN x.moot
                           ELSE x.moot \cup {x.cursor.at}
    OBVIOUS
  <2>4. PICK y : y = Reordered(x, o)
    OBVIOUS
  <2>5. ListUpTo(y) /\ y.pc = "page"
    BY <2>2, <2>4, OrderChanges
  <2>6. /\ y.cursor = x.cursor /\ y.rows = x.rows /\ y.all = x.all
        /\ y.order = o /\ y.moot = moot
    <3>1. x = [pc |-> x.pc, cursor |-> x.cursor, rows |-> x.rows, all |-> x.all,
               order |-> x.order, moot |-> x.moot]
      BY <2>2, ListParts DEF ListTyped
    <3>2. y = [pc |-> x.pc, cursor |-> x.cursor, rows |-> x.rows, all |-> x.all,
               order |-> o, moot |-> moot]
      BY <2>3, <2>4, <3>1 DEF Reordered
    <3>3. QED
      BY <3>2
  <2>7. PICK rest : rest = InOrder({r \in known : x.cursor # Nil => o[r] > o[x.cursor]}, o)
    OBVIOUS
  <2>8. PICK more : more = (Len(rest) > PageLimit)
    OBVIOUS
  <2>9. PICK rows : rows = IF more THEN SubSeq(rest, 1, PageLimit) ELSE rest
    OBVIOUS
  <2>10. IsPage(y, known, rest, more, rows)
    <3>1. rest = InOrder({r \in known : y.cursor # Nil => y.order[r] > y.order[y.cursor]}, y.order)
      BY <2>6, <2>7
    <3>2. more <=> Len(rest) > PageLimit
      BY <2>8
    <3>3. QED
      BY <2>9, <3>1, <3>2 DEF IsPage
  <2>11. ListUpTo(Extended(y, known, more, rows))
    BY <2>2, <2>5, <2>10, OnePage
  <2>12. list' = Extended(y, known, more, rows)
    <3>1. Page(rest)
      BY <1>7, <2>1, <2>7 DEF ListPage
    <3>2. Moot = moot
      BY <2>1, <2>3 DEF Moot
    <3>3. QED
      BY <2>1, <2>6, <2>8, <2>9, <3>1, <3>2 DEF Page, Extended
  <2>13. QED
    BY <1>5, <2>11, <2>12
<1>8. CASE CursorNotFound
  <2>1. PICK x : x = list
    OBVIOUS
  <2>2. ListUpTo(x)
    BY <1>8, <2>1 DEF CursorNotFound, Listing, UiIInv
  <2>3. ListTyped(x) /\ ListSorted(x)
    BY <2>2, ListParts
  <2>4. now = [pc |-> "refused", cursor |-> x.cursor, rows |-> x.rows, all |-> x.all,
               order |-> x.order, moot |-> x.moot]
    <3>1. now = [x EXCEPT !.pc = "refused"]
      BY <1>5, <1>8, <2>1 DEF CursorNotFound
    <3>2. QED
      BY <2>3, <3>1 DEF ListTyped
  <2>5. /\ now.pc = "refused" /\ now.cursor = x.cursor /\ now.rows = x.rows /\ now.all = x.all
        /\ now.order = x.order /\ now.moot = x.moot
    BY <2>4
  <2>6. ListTyped(now)
    BY <2>3, <2>4, <2>5 DEF ListTyped
  <2>7. ListSorted(now)
    BY <2>3, <2>5 DEF ListSorted, Steady
  <2>8. QED
    BY <1>5, <2>5, <2>6, <2>7, ListParts
<1>9. QED
  BY <1>6, <1>7, <1>8

LEMMA InitInv ==
  ASSUME UiInit PROVE UiIInv
<1>1. Nowhere \in [Runs -> StepCount]
  BY DEF Nowhere, StepCount, Absent, Resumed
<1>2. /\ journal \in [Runs -> StepCount] /\ created \in [Runs -> Times]
      /\ file \in File /\ decided \subseteq Runs
  BY UiAssumption DEF UiInit
<1>3. server \in ServerState
  <2>1. [steps |-> Nowhere, created |-> created, order |-> Order] \in File
    BY <1>1, <1>2, UiAssumption DEF File
  <2>2. QED
    BY <2>1 DEF UiInit, ServerState
<1>4. page \in PageState /\ page.busy = FALSE
  BY <1>1 DEF UiInit, PageState
<1>5. \A t \in Flows : flow[t] = Begun(Boot) \/ flow[t] = Idle
  BY DEF UiInit
<1>6. /\ Begun(Boot) = [todo |-> Boot, got |-> Nil] /\ Idle = [todo |-> <<>>, got |-> Nil]
      /\ Quiet(Boot) /\ Quiet(<<>>)
  BY RequestsAreQuiet DEF Begun, Idle
<1>7. \A t \in Flows : /\ flow[t] = [todo |-> flow[t].todo, got |-> Nil]
                       /\ Quiet(flow[t].todo)
  BY <1>5, <1>6
<1>8. DOMAIN flow = Flows /\ list = Nil
  BY DEF UiInit
<1>9. \A t \in Flows : FlowOK(flow[t])
  <2>1. SUFFICES ASSUME NEW t \in Flows PROVE FlowOK(flow[t])
    OBVIOUS
  <2>2. PICK f : f = flow[t]
    OBVIOUS
  <2>3. f = [todo |-> f.todo, got |-> Nil] /\ Quiet(f.todo)
    BY <1>7, <2>2
  <2>4. FlowOK(f)
    BY <2>3 DEF FlowOK, Quiet
  <2>5. QED
    BY <2>2, <2>4
<1>10. UiTypeOK
  BY <1>2, <1>3, <1>4, <1>8, <1>9 DEF UiTypeOK
<1>11. LockIsHeld
  BY <1>4, <1>7 DEF LockIsHeld, Quiet, Locks, ReleasesLast
<1>12. QED
  BY <1>8, <1>10, <1>11 DEF UiIInv

LEMMA NextInv ==
  ASSUME UiIInv, UiNext PROVE UiIInv'
<1>1. ASSUME NEW r \in Runs, Progress(r) PROVE UiIInv'
  BY <1>1, ProgressInv
<1>2. CASE UserStep
  BY <1>2, StartsInv, ClickSubmitInv, ListInv, ProgressInv DEF UserStep
<1>3. CASE Poll
  BY <1>3, StartsInv
<1>4. ASSUME NEW t \in Flows, ServerStep(t) PROVE UiIInv'
  BY <1>4, AnswerReadInv, TakeInputInv, ProvideInputInv, TakeImportInv DEF ServerStep
<1>5. ASSUME NEW t \in Flows, PageStep(t) PROVE UiIInv'
  BY <1>5, FirstAnswersInv, TreesCameInv, RunAnswersInv, WritesCameInv, InnerStepsInv,
     ReleaseInv DEF PageStep
<1>6. ASSUME NEW t \in Flows, Caught(t) \/ Thrown(t) PROVE UiIInv'
  BY <1>6, CaughtInv, ThrownInv
<1>7. CASE ListPage \/ CursorNotFound
  BY <1>7, ListInv
<1>8. QED
  BY <1>1, <1>2, <1>3, <1>4, <1>5, <1>6, <1>7 DEF UiNext, FlowStep

LEMMA StutterInv ==
  ASSUME UiIInv, UNCHANGED uiVars PROVE UiIInv'
<1>1. Typed' /\ UNCHANGED <<flow, list, page>>
  BY UiParts DEF uiVars, Typed
<1>2. QED
  BY <1>1, FlowsRest

(* Types; the form is locked (hitlSubmitBusy) while, and only while, one    *)
(* submission is under way that will release it (the finally of            *)
(* submitHitlInput); and a client that pages through GET /api/runs has, up *)
(* to its cursor, every row that was there all the time.                   *)
THEOREM UiInvariant == UiSpec => []UiIInv
<1>1. UiInit => UiIInv
  BY InitInv
<1>2. UiIInv /\ [UiNext]_uiVars => UiIInv'
  BY NextInv, StutterInv
<1>3. QED
  BY <1>1, <1>2, PTL DEF UiSpec

(* Whoever pages through the runs gets them by their times, each row once, *)
(* and misses none that stayed from the first page to the last             *)
(* (listRunMetaPage's and listMetasPage's cursor), whatever runs are added *)
(* between the pages and whatever rows are replaced by forks; nor when an  *)
(* upload takes the server over, but for rows of the cursor's time then.   *)
THEOREM ListsComplete == UiSpec => []ListsAreComplete
<1>1. UiIInv => ListsAreComplete
  BY DEF UiIInv, ListUpTo, ListsAreComplete
<1>2. QED
  BY <1>1, UiInvariant, PTL

=============================================================================
