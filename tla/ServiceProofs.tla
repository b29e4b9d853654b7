---------------------------- MODULE ServiceProofs ----------------------------
(***************************************************************************)
(* Model calls throw only when they have to, and a drained service has cut *)
(* off none that the engine waits for, for any number of calls, sessions   *)
(* and attempts, and whichever attempts the engine gives up.               *)
(***************************************************************************)
EXTENDS Service, SequenceTheorems, TLAPS

(* What is kept of a call.                                                 *)
GoodCall(k) ==
  k \in CallRecord /\ Len(k.tries) <= MaxAttempts /\ InOrder(k) /\ Earned(k)

LEMMA GoodCalls == ServiceIInv => \A c \in Calls : GoodCall(call[c])
  BY DEF ServiceIInv, ServiceTypeOK, GoodCall, FailuresAreEarned

LEMMA ServiceInitIInv == ServiceInit => ServiceIInv
<1> SUFFICES ASSUME ServiceInit PROVE ServiceIInv
  OBVIOUS
<1>1. PICK p \in Providers :
        proc = [phase |-> "starting", handlers |-> {}, provider |-> p,
                closing |-> FALSE, exit |-> Nil]
  BY DEF ServiceInit
<1>2. open = {} /\ givenUp = {} /\ call = [c \in Calls |-> NotBegun]
  BY DEF ServiceInit
<1>3. NotBegun.pc = "idle" /\ NotBegun.tries = <<>> /\ NotBegun.end = Nil
      /\ NotBegun \in CallRecord
  <2>1. <<>> \in Seq(Causes)
    OBVIOUS
  <2> QED BY <2>1 DEF NotBegun, CallRecord
<1>4. GoodCall(NotBegun)
  BY <1>3, ServiceAssumption, NilIsNoCause, SMT DEF GoodCall, InOrder, Earned
<1>5. \A c \in Calls : call[c] = NotBegun
  BY <1>2
<1>6. ServiceTypeOK
  <2>1. proc \in [phase : {"starting", "serving", "draining", "exited"},
                  handlers : SUBSET Signals, provider : Providers, closing : BOOLEAN,
                  exit : {"no port", "killed", "drained", "overdue", Nil}]
    BY <1>1
  <2> QED BY <2>1, <1>2, <1>4, <1>5 DEF ServiceTypeOK, GoodCall
<1>7. \A c \in Calls : ~InFlight(c) /\ call[c].end # "lost"
  BY <1>3, <1>5, NilIsNoCause DEF InFlight
<1> QED BY <1>1, <1>4, <1>5, <1>6, <1>7
    DEF ServiceIInv, FailuresAreEarned, CallsHoldSessions, Awaited, OnlyExitsLose,
        DrainingLosesNoAwaitedCall, GoodCall

-----------------------------------------------------------------------------
(* Calls.                                                                  *)

(* A call that goes on, in a process that lives, over an open session if   *)
(* the engine waits for it.                                                *)
LEMMA CallBecomes ==
  ASSUME ServiceIInv, NEW c \in Calls, NEW k, Becomes(c, k), Alive,
         c \notin givenUp => SessionOf[c] \in open, GoodCall(k), k.end # "lost"
  PROVE  ServiceIInv'
<1>1. /\ proc' = proc /\ open' = open /\ givenUp' = givenUp
      /\ call' = [call EXCEPT ![c] = k] /\ k \in CallRecord
  BY DEF Becomes, GoodCall
<1>2. call' \in [Calls -> CallRecord]
      /\ \A d \in Calls : call'[d] = IF d = c THEN k ELSE call[d]
  BY <1>1 DEF ServiceIInv, ServiceTypeOK
<1>3. \A d \in Calls : GoodCall(call[d])
  BY GoodCalls
<1>4. \A d \in Calls : GoodCall(call'[d])
  BY <1>2, <1>3
<1>5. ServiceTypeOK'
  BY <1>1, <1>2, <1>4 DEF ServiceIInv, ServiceTypeOK, GoodCall
<1>6. \A d \in Calls : InOrder(call'[d]) /\ Earned(call'[d])
  BY <1>4 DEF GoodCall
<1>7. CallsHoldSessions'
  BY <1>1, <1>2 DEF ServiceIInv, CallsHoldSessions, Awaited, InFlight
<1>8. proc.phase # "exited" /\ \A d \in Calls : call'[d].end # "lost"
  BY <1>2 DEF ServiceIInv, OnlyExitsLose, Alive
<1>9. OnlyExitsLose' /\ DrainingLosesNoAwaitedCall'
  BY <1>1, <1>8 DEF OnlyExitsLose, DrainingLosesNoAwaitedCall
<1> QED BY <1>5, <1>6, <1>7, <1>9 DEF ServiceIInv, FailuresAreEarned

(* One more attempt: what was tried before stays.                          *)
LEMMA Tried ==
  ASSUME NEW s \in Seq(Causes), NEW x \in Causes
  PROVE  /\ Append(s, x) \in Seq(Causes)
         /\ Len(Append(s, x)) = Len(s) + 1 /\ Len(s) \in Nat
         /\ Append(s, x) # <<>>
         /\ Append(s, x)[Len(s) + 1] = x
         /\ \A i \in 1 .. Len(s) : Append(s, x)[i] = s[i]
  BY AppendProperties, LenProperties

(* A call that may go on ends after one more attempt.                      *)
LEMMA EndedIsGood ==
  ASSUME NEW c \in Calls, GoodCall(call[c]),
         call[c].pc \in {"request", "text", "json", "backoff"},
         NEW x \in Causes, NEW how,
         \/ how = x /\ (x = "refused" \/ Len(call[c].tries) + 1 = MaxAttempts)
         \/ how \in {"real", "unreadable"}
  PROVE  GoodCall(Ended(c, Append(call[c].tries, x), how)) /\ how # "lost"
<1> DEFINE s == call[c].tries
           t == Append(s, x)
           k == Ended(c, t, how)
<1>1. /\ s \in Seq(Causes) /\ Len(s) < MaxAttempts
      /\ \A i \in 1 .. Len(s) : s[i] \notin {"ok", "refused"}
      /\ call[c] \in CallRecord
  BY DEF GoodCall, CallRecord, InOrder
<1>2. /\ t \in Seq(Causes) /\ Len(t) = Len(s) + 1 /\ Len(s) \in Nat
      /\ t # <<>> /\ t[Len(s) + 1] = x /\ \A i \in 1 .. Len(s) : t[i] = s[i]
  BY <1>1, Tried
<1> HIDE DEF s, t
<1>3. how \in Causes \cup {"real", "unreadable"}
  OBVIOUS
<1>4. k.pc = "ended" /\ k.tries = t /\ k.end = how /\ k \in CallRecord
  BY <1>1, <1>2, <1>3 DEF Ended, CallRecord
<1> HIDE DEF k
<1>5. Len(k.tries) <= MaxAttempts
  BY <1>1, <1>2, <1>4, ServiceAssumption, SMT
<1>6. InOrder(k)
  BY <1>4 DEF InOrder
<1>7. \A i \in 1 .. Len(k.tries) - 1 : k.tries[i] \notin {"ok", "refused"}
  BY <1>1, <1>2, <1>4, SMT
<1>8. how \in Causes => how = t[Len(t)] /\ (how = "refused" \/ Len(t) = MaxAttempts)
  BY <1>2, SMT DEF Causes, Statuses, s
<1>9. Earned(k)
  BY <1>4, <1>7, <1>8 DEF Earned
<1>10. how # "lost"
  BY <1>3 DEF Causes, Statuses
<1> QED BY <1>4, <1>5, <1>6, <1>9, <1>10 DEF GoodCall, k, t, s

(* ... or waits for the next one.                                          *)
LEMMA BackoffIsGood ==
  ASSUME NEW c \in Calls, GoodCall(call[c]),
         call[c].pc \in {"request", "text"}, NEW x \in Causes \ {"ok", "refused"},
         Len(call[c].tries) + 1 # MaxAttempts
  PROVE  LET k == [call[c] EXCEPT !.pc = "backoff", !.tries = Append(call[c].tries, x)]
         IN  GoodCall(k) /\ k.end # "lost"
<1> DEFINE s == call[c].tries
           t == Append(s, x)
           k == [call[c] EXCEPT !.pc = "backoff", !.tries = t]
<1>1. /\ s \in Seq(Causes) /\ Len(s) < MaxAttempts
      /\ \A i \in 1 .. Len(s) : s[i] \notin {"ok", "refused"}
      /\ call[c] \in CallRecord /\ call[c].end = Nil
  BY DEF GoodCall, CallRecord, InOrder
<1>2. /\ t \in Seq(Causes) /\ Len(t) = Len(s) + 1 /\ Len(s) \in Nat
      /\ t[Len(s) + 1] = x /\ \A i \in 1 .. Len(s) : t[i] = s[i]
  BY <1>1, Tried
<1>l. Len(s) + 1 # MaxAttempts
  OBVIOUS
<1> HIDE DEF s, t
<1>3. k.pc = "backoff" /\ k.tries = t /\ k.end = Nil /\ k \in CallRecord
  BY <1>1, <1>2 DEF CallRecord
<1> HIDE DEF k
<1>4. Len(t) < MaxAttempts
  BY <1>1, <1>2, <1>l, ServiceAssumption, SMT
<1>5. \A i \in 1 .. Len(t) : t[i] \notin {"ok", "refused"}
  BY <1>1, <1>2, SMT
<1>6. InOrder(k)
  BY <1>3, <1>4, <1>5 DEF InOrder
<1>7. Earned(k)
  BY <1>2, <1>3, <1>5, NilIsNoCause, SMT DEF Earned
<1>8. Len(t) <= MaxAttempts
  BY <1>2, <1>4, ServiceAssumption, SMT
<1> QED BY <1>3, <1>6, <1>7, <1>8, NilIsNoCause DEF GoodCall, k, t, s

(* A call moves on without a new attempt.                                  *)
LEMMA MovedIsGood ==
  ASSUME NEW c \in Calls, GoodCall(call[c]),
         call[c].pc \in {"request", "backoff"}, NEW status \in Statuses \cup {Nil},
         NEW pc \in {"request", "json", "text"},
         pc = "text" => \/ status = "refused"
                        \/ status = "retryable" /\ Len(call[c].tries) + 1 = MaxAttempts
  PROVE  LET k == [call[c] EXCEPT !.pc = pc, !.status = status]
         IN  GoodCall(k) /\ k.end # "lost"
<1> DEFINE k == [call[c] EXCEPT !.pc = pc, !.status = status]
<1>1. /\ k.pc = pc /\ k.tries = call[c].tries /\ k.end = call[c].end
      /\ k.status = status /\ k \in CallRecord /\ call[c].end = Nil
  BY DEF GoodCall, CallRecord, InOrder
<1> HIDE DEF k
<1>2. InOrder(k)
  BY <1>1 DEF GoodCall, InOrder
<1>3. Earned(k)
  BY <1>1 DEF GoodCall, Earned
<1> QED BY <1>1, <1>2, <1>3, NilIsNoCause DEF GoodCall, k

LEMMA AttemptFailedStep ==
  ASSUME ServiceIInv, NEW c \in Calls, Alive, call[c].pc \in {"request", "text"},
         NEW x \in Causes \ {"ok", "refused"}, AttemptFailed(c, x)
  PROVE  ServiceIInv'
<1>1. GoodCall(call[c]) /\ (c \notin givenUp => SessionOf[c] \in open)
  BY GoodCalls DEF ServiceIInv, CallsHoldSessions, Awaited, InFlight
<1> DEFINE t == Append(call[c].tries, x)
<1>2. Len(t) = Len(call[c].tries) + 1
  BY <1>1, Tried DEF GoodCall, CallRecord
<1>3. CASE Len(t) = MaxAttempts
  <2>1. Becomes(c, Ended(c, t, x))
    BY <1>3 DEF AttemptFailed
  <2>2. GoodCall(Ended(c, t, x)) /\ x # "lost"
    BY <1>1, <1>2, <1>3, EndedIsGood
  <2>3. Ended(c, t, x).end = x
    BY <1>1 DEF Ended, GoodCall, CallRecord
  <2> QED BY <1>1, <2>1, <2>2, <2>3, CallBecomes
<1>4. CASE Len(t) # MaxAttempts
  <2> DEFINE k == [call[c] EXCEPT !.pc = "backoff", !.tries = t]
  <2>1. Becomes(c, k)
    BY <1>4 DEF AttemptFailed
  <2>2. GoodCall(k) /\ k.end # "lost"
    BY <1>1, <1>2, <1>4, BackoffIsGood
  <2> HIDE DEF k
  <2> QED BY <1>1, <2>1, <2>2, CallBecomes
<1> QED BY <1>3, <1>4


(* A call ends with the attempt that is under way, or moves on.            *)
LEMMA EndedStep ==
  ASSUME ServiceIInv, NEW c \in Calls, Alive, call[c].pc \in {"text", "json"},
         NEW x \in Causes, NEW how,
         (how = x /\ x = "refused") \/ how \in {"real", "unreadable"},
         Becomes(c, Ended(c, Append(call[c].tries, x), how))
  PROVE  ServiceIInv'
<1>1. GoodCall(call[c]) /\ (c \notin givenUp => SessionOf[c] \in open)
  BY GoodCalls DEF ServiceIInv, CallsHoldSessions, Awaited, InFlight
<1> DEFINE k == Ended(c, Append(call[c].tries, x), how)
<1>2. GoodCall(k) /\ how # "lost"
  BY <1>1, EndedIsGood
<1>3. k.end = how
  BY <1>1 DEF Ended, GoodCall, CallRecord
<1>4. Becomes(c, k)
  OBVIOUS
<1> HIDE DEF k
<1> QED BY <1>1, <1>2, <1>3, <1>4, CallBecomes

LEMMA MovedStep ==
  ASSUME ServiceIInv, NEW c \in Calls, Alive, call[c].pc \in {"request", "backoff"},
         NEW status \in Statuses \cup {Nil}, NEW pc \in {"request", "json", "text"},
         pc = "text" => \/ status = "refused"
                        \/ status = "retryable" /\ Len(call[c].tries) + 1 = MaxAttempts,
         Becomes(c, [call[c] EXCEPT !.pc = pc, !.status = status])
  PROVE  ServiceIInv'
<1>1. GoodCall(call[c]) /\ (c \notin givenUp => SessionOf[c] \in open)
  BY GoodCalls DEF ServiceIInv, CallsHoldSessions, Awaited, InFlight
<1> DEFINE k == [call[c] EXCEPT !.pc = pc, !.status = status]
<1>2. GoodCall(k) /\ k.end # "lost"
  BY <1>1, MovedIsGood
<1>3. Becomes(c, k)
  OBVIOUS
<1> HIDE DEF k
<1> QED BY <1>1, <1>2, <1>3, CallBecomes

LEMMA NothingTried ==
  /\ <<>> \in Seq(Causes) /\ Len(<<>>) <= MaxAttempts
  /\ \A i \in 1 .. Len(<<>>) - 1 : FALSE
<1>1. <<>> \in Seq(Causes) /\ Len(<<>>) = 0
  BY EmptySeq
<1>2. 0 <= MaxAttempts /\ \A i \in 1 .. 0 - 1 : FALSE
  BY ServiceAssumption, SMT
<1> QED BY <1>1, <1>2

(* Every step of a call.                                                   *)
LEMMA BeginCallStep ==
  ASSUME ServiceIInv, NEW c \in Calls, BeginCall(c)
  PROVE  ServiceIInv'
<1>1. /\ GoodCall(call[c]) /\ SessionOf[c] \in open /\ Alive
      /\ call[c].tries = <<>> /\ call[c].end = Nil /\ call[c] \in CallRecord
  BY GoodCalls DEF BeginCall, At, GoodCall, InOrder
<1>2. ASSUME NEW how \in {"unknown provider", "simulated", "network"},
             Becomes(c, Ended(c, <<>>, how))
      PROVE  ServiceIInv'
  <2> DEFINE k == Ended(c, <<>>, how)
  <2>1. <<>> \in Seq(Causes) /\ Len(<<>>) = 0
    BY EmptySeq
  <2>2. k.pc = "ended" /\ k.tries = <<>> /\ k.end = how /\ k \in CallRecord
    BY <1>1, <2>1 DEF Ended, CallRecord, Causes
  <2>3. Becomes(c, k)
    BY <1>2
  <2> HIDE DEF k
  <2>4. GoodCall(k)
    <3>1. InOrder(k)
      BY <2>2 DEF InOrder
    <3>2. Len(k.tries) <= MaxAttempts
      BY <2>2, NothingTried
    <3>3. Earned(k)
      BY <2>2, NothingTried, Zenon DEF Earned
    <3> QED BY <2>2, <3>1, <3>2, <3>3 DEF GoodCall
  <2> QED BY <1>1, <2>2, <2>3, <2>4, CallBecomes
<1>3. ASSUME MaxAttempts # 0, Becomes(c, [call[c] EXCEPT !.pc = "request"])
      PROVE  ServiceIInv'
  <2> DEFINE k == [call[c] EXCEPT !.pc = "request"]
  <2>1. Len(<<>>) = 0 /\ 0 < MaxAttempts
    BY <1>3, ServiceAssumption, SMT
  <2>2. k.pc = "request" /\ k.tries = <<>> /\ k.end = Nil /\ k \in CallRecord
    BY <1>1 DEF CallRecord
  <2>3. Becomes(c, k)
    BY <1>3
  <2> HIDE DEF k
  <2>4. InOrder(k) /\ Earned(k)
    BY <2>1, <2>2, SMT DEF InOrder, Earned
  <2>5. GoodCall(k)
    BY <2>1, <2>2, <2>4, ServiceAssumption, SMT DEF GoodCall
  <2> QED BY <1>1, <2>2, <2>3, <2>5, NilIsNoCause, CallBecomes
<1>4. CASE Becomes(c, Ended(c, <<>>, "unknown provider"))
  BY <1>2, <1>4
<1>5. CASE Becomes(c, Ended(c, <<>>, "simulated"))
  BY <1>2, <1>5
<1>6. CASE Becomes(c, Ended(c, <<>>, "network"))
  BY <1>2, <1>6
<1>7. CASE MaxAttempts # 0 /\ Becomes(c, [call[c] EXCEPT !.pc = "request"])
  BY <1>3, <1>7
<1> QED BY <1>4, <1>5, <1>6, <1>7 DEF BeginCall

LEMMA CallStepIInv ==
  ASSUME ServiceIInv, NEW c \in Calls, CallStep(c)
  PROVE  ServiceIInv'
<1>1. CASE BeginCall(c)
  BY <1>1, BeginCallStep
<1>2. ASSUME NEW s \in Statuses, HeadComes(c, s) PROVE ServiceIInv'
  <2>1. Alive /\ call[c].pc = "request"
    BY <1>2 DEF HeadComes, At
  <2>2. CASE s = "ok" /\ Becomes(c, [call[c] EXCEPT !.pc = "json", !.status = s])
    BY <2>1, <2>2, MovedStep
  <2>3. CASE /\ s # "ok" /\ (s = "retryable" => LastAttempt(c))
             /\ Becomes(c, [call[c] EXCEPT !.pc = "text", !.status = s])
    <3>1. \/ s = "refused"
          \/ s = "retryable" /\ Len(call[c].tries) + 1 = MaxAttempts
      BY <1>2, <2>3 DEF Statuses, LastAttempt
    <3> QED BY <2>1, <2>3, <3>1, MovedStep
  <2>4. CASE s = "retryable" /\ AttemptFailed(c, s)
    BY <2>1, <2>4, AttemptFailedStep DEF Causes, Statuses
  <2> QED BY <1>2, <2>2, <2>3, <2>4 DEF HeadComes
<1>3. CASE TextComes(c)
  <2>1. Alive /\ call[c].pc = "text"
    BY <1>3 DEF TextComes, At
  <2>2. CASE call[c].status = "refused"
    <3>1. Becomes(c, Ended(c, Append(call[c].tries, "refused"), "refused"))
      BY <1>3, <2>2 DEF TextComes
    <3> QED BY <2>1, <3>1, EndedStep DEF Causes, Statuses
  <2>3. CASE call[c].status # "refused"
    <3>1. call[c].status = "retryable"
      BY <2>1, <2>3 DEF ServiceIInv, InOrder
    <3>2. AttemptFailed(c, "retryable")
      BY <1>3, <3>1 DEF TextComes
    <3> QED BY <2>1, <3>2, AttemptFailedStep DEF Causes, Statuses
  <2> QED BY <2>2, <2>3
<1>4. CASE ConnectionBreaks(c)
  BY <1>4, AttemptFailedStep DEF ConnectionBreaks, At, Causes, Statuses
<1>5. CASE TimerFires(c)
  BY <1>5, AttemptFailedStep DEF TimerFires, At, Causes, Statuses
<1>6. CASE BackoffEnds(c)
  <2>1. Alive /\ call[c].pc = "backoff" /\ Becomes(c, [call[c] EXCEPT !.pc = "request"])
    BY <1>6 DEF BackoffEnds, At
  <2>2. call[c] \in CallRecord
    BY DEF ServiceIInv, ServiceTypeOK
  <2>3. call[c].status \in Statuses \cup {Nil}
        /\ [call[c] EXCEPT !.pc = "request"]
             = [call[c] EXCEPT !.pc = "request", !.status = call[c].status]
    BY <2>2 DEF CallRecord
  <2> QED BY <2>1, <2>3, MovedStep
<1>7. CASE BodyComes(c)
  BY <1>7, EndedStep DEF BodyComes, At, Causes, Statuses
<1>8. CASE BodyFails(c)
  BY <1>8, EndedStep DEF BodyFails, At, Causes, Statuses
<1> QED BY <1>1, <1>2, <1>3, <1>4, <1>5, <1>6, <1>7, <1>8 DEF CallStep

-----------------------------------------------------------------------------
(* The process.                                                            *)

(* The process changes, but does not end.                                  *)
LEMMA ProcStep ==
  ASSUME ServiceIInv, Alive, UNCHANGED <<open, givenUp, call>>,
         proc' \in [phase : {"starting", "serving", "draining"},
                   handlers : SUBSET Signals, provider : Providers, closing : BOOLEAN,
                   exit : {proc.exit}]
  PROVE  ServiceIInv'
<1>1. proc.exit \in {"no port", "killed", "drained", "overdue", Nil}
  BY DEF ServiceIInv, ServiceTypeOK
<1>2. ServiceTypeOK'
  BY <1>1 DEF ServiceIInv, ServiceTypeOK
<1>3. proc'.phase # "exited" /\ proc.phase # "exited" /\ proc'.exit = proc.exit
  BY DEF Alive
<1>4. CallsHoldSessions' /\ OnlyExitsLose' /\ DrainingLosesNoAwaitedCall'
  BY <1>3
  DEF ServiceIInv, CallsHoldSessions, Awaited, OnlyExitsLose,
      DrainingLosesNoAwaitedCall, InFlight
<1>5. (\A c \in Calls : InOrder(call[c])) /\ FailuresAreEarned
  BY DEF ServiceIInv
<1> QED BY <1>2, <1>4, <1>5 DEF ServiceIInv, FailuresAreEarned

(* Sessions come, and go when the engine waits for nothing on them; and it *)
(* may give an attempt up.                                                 *)
LEMMA SessionStep ==
  ASSUME ServiceIInv, UNCHANGED <<proc, call>>, open' \subseteq Sessions,
         givenUp \subseteq givenUp', givenUp' \subseteq Calls,
         \A c \in Calls : Awaited(c)' => SessionOf[c] \in open'
  PROVE  ServiceIInv'
<1>1. ServiceTypeOK'
  BY DEF ServiceIInv, ServiceTypeOK
<1>2. CallsHoldSessions' /\ OnlyExitsLose' /\ DrainingLosesNoAwaitedCall'
  BY DEF ServiceIInv, CallsHoldSessions, OnlyExitsLose, DrainingLosesNoAwaitedCall, InFlight
<1> QED BY <1>1, <1>2 DEF ServiceIInv, FailuresAreEarned

(* The process ends, and with it the calls that are under way; when it was *)
(* drained the engine waits for none of them.                              *)
LEMMA ExitStep ==
  ASSUME ServiceIInv, Alive, NEW how \in {"no port", "killed", "drained", "overdue"},
         Exit(how), how = "drained" => open = {}
  PROVE  ServiceIInv'
<1>1. /\ proc' = [proc EXCEPT !.phase = "exited", !.exit = how] /\ open' = {}
      /\ call' = [c \in Calls |-> IF InFlight(c) THEN Ended(c, call[c].tries, "lost")
                                  ELSE call[c]]
      /\ givenUp' = givenUp
  BY DEF Exit
<1>2. /\ proc' \in [phase : {"starting", "serving", "draining", "exited"},
                    handlers : SUBSET Signals, provider : Providers, closing : BOOLEAN,
                    exit : {"no port", "killed", "drained", "overdue", Nil}]
      /\ proc'.phase = "exited" /\ proc'.exit = how
  BY <1>1 DEF ServiceIInv, ServiceTypeOK
<1>3. ASSUME NEW c \in Calls
      PROVE  /\ GoodCall(call'[c]) /\ call'[c].pc \in {"idle", "ended"}
             /\ call'[c].end = "lost" => InFlight(c)
  <2>1. GoodCall(call[c]) /\ call[c].end # "lost"
    BY GoodCalls DEF ServiceIInv, OnlyExitsLose, Alive
  <2>2. CASE InFlight(c)
    <3> DEFINE k == Ended(c, call[c].tries, "lost")
    <3>1. call'[c] = k
      BY <1>1, <2>2
    <3>2. k.pc = "ended" /\ k.tries = call[c].tries /\ k.end = "lost" /\ k \in CallRecord
      BY <2>1 DEF GoodCall, CallRecord, Ended
    <3> HIDE DEF k
    <3>3. InOrder(k)
      BY <3>2 DEF InOrder
    <3>4. Earned(k)
      BY <2>1, <3>2 DEF GoodCall, Earned, Causes, Statuses
    <3> QED BY <2>1, <2>2, <3>1, <3>2, <3>3, <3>4 DEF GoodCall
  <2>3. CASE ~InFlight(c)
    BY <1>1, <2>1, <2>3 DEF InFlight
  <2> QED BY <2>2, <2>3
<1>4. call' \in [Calls -> CallRecord]
  BY <1>1, <1>3 DEF GoodCall
<1>g. givenUp' \subseteq Calls
  BY <1>1 DEF ServiceIInv, ServiceTypeOK
<1>5. ServiceTypeOK'
  BY <1>1, <1>2, <1>3, <1>4, <1>g DEF ServiceTypeOK, GoodCall
<1>6. CallsHoldSessions' /\ OnlyExitsLose'
  BY <1>2, <1>3 DEF CallsHoldSessions, Awaited, OnlyExitsLose, InFlight
<1>7. DrainingLosesNoAwaitedCall'
  BY <1>1, <1>2, <1>3 DEF DrainingLosesNoAwaitedCall, ServiceIInv, CallsHoldSessions, Awaited
<1> QED BY <1>3, <1>5, <1>6, <1>7 DEF ServiceIInv, FailuresAreEarned, GoodCall

LEMMA ServiceStepIInv == ServiceIInv /\ [ServiceNext]_serviceVars => ServiceIInv'
<1> SUFFICES ASSUME ServiceIInv, [ServiceNext]_serviceVars PROVE ServiceIInv'
  OBVIOUS
<1>t. proc \in [phase : {"starting", "serving", "draining", "exited"},
               handlers : SUBSET Signals, provider : Providers, closing : BOOLEAN,
               exit : {"no port", "killed", "drained", "overdue", Nil}]
      /\ open \subseteq Sessions /\ givenUp \subseteq Calls
  BY DEF ServiceIInv, ServiceTypeOK
<1>1. ASSUME NEW c \in Calls, CallStep(c) PROVE ServiceIInv'
  BY <1>1, CallStepIInv
<1>2. ASSUME NEW s \in Sessions, OpenSession(s) PROVE ServiceIInv'
  <2>1. UNCHANGED <<proc, givenUp, call>> /\ open' = open \cup {s}
    BY <1>2 DEF OpenSession
  <2>2. \A c \in Calls : Awaited(c)' => SessionOf[c] \in open'
    BY <2>1 DEF ServiceIInv, CallsHoldSessions, Awaited, InFlight
  <2> QED BY <1>t, <2>1, <2>2, SessionStep
<1>3. ASSUME NEW s \in Sessions, CloseSession(s) PROVE ServiceIInv'
  <2>1. /\ UNCHANGED <<proc, givenUp, call>> /\ open' = open \ {s}
        /\ \A c \in Calls : SessionOf[c] = s => ~Awaited(c)
    BY <1>3 DEF CloseSession
  <2>2. \A c \in Calls : Awaited(c)' => SessionOf[c] \in open'
    BY <2>1 DEF ServiceIInv, CallsHoldSessions, Awaited, InFlight
  <2> QED BY <1>t, <2>1, <2>2, SessionStep
<1>g. ASSUME NEW c \in Calls, GiveUpAttempt(c) PROVE ServiceIInv'
  <2>1. UNCHANGED <<proc, open, call>> /\ givenUp' = givenUp \cup {c}
    BY <1>g DEF GiveUpAttempt
  <2>2. \A d \in Calls : Awaited(d)' => SessionOf[d] \in open'
    BY <2>1 DEF ServiceIInv, CallsHoldSessions, Awaited, InFlight
  <2> QED BY <1>t, <2>1, <2>2, SessionStep
<1>4. ASSUME NEW sig \in Signals, Signal(sig) PROVE ServiceIInv'
  <2>1. CASE Exit("killed")
    BY <1>4, <2>1, ExitStep DEF Signal
  <2>2. CASE /\ proc' = [proc EXCEPT !.handlers = @ \ {sig}, !.phase = "draining"]
             /\ UNCHANGED <<open, givenUp, call>>
    BY <1>4, <1>t, <2>2, ProcStep DEF Signal
  <2> QED BY <1>4, <2>1, <2>2 DEF Signal
<1>5. CASE Serve
  <2>1. Alive
    BY <1>5 DEF Serve, Alive
  <2>2. CASE Exit("no port")
    BY <2>1, <2>2, ExitStep
  <2>3. CASE /\ proc' = [proc EXCEPT !.phase = "serving", !.handlers = Signals]
             /\ UNCHANGED <<open, givenUp, call>>
    BY <1>t, <2>1, <2>3, ProcStep
  <2> QED BY <1>5, <2>2, <2>3 DEF Serve
<1>6. CASE RunHook
  <2>1. /\ Alive /\ proc.phase = "draining" /\ UNCHANGED <<open, givenUp, call>>
        /\ proc' = [proc EXCEPT !.closing = TRUE]
    BY <1>6 DEF RunHook, Alive
  <2> QED BY <1>t, <2>1, ProcStep
<1>7. CASE Drained
  BY <1>7, ExitStep DEF Drained, Alive
<1>8. CASE Deadline
  BY <1>8, ExitStep DEF Deadline, Alive
<1>9. CASE UNCHANGED serviceVars
  <2>1. UNCHANGED <<proc, open, givenUp, call>>
    BY <1>9 DEF serviceVars
  <2>2. \A c \in Calls : Awaited(c)' => SessionOf[c] \in open'
    BY <2>1 DEF ServiceIInv, CallsHoldSessions, Awaited, InFlight
  <2> QED BY <1>t, <2>1, <2>2, SessionStep
<1> QED BY <1>1, <1>2, <1>3, <1>g, <1>4, <1>5, <1>6, <1>7, <1>8, <1>9 DEF ServiceNext

-----------------------------------------------------------------------------

(* The inductive invariant of model calls and of the shutdown              *)
(* (provider-http.ts 46-87, lifecycle.ts 32-48), whatever the number of    *)
(* calls, sessions and attempts.                                           *)
THEOREM ServiceInvariant == ServiceSpec => []ServiceIInv
  BY ServiceInitIInv, ServiceStepIInv, PTL DEF ServiceSpec

(* Types; no call makes more attempts than it is allowed.                  *)
THEOREM ServiceTypes == ServiceSpec => []ServiceTypeOK
<1>1. ServiceIInv => ServiceTypeOK
  BY DEF ServiceIInv
<1> QED BY <1>1, ServiceInvariant, PTL

(* A call fails only after its last attempt, or after a refusal, with that *)
(* attempt's cause (provider-http.ts 67-87).                               *)
THEOREM FailuresEarned == ServiceSpec => []FailuresAreEarned
<1>1. ServiceIInv => FailuresAreEarned
  BY DEF ServiceIInv
<1> QED BY <1>1, ServiceInvariant, PTL

(* A shutdown that ends because the sessions were closed cut off no call   *)
(* the engine still waited for (lifecycle.ts 38-47 and 62-66), whichever   *)
(* attempts it had given up and whichever connections were lost.           *)
THEOREM DrainedLosesNoAwaitedCall == ServiceSpec => []DrainingLosesNoAwaitedCall
<1>1. ServiceIInv => DrainingLosesNoAwaitedCall
  BY DEF ServiceIInv
<1> QED BY <1>1, ServiceInvariant, PTL

=============================================================================
