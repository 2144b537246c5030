------------------------- MODULE StageLease_proofs -------------------------
(***************************************************************************)
(* Proofs about the leases: the one a worker was granted is honored until  *)
(* it expires, and an analysis succeeds only over results; and, if no work *)
(* outlasts its lease, work is exclusive, retries come in order and what   *)
(* has been settled stands.                                                *)
(***************************************************************************)
EXTENDS StageExecute_proofs

USE DEF tables, env

-----------------------------------------------------------------------------
(* The inductive invariant.                                                *)

\* No worker has captured a time to come.
MomentsPast == \A w \in Worker : pc[w] \in PreparePc => local[w].moment <= clock

\* A token on a row, or in a worker's hands, was issued; no two workers hold one.
RowTokens(table, last) ==
  \A s \in StageName : \A i \in 1..Len(table[s]) : table[s][i].token <= last

TokensIssued ==
  /\ RowTokens(runs, issued)
  /\ \A w \in Worker : pc[w] \in HoldPc => local[w].token \in 1..issued

TokensApart ==
  \A w, v \in Worker :
    pc[w] \in HoldPc /\ pc[v] \in HoldPc /\ local[w].token = local[v].token => w = v

\* The row a worker leased: under its token it is as the worker left it, and only a
\* cancel takes the token from it before the expiry.
LeaseOK(label, frame, row, now) ==
  /\ row.token = frame.token =>
       /\ row.state = IF label = "start" THEN "LEASED" ELSE "RUNNING"
       /\ row.expires = frame.expires
  /\ now <= frame.expires => row.token = frame.token \/ row.state = "CANCELED"

LeasesOK ==
  \A w \in Worker : pc[w] \in HoldPc => LeaseOK(pc[w], local[w], LeasedBy(w), clock)

LeaseInv == MomentsPast /\ TokensIssued /\ TokensApart /\ LeasesOK

LEMMA LeaseInvHonors == LeaseInv => LeaseHonored
  BY DEF LeaseInv, LeasesOK, LeaseOK, LeaseHonored

LEMMA HoldLabels ==
  /\ HoldPc = {"start", "work", "settle", "heartbeat", "complete", "fail"}
  /\ PreparePc = {"claimed", "check", "look", "acquire"}
  /\ HoldPc \subseteq BusyPc
  BY DEF HoldPc, PreparePc, BusyPc

\* What a holder knows of itself.
LEMMA HolderFacts ==
  ASSUME TypeInv, LeaseInv, NEW v \in Worker, pc[v] \in HoldPc
  PROVE  /\ local[v].stage \in StageName
         /\ local[v].attempt \in 1..Len(runs[local[v].stage])
         /\ LeasedBy(v) = runs[local[v].stage][local[v].attempt]
         /\ LeasedBy(v) \in StageRunRow
         /\ local[v] \in Frame
         /\ local[v].token \in 1..issued
         /\ LeaseOK(pc[v], local[v], LeasedBy(v), clock)
  BY HoldLabels, LeaseExists DEF LeaseInv, TokensIssued, LeasesOK

-----------------------------------------------------------------------------
(* Where the steps that leave the rows alone take their worker.            *)

\* The work of a stage goes on under the lease.
LEMMA WorkMoves ==
  ASSUME TypeInv, NEW w \in Worker,
         \/ WriteOutput(w) \/ WorkDone(w) \/ WorkFails(w)
         \/ Decide(w) \/ Unreadable(w) \/ Settle(w)
  PROVE  /\ pc[w] \in HoldPc \ {"start"}
         /\ UNCHANGED << runs, issued, clock >>
         /\ \E label \in HoldPc \ {"start"}, frame \in Frame :
              /\ Step(w, label, frame)
              /\ frame.stage = local[w].stage /\ frame.attempt = local[w].attempt
              /\ frame.token = local[w].token /\ frame.expires = local[w].expires
  <1> DEFINE Same(frame) ==
               /\ frame \in Frame
               /\ frame.stage = local[w].stage /\ frame.attempt = local[w].attempt
               /\ frame.token = local[w].token /\ frame.expires = local[w].expires
  <1>1. pc[w] \in HoldPc \ {"start"} /\ UNCHANGED << runs, issued, clock >>
    BY HoldLabels DEF WriteOutput, WorkDone, WorkFails, Decide, Unreadable, Settle
  <1>2. local[w] \in Frame
    BY DEF TypeInv, TypeOK
  <1>3. {"work", "heartbeat", "fail", "settle"} \subseteq HoldPc \ {"start"}
    BY HoldLabels
  <1>4. ASSUME WriteOutput(w) PROVE \E f : Step(w, "work", f) /\ Same(f)
    <2> DEFINE n == local[w].written + 1
               f == [local[w] EXCEPT !.written = n]
    <2>1. n \in Nat /\ Step(w, "work", f)
      BY <1>2, <1>4 DEF WriteOutput, Frame
    <2>2. Same(f)
      BY <1>2, <2>1 DEF Frame
    <2> QED
      BY <2>1, <2>2
  <1>5. ASSUME WorkDone(w) PROVE \E f : Step(w, "heartbeat", f) /\ Same(f)
    <2> DEFINE f == [local[w] EXCEPT !.written = 0]
    <2>1. Step(w, "heartbeat", f)
      BY <1>5 DEF WorkDone
    <2>2. Same(f)
      BY <1>2 DEF Frame
    <2> QED
      BY <2>1, <2>2
  <1>6. ASSUME WorkFails(w) PROVE \E f : Step(w, "fail", f) /\ Same(f)
    <2> PICK e \in {"retryable", "terminal"} :
          Step(w, "fail", [local[w] EXCEPT !.error = e, !.written = 0])
      BY <1>6 DEF WorkFails
    <2>1. Same([local[w] EXCEPT !.error = e, !.written = 0])
      BY <1>2 DEF Frame
    <2> QED
      BY <2>1
  <1>7. ASSUME Decide(w) \/ Unreadable(w) PROVE \E f : Step(w, "settle", f) /\ Same(f)
    <2> PICK v \in {"FAILED", "SUCCEEDED", "PARTIAL"} :
          Step(w, "settle", [local[w] EXCEPT !.verdict = v])
      BY <1>7 DEF Decide, Unreadable, Outcomes
    <2>1. Same([local[w] EXCEPT !.verdict = v])
      BY <1>2 DEF Frame
    <2> QED
      BY <2>1
  <1>8. ASSUME Settle(w) PROVE \E f : Step(w, "heartbeat", f) /\ Same(f)
    <2>1. Step(w, "heartbeat", local[w]) /\ Same(local[w])
      BY <1>2, <1>8 DEF Settle, Goto
    <2> QED
      BY <2>1
  <1>9. \E label \in HoldPc \ {"start"} : \E f : Step(w, label, f) /\ Same(f)
    BY <1>3, <1>4, <1>5, <1>6, <1>7, <1>8
  <1> QED
    BY <1>1, <1>9

\* A worker captures the time, or goes on with the time it captured.
LEMMA PrepareMoves ==
  ASSUME TypeInv, NEW w \in Worker,
         \/ ClaimQueued(w) \/ Proceed(w) \/ Check(w) \/ Look(w)
         \/ \E s \in Stages : Call(w, s)
  PROVE  /\ UNCHANGED << runs, issued, clock >>
         /\ \E label \in Pc \ BusyPc, frame \in Frame :
              /\ Step(w, label, frame)
              /\ label \in PreparePc =>
                   \/ frame.moment = clock
                   \/ pc[w] \in PreparePc /\ frame.moment = local[w].moment
  <1>1. UNCHANGED << runs, issued, clock >>
    BY DEF ClaimQueued, Proceed, Check, Look, Call
  <1>2. local[w] \in Frame /\ NoFrame \in Frame /\ clock \in Nat
    BY NoFrameType DEF TypeInv, TypeOK
  <1>3. /\ {"claimed", "check", "look", "acquire", "hc_list", "done"} \subseteq Pc \ BusyPc
        /\ {"hc_list", "done"} \cap PreparePc = {}
    BY Labels, HoldLabels
  <1> DEFINE Moves(label, frame) ==
               /\ label \in Pc \ BusyPc /\ frame \in Frame /\ Step(w, label, frame)
               /\ label \in PreparePc =>
                    \/ frame.moment = clock
                    \/ pc[w] \in PreparePc /\ frame.moment = local[w].moment
  <1>4. ASSUME Honor(w) PROVE \E label, frame : Moves(label, frame)
    <2>1. Moves("hc_list", NoFrame)
      BY <1>2, <1>3, <1>4 DEF Honor
    <2> QED
      BY <2>1
  <1>5. ASSUME ClaimQueued(w) \/ Proceed(w) PROVE \E label, frame : Moves(label, frame)
    <2> DEFINE f == [NoFrame EXCEPT !.moment = clock]
    <2>1. f \in Frame /\ f.moment = clock
      BY <1>2, NoFrameType DEF NoFrame
    <2>2. Honor(w) \/ Step(w, "claimed", f)
      BY <1>5 DEF ClaimQueued, Proceed
    <2> HIDE DEF f
    <2>3. CASE Step(w, "claimed", f)
      <3>1. Moves("claimed", f)
        BY <1>3, <2>1, <2>3
      <3> QED
        BY <3>1
    <2> QED
      BY <1>4, <2>2, <2>3
  <1>6. ASSUME Check(w) PROVE \E label, frame : Moves(label, frame)
    <2>1. pc[w] \in PreparePc /\ (Honor(w) \/ Step(w, "look", local[w]))
      BY <1>6, HoldLabels DEF Check, Goto
    <2>2. CASE Step(w, "look", local[w])
      <3>1. Moves("look", local[w])
        BY <1>2, <1>3, <2>1, <2>2
      <3> QED
        BY <3>1
    <2> QED
      BY <1>4, <2>1, <2>2
  <1>7. ASSUME Look(w) PROVE \E label, frame : Moves(label, frame)
    <2> DEFINE f == [NoFrame EXCEPT !.outcome = "SKIPPED"]
    <2>1. f \in Frame
      BY NoFrameType DEF Outcome
    <2>2. pc[w] \in PreparePc /\ (Step(w, "done", f) \/ Step(w, "acquire", local[w]))
      BY <1>7, HoldLabels DEF Look, Goto, Finish
    <2> HIDE DEF f
    <2>3. Moves("done", f) \/ Moves("acquire", local[w])
      BY <1>2, <1>3, <2>1, <2>2
    <2> QED
      BY <2>3
  <1>8. ASSUME NEW s \in Stages, Call(w, s) PROVE \E label, frame : Moves(label, frame)
    <2> DEFINE t == IF pc[w] = "claimed" THEN local[w].moment ELSE clock
               f == [NoFrame EXCEPT !.stage = s, !.moment = t]
    <2>1. s \in StageName /\ t \in Nat
      BY <1>2, StagesAssumption DEF Frame
    <2>2. t = clock \/ (pc[w] \in PreparePc /\ t = local[w].moment)
      BY HoldLabels
    <2>3. f \in Frame /\ f.moment = t
      BY <2>1, NoFrameType DEF NoFrame
    <2>4. Step(w, "check", f)
      BY <1>8 DEF Call
    <2> HIDE DEF f, t
    <2>5. Moves("check", f)
      BY <1>3, <2>2, <2>3, <2>4
    <2> QED
      BY <2>5
  <1>9. \E label, frame : Moves(label, frame)
    BY <1>5, <1>6, <1>7, <1>8
  <1> QED
    BY <1>1, <1>9

\* A worker that has no lease, or leaves it behind.
LEMMA LeftMoves ==
  ASSUME TypeInv, NEW w \in Worker,
         \/ CallHonor(w) \/ FailAnalysis(w) \/ Return(w) \/ AcquireNone(w) \/ Refuse(w)
         \/ WorkCanceled(w) \/ FailJob(w) \/ HonorList(w) \/ HonorFinish(w)
         \/ Crash(w) \/ Raise(w)
  PROVE  /\ UNCHANGED << runs, issued, clock >>
         /\ \E label \in Pc \ (BusyPc \cup PreparePc), frame \in Frame : Step(w, label, frame)
  <1>1. UNCHANGED << runs, issued, clock >>
    BY DEF CallHonor, FailAnalysis, Return, AcquireNone, Refuse, WorkCanceled, FailJob,
           HonorList, HonorFinish, Crash, Raise
  <1> DEFINE Free == Pc \ (BusyPc \cup PreparePc)
  <1>2. {"idle", "refused", "fail_job", "done", "hc_list", "hc_cancel"} \subseteq Free
    BY Labels, HoldLabels
  <1>3. NoFrame \in Frame /\ \A o \in Outcome : [NoFrame EXCEPT !.outcome = o] \in Frame
    BY NoFrameType
  <1>4. \E label \in Free : \E frame \in Frame : Step(w, label, frame)
    <2>1. CASE HonorList(w)
      <3> DEFINE l == UNION {{<< s, i >> : i \in {j \in 1..Len(runs[s]) : Cancelable(runs[s][j])}}
                               : s \in StageName}
      <3>1. l \in SUBSET (StageName \X Nat)
        BY LenNat
      <3>2. [NoFrame EXCEPT !.todo = l] \in Frame
        BY <3>1, NoFrameType
      <3> QED
        BY <1>2, <2>1, <3>2 DEF HonorList
    <2>2. CASE CallHonor(w) \/ WorkCanceled(w)
      BY <1>2, <1>3, <2>2 DEF CallHonor, WorkCanceled, Honor
    <2>3. CASE FailAnalysis(w) \/ Return(w) \/ Crash(w) \/ AcquireNone(w)
      BY <1>2, <1>3, <2>3 DEF FailAnalysis, Return, Crash, AcquireNone
    <2>4. CASE Refuse(w) \/ FailJob(w) \/ HonorFinish(w) \/ Raise(w)
      BY <1>2, <1>3, <2>4 DEF Refuse, FailJob, HonorFinish, Raise, Finish, Outcome
    <2> QED
      BY <2>1, <2>2, <2>3, <2>4
  <1> QED
    BY <1>1, <1>4

\* A retry is numbered.
LEMMA RetryMoves ==
  ASSUME TypeInv, NEW w \in Worker, RetryRead(w)
  PROVE  /\ pc[w] \in RetryPc
         /\ UNCHANGED << runs, issued, clock >>
         /\ \E frame \in Frame :
              /\ Step(w, "retry_insert", frame)
              /\ frame.stage = local[w].stage /\ frame.attempt = local[w].attempt
  <1> DEFINE f == [local[w] EXCEPT !.next = Len(runs[local[w].stage]) + 1]
  <1>1. local[w].stage \in StageName /\ local[w] \in Frame
    BY LeaseExists, Labels DEF RetryRead
  <1>2. Len(runs[local[w].stage]) + 1 \in Nat
    BY <1>1, LenNat
  <1>3. f \in Frame /\ f.stage = local[w].stage /\ f.attempt = local[w].attempt
    BY <1>1, <1>2 DEF Frame
  <1> QED
    BY <1>3 DEF RetryRead, RetryPc

-----------------------------------------------------------------------------
(* The shape of a step of one worker.                                      *)

\* What a step of w has to show: of its own new frame, of the rows of the other
\* holders, and of the tokens.
LEMMA LeaseStep ==
  ASSUME TypeInv, LeaseInv, NEW w \in Worker, NEW label \in Pc, NEW frame \in Frame,
         Step(w, label, frame), clock' = clock, issued \in Nat, issued' \in Nat, issued' >= issued,
         RowTokens(runs', issued'),
         label \in PreparePc => frame.moment <= clock,
         label \in HoldPc =>
           /\ frame.token \in 1..issued'
           /\ LeaseOK(label, frame, runs'[frame.stage][frame.attempt], clock)
           /\ \A v \in Worker \ {w} : pc[v] \in HoldPc => local[v].token # frame.token,
         \A v \in Worker \ {w} :
           pc[v] \in HoldPc =>
             LeaseOK(pc[v], local[v], runs'[local[v].stage][local[v].attempt], clock)
  PROVE  LeaseInv'
  <1>1. /\ pc'[w] = label /\ local'[w] = frame
        /\ \A v \in Worker : v # w => pc'[v] = pc[v] /\ local'[v] = local[v]
    BY WorkerMoved DEF TypeInv, TypeOK
  <1>2. MomentsPast'
    BY <1>1 DEF MomentsPast, LeaseInv
  <1>3. TokensIssued'
    <2>1. \A v \in Worker : pc[v] \in HoldPc => local[v].token \in 1..issued'
      BY DEF LeaseInv, TokensIssued
    <2> QED
      BY <1>1, <2>1 DEF TokensIssued
  <1>4. TokensApart'
    BY <1>1 DEF TokensApart, LeaseInv
  <1>5. LeasesOK'
    BY <1>1 DEF LeasesOK, LeasedBy
  <1> QED
    BY <1>2, <1>3, <1>4, <1>5 DEF LeaseInv

\* The rows stand and the worker holds nothing afterwards.
LEMMA LeaseReleased ==
  ASSUME TypeInv, LeaseInv, NEW w \in Worker, NEW label \in Pc \ HoldPc, NEW frame \in Frame,
         Step(w, label, frame), label \in PreparePc => frame.moment <= clock,
         UNCHANGED << runs, issued, clock >>
  PROVE  LeaseInv'
  <1>1. \A v \in Worker \ {w} :
          pc[v] \in HoldPc =>
            LeaseOK(pc[v], local[v], runs'[local[v].stage][local[v].attempt], clock)
    BY HolderFacts
  <1>2. RowTokens(runs', issued') /\ issued \in Nat
    BY DEF LeaseInv, TokensIssued, TypeInv, TypeOK
  <1> QED
    BY <1>1, <1>2, LeaseStep

\* The rows stand and the worker goes on under the same lease.
LEMMA LeaseCarried ==
  ASSUME TypeInv, LeaseInv, NEW w \in Worker, NEW label \in HoldPc \ {"start"}, NEW frame \in Frame,
         pc[w] \in HoldPc \ {"start"}, Step(w, label, frame),
         frame.stage = local[w].stage, frame.attempt = local[w].attempt,
         frame.token = local[w].token, frame.expires = local[w].expires,
         UNCHANGED << runs, issued, clock >>
  PROVE  LeaseInv'
  <1>1. \A v \in Worker : pc[v] \in HoldPc =>
          LeaseOK(pc[v], local[v], runs'[local[v].stage][local[v].attempt], clock)
    BY HolderFacts
  <1>2. RowTokens(runs', issued') /\ issued \in Nat
    BY DEF LeaseInv, TokensIssued, TypeInv, TypeOK
  <1>3. LeaseOK(label, frame, runs'[frame.stage][frame.attempt], clock)
    BY <1>1 DEF LeaseOK
  <1>4. frame.token \in 1..issued'
    BY HolderFacts
  <1>5. \A v \in Worker \ {w} : pc[v] \in HoldPc => local[v].token # frame.token
    BY DEF LeaseInv, TokensApart
  <1>6. label \in Pc /\ label \notin PreparePc
    BY HoldLabels, Labels
  <1> QED
    BY <1>1, <1>2, <1>3, <1>4, <1>5, <1>6, LeaseStep

\* A row is rewritten: what is asked of it for the holders that leased it.
LEMMA HoldersKept ==
  ASSUME TypeInv, LeaseInv, NEW s \in StageName, NEW i \in 1..Len(runs[s]),
         NEW row \in StageRunRow, runs' = WithRow(s, i, row), NEW v \in Worker, pc[v] \in HoldPc,
         row.token # local[v].token,
         local[v].stage = s /\ local[v].attempt = i /\ clock <= local[v].expires =>
           row.state = "CANCELED"
  PROVE  LeaseOK(pc[v], local[v], runs'[local[v].stage][local[v].attempt], clock)
  <1>1. /\ runs'[s][i] = row
        /\ \A t \in StageName : \A j \in 1..Len(runs[t]) :
             t # s \/ j # i => runs'[t][j] = runs[t][j]
    BY RowWritten DEF TypeInv, TypeOK
  <1>2. CASE local[v].stage = s /\ local[v].attempt = i
    BY <1>1, <1>2 DEF LeaseOK
  <1>3. CASE ~(local[v].stage = s /\ local[v].attempt = i)
    BY <1>1, <1>3, HolderFacts
  <1> QED
    BY <1>2, <1>3

\* The tokens on the rows after a row is rewritten.
LEMMA TokensAfterWrite ==
  ASSUME TypeInv, LeaseInv, NEW s \in StageName, NEW i \in 1..Len(runs[s]),
         NEW row \in StageRunRow, runs' = WithRow(s, i, row), issued \in Nat, issued' \in Nat,
         issued' >= issued, row.token <= issued'
  PROVE  RowTokens(runs', issued')
  <1>1. /\ \A t \in StageName : Len(runs'[t]) = Len(runs[t])
        /\ runs'[s][i] = row
        /\ \A t \in StageName : \A j \in 1..Len(runs[t]) :
             t # s \/ j # i => runs'[t][j] = runs[t][j]
    BY SMTT(30), RowWritten DEF TypeInv, TypeOK
  <1> SUFFICES ASSUME NEW t \in StageName, NEW j \in 1..Len(runs[t])
               PROVE  runs'[t][j].token <= issued'
    BY SMTT(30), <1>1 DEF RowTokens
  <1>2. runs[t][j] \in StageRunRow /\ runs[t][j].token <= issued
    BY LenNat, ElementOfSeq DEF LeaseInv, TokensIssued, RowTokens
  <1> QED
    BY SMTT(30), <1>1, <1>2 DEF StageRunRow

-----------------------------------------------------------------------------
(* The steps that rewrite rows.                                            *)

\* A holder rewrites the row that still carries its token: no other holder's
\* lease can be standing on it.
LEMMA LeaseOwnRow ==
  ASSUME TypeInv, LeaseInv, NEW w \in Worker, pc[w] \in HoldPc,
         LeasedBy(w).token = local[w].token, LeasedBy(w).state \in {"LEASED", "RUNNING"},
         NEW row \in StageRunRow, row.token \in {local[w].token, NoToken},
         runs' = WithRow(local[w].stage, local[w].attempt, row),
         NEW label \in Pc \ PreparePc, NEW frame \in Frame, Step(w, label, frame),
         label \in HoldPc =>
           /\ frame.stage = local[w].stage /\ frame.attempt = local[w].attempt
           /\ frame.token = local[w].token
           /\ LeaseOK(label, frame, row, clock),
         UNCHANGED << issued, clock >>
  PROVE  LeaseInv'
  <1> DEFINE s == local[w].stage
             i == local[w].attempt
  <1>1. /\ s \in StageName /\ i \in 1..Len(runs[s]) /\ LeasedBy(w) = runs[s][i]
        /\ local[w].token \in 1..issued /\ issued \in Nat
    BY HolderFacts DEF TypeInv, TypeOK
  <1>2. RowTokens(runs', issued')
    BY <1>1, TokensAfterWrite DEF NoToken
  <1>3. runs'[s][i] = row
    BY <1>1, RowWritten DEF TypeInv, TypeOK
  <1>4. ASSUME NEW v \in Worker \ {w}, pc[v] \in HoldPc
        PROVE  /\ local[v].token # local[w].token
               /\ LeaseOK(pc[v], local[v], runs'[local[v].stage][local[v].attempt], clock)
    <2>1. local[v].token # local[w].token
      BY <1>4 DEF LeaseInv, TokensApart
    <2>2. local[v].token \in 1..issued /\ LeaseOK(pc[v], local[v], LeasedBy(v), clock)
          /\ LeasedBy(v) = runs[local[v].stage][local[v].attempt]
      BY <1>4, HolderFacts
    <2>3. row.token # local[v].token
      BY <1>1, <2>1, <2>2 DEF NoToken
    <2>4. ~(local[v].stage = s /\ local[v].attempt = i /\ clock <= local[v].expires)
      BY <1>1, <2>1, <2>2 DEF LeaseOK
    <2>5. LeaseOK(pc[v], local[v], runs'[local[v].stage][local[v].attempt], clock)
      BY <1>1, <1>4, <2>3, <2>4, HoldersKept
    <2> QED
      BY <2>1, <2>5
  <1>5. label \in HoldPc =>
           /\ frame.token \in 1..issued'
           /\ LeaseOK(label, frame, runs'[frame.stage][frame.attempt], clock)
           /\ \A v \in Worker \ {w} : pc[v] \in HoldPc => local[v].token # frame.token
    BY <1>1, <1>3, <1>4
  <1> QED
    BY <1>1, <1>2, <1>4, <1>5, LeaseStep

LEMMA LeaseStart ==
  ASSUME TypeInv, LeaseInv, NEW w \in Worker, StartStage(w)
  PROVE  LeaseInv'
  <1>1. pc[w] \in HoldPc /\ UNCHANGED << issued, clock >> /\ pc[w] = "start"
    BY HoldLabels DEF StartStage
  <1>2. LeasedBy(w) \in StageRunRow /\ local[w] \in Frame /\ LeaseOK(pc[w], local[w], LeasedBy(w), clock)
    BY <1>1, HolderFacts
  <1>3. CASE HoldsRow(LeasedBy(w), local[w].token, "LEASED")
    <2> DEFINE row == [LeasedBy(w) EXCEPT !.state = "RUNNING"]
    <2>1. /\ runs' = WithRow(local[w].stage, local[w].attempt, row) /\ Step(w, "work", local[w])
          /\ LeasedBy(w).token = local[w].token /\ LeasedBy(w).state = "LEASED"
      BY <1>3 DEF StartStage, HoldsRow, Goto
    <2>2. /\ row \in StageRunRow /\ row.token = local[w].token
          /\ row.state = "RUNNING" /\ row.expires = LeasedBy(w).expires
      BY <1>2, <2>1, RowTypes DEF StageRunRow
    <2>3. LeaseOK("work", local[w], row, clock)
      BY <1>1, <1>2, <2>1, <2>2 DEF LeaseOK
    <2>4. "work" \in Pc \ PreparePc
      BY Labels, HoldLabels
    <2> HIDE DEF row
    <2> QED
      BY <1>1, <1>2, <2>1, <2>2, <2>3, <2>4, LeaseOwnRow
  <1>4. CASE ~HoldsRow(LeasedBy(w), local[w].token, "LEASED")
    <2>1. runs' = runs /\ Step(w, "done", [NoFrame EXCEPT !.outcome = "LEASE_LOST"])
      BY <1>4 DEF StartStage, Finish
    <2>2. [NoFrame EXCEPT !.outcome = "LEASE_LOST"] \in Frame /\ "done" \in Pc \ HoldPc
      BY NoFrameType, Labels, HoldLabels DEF Outcome
    <2> QED
      BY <1>1, <2>1, <2>2, LeaseReleased, HoldLabels
  <1> QED
    BY <1>3, <1>4

LEMMA LeaseHeartbeat ==
  ASSUME TypeInv, LeaseInv, NEW w \in Worker, Heartbeat(w)
  PROVE  LeaseInv'
  <1> DEFINE t == clock + TTL
  <1>1. pc[w] \in HoldPc \ {"start"} /\ UNCHANGED << issued, clock >>
        /\ "complete" \in (Pc \ PreparePc) /\ "complete" \in HoldPc \ {"start"}
    BY HoldLabels, Labels DEF Heartbeat
  <1>2. LeasedBy(w) \in StageRunRow /\ local[w] \in Frame /\ LeaseOK(pc[w], local[w], LeasedBy(w), clock)
    BY <1>1, HolderFacts
  <1>3. CASE MayExtend(LeasedBy(w), local[w].token)
    <2> DEFINE row == [LeasedBy(w) EXCEPT !.expires = t]
               f == [local[w] EXCEPT !.expires = t]
    <2>1. /\ runs' = WithRow(local[w].stage, local[w].attempt, row) /\ Step(w, "complete", f)
          /\ LeasedBy(w).token = local[w].token /\ LeasedBy(w).state \in {"LEASED", "RUNNING"}
      BY <1>3 DEF Heartbeat, MayExtend, ActiveState
    <2>2. t \in Nat
      BY BoundsAssumption DEF TypeInv, TypeOK
    <2>3. row \in StageRunRow /\ row.token = LeasedBy(w).token /\ row.state = LeasedBy(w).state
          /\ row.expires = t
      BY <1>2, <2>2, RowTypes DEF StageRunRow
    <2>4. f \in Frame /\ f.stage = local[w].stage /\ f.attempt = local[w].attempt
          /\ f.token = local[w].token /\ f.expires = t
      BY <1>2, <2>2 DEF Frame
    <2>5. LeasedBy(w).state = "RUNNING"
      BY <1>1, <1>2, <2>1 DEF LeaseOK
    <2>6. LeaseOK("complete", f, row, clock)
      BY <2>1, <2>3, <2>4, <2>5 DEF LeaseOK
    <2> HIDE DEF row, f
    <2> QED
      BY <1>1, <2>1, <2>3, <2>4, <2>6, LeaseOwnRow
  <1>4. CASE ~MayExtend(LeasedBy(w), local[w].token)
    <2>1. runs' = runs /\ Step(w, "complete", local[w])
      BY <1>4 DEF Heartbeat, Goto
    <2> QED
      BY <1>1, <1>2, <2>1, LeaseCarried
  <1> QED
    BY <1>3, <1>4

\* complete_stage and fail_stage give the token up.
LEMMA LeaseEnds ==
  ASSUME TypeInv, LeaseInv, NEW w \in Worker, Complete(w) \/ Fail(w)
  PROVE  LeaseInv'
  <1>1. pc[w] \in HoldPc /\ UNCHANGED << issued, clock >>
    BY HoldLabels DEF Complete, Fail
  <1>2. LeasedBy(w) \in StageRunRow /\ local[w] \in Frame
    BY <1>1, HolderFacts
  <1>3. \/ runs' = runs
        \/ \E e \in StageState :
             /\ runs' = WithRow(local[w].stage, local[w].attempt,
                                [LeasedBy(w) EXCEPT !.state = e, !.token = NoToken])
             /\ LeasedBy(w).token = local[w].token /\ LeasedBy(w).state = "RUNNING"
    BY DEF Complete, Fail, HoldsRow, StageState
  <1>4. PICK label \in Pc \ (HoldPc \cup PreparePc) : \E frame \in Frame : Step(w, label, frame)
    <2>1. "done" \in Pc \ (HoldPc \cup PreparePc) /\ "retry_read" \in Pc \ (HoldPc \cup PreparePc)
          /\ "fail_job" \in Pc \ (HoldPc \cup PreparePc)
      BY Labels, HoldLabels
    <2>2. NoFrame \in Frame /\ \A o \in Outcome : [NoFrame EXCEPT !.outcome = o] \in Frame
      BY NoFrameType
    <2>3. CASE Complete(w)
      <3>1. PICK o \in Outcome : Finish(w, o)
        BY <2>3 DEF Complete, Outcome
      <3> QED
        BY <2>1, <2>2, <3>1 DEF Finish
    <2>4. CASE Fail(w)
      <3>1. \/ Step(w, "retry_read", local[w]) \/ Step(w, "fail_job", NoFrame)
            \/ Finish(w, "ERROR")
        BY <2>4 DEF Fail, Goto
      <3> QED
        BY <1>2, <2>1, <2>2, <3>1 DEF Finish, Outcome
    <2> QED
      BY <2>3, <2>4
  <1> PICK frame \in Frame : Step(w, label, frame)
    BY <1>4
  <1>5. CASE runs' = runs
    BY <1>1, <1>5, LeaseReleased
  <1>6. CASE runs' # runs
    <2> PICK e \in StageState :
          /\ runs' = WithRow(local[w].stage, local[w].attempt,
                             [LeasedBy(w) EXCEPT !.state = e, !.token = NoToken])
          /\ LeasedBy(w).token = local[w].token /\ LeasedBy(w).state = "RUNNING"
      BY <1>3, <1>6
    <2> DEFINE row == [LeasedBy(w) EXCEPT !.state = e, !.token = NoToken]
    <2>1. row \in StageRunRow /\ row.token = NoToken
      BY <1>2, RowTypes DEF StageRunRow
    <2> HIDE DEF row
    <2> QED
      BY <1>1, <2>1, LeaseOwnRow DEF row
  <1> QED
    BY <1>5, <1>6

\* acquire_stage takes a row over only after its expiry: the lease that stood on it
\* has passed, and the new token is nobody's.
LEMMA LeaseAcquire ==
  ASSUME TypeInv, LeaseInv, NEW w \in Worker, Acquire(w)
  PROVE  LeaseInv'
  <1> DEFINE s == local[w].stage
             t == local[w].moment + TTL
             row == LeasedRow(issued + 1, t)
  <1>1. /\ s \in StageName /\ t \in Nat /\ issued \in Nat /\ local[w] \in Frame
        /\ local[w].moment \in Nat /\ clock \in Nat /\ local[w].moment <= clock
    <2>1. FrameRefersOK(pc[w], local[w], runs) /\ pc[w] = "acquire"
      BY DEF Acquire, TypeInv, FramesOK
    <2>2. local[w].moment <= clock
      BY <2>1, HoldLabels DEF LeaseInv, MomentsPast
    <2> QED
      BY SMTT(30), <2>1, <2>2, Labels, BoundsAssumption DEF FrameRefersOK, TypeInv, TypeOK, Frame
  <1>2. issued' = issued + 1 /\ clock' = clock
    BY SMTT(30) DEF Acquire
  <1>3. PICK i \in 1..Len(runs[s]) :
          /\ IsCandidate(runs[s], i, local[w].moment)
          /\ runs' = WithRow(s, i, row)
          /\ Step(w, "start", [local[w] EXCEPT !.attempt = i, !.token = issued + 1, !.expires = t])
    BY DEF Acquire
  <1> DEFINE f == [local[w] EXCEPT !.attempt = i, !.token = issued + 1, !.expires = t]
  <1>4. row \in StageRunRow /\ row.token = issued + 1 /\ row.state = "LEASED" /\ row.expires = t
    BY <1>1 DEF LeasedRow, StageRunRow, StageState
  <1>5. i \in Nat /\ runs[s][i] \in StageRunRow
    BY <1>1, LenNat, ElementOfSeq
  <1>6. f \in Frame /\ f.stage = s /\ f.attempt = i /\ f.token = issued + 1 /\ f.expires = t
    <2>1. issued + 1 \in Nat
      BY <1>1
    <2>2. f \in Frame
      BY <1>1, <1>5, <2>1 DEF Frame
    <2> QED
      BY <1>1, <2>2 DEF Frame
  <1> HIDE DEF row, f
  <1>7. runs'[s][i] = row
    BY <1>1, <1>3, <1>4, RowWritten DEF TypeInv, TypeOK
  <1>8. RowTokens(runs', issued')
    BY <1>1, <1>2, <1>3, <1>4, TokensAfterWrite
  <1>9. LeaseOK("start", f, runs'[f.stage][f.attempt], clock)
    BY <1>4, <1>6, <1>7 DEF LeaseOK
  <1>10. ASSUME NEW v \in Worker \ {w}, pc[v] \in HoldPc
         PROVE  /\ local[v].token # f.token
                /\ LeaseOK(pc[v], local[v], runs'[local[v].stage][local[v].attempt], clock)
    <2>1. /\ local[v].token \in 1..issued /\ LeaseOK(pc[v], local[v], LeasedBy(v), clock)
          /\ LeasedBy(v) = runs[local[v].stage][local[v].attempt] /\ local[v] \in Frame
      BY <1>10, HolderFacts
    <2>2. local[v].token # issued + 1
      BY <1>1, <2>1
    <2>3. ~(local[v].stage = s /\ local[v].attempt = i /\ clock <= local[v].expires)
      <3> SUFFICES ASSUME local[v].stage = s, local[v].attempt = i, clock <= local[v].expires
                   PROVE  FALSE
        OBVIOUS
      <3>1. runs[s][i].token = local[v].token \/ runs[s][i].state = "CANCELED"
        BY <2>1 DEF LeaseOK
      <3>2. Claimable(runs[s][i], local[w].moment)
        BY <1>3 DEF IsCandidate
      <3>3. runs[s][i].state \in {"LEASED", "RUNNING"} /\ runs[s][i].expires = local[v].expires
        BY <2>1, <3>1, <3>2 DEF LeaseOK, Claimable, ActiveState
      <3>4. runs[s][i].expires < local[w].moment
        BY <3>2, <3>3 DEF Claimable
      <3> QED
        BY SMTT(30), <1>1, <1>5, <3>3, <3>4 DEF StageRunRow
    <2>4. LeaseOK(pc[v], local[v], runs'[local[v].stage][local[v].attempt], clock)
      BY <1>1, <1>3, <1>4, <1>10, <2>2, <2>3, HoldersKept
    <2> QED
      BY <1>6, <2>2, <2>4
  <1>11. "start" \in Pc /\ "start" \notin PreparePc /\ Step(w, "start", f)
    BY <1>3, Labels, HoldLabels DEF f
  <1>12. f.token \in 1..issued' /\ issued' \in Nat /\ issued' >= issued
    BY <1>1, <1>2, <1>6
  <1> QED
    BY <1>1, <1>2, <1>6, <1>8, <1>9, <1>10, <1>11, <1>12, LeaseStep

\* A cancel closes the attempt; its holder finds a CANCELED row.
LEMMA LeaseCancel ==
  ASSUME TypeInv, LeaseInv, NEW w \in Worker, HonorCancel(w)
  PROVE  LeaseInv'
  <1>1. PICK p \in local[w].todo :
          /\ \/ runs' = runs
             \/ runs' = WithRow(p[1], p[2], CanceledRow(runs[p[1]][p[2]]))
          /\ Step(w, "hc_cancel", [local[w] EXCEPT !.todo = @ \ {p}])
    BY DEF HonorCancel
  <1> DEFINE f == [local[w] EXCEPT !.todo = @ \ {p}]
             row == CanceledRow(runs[p[1]][p[2]])
  <1>2. /\ p[1] \in StageName /\ p[2] \in 1..Len(runs[p[1]]) /\ local[w] \in Frame
        /\ UNCHANGED << issued, clock >> /\ issued \in Nat
    BY DEF HonorCancel, TypeInv, TypeOK, FramesOK, FrameRefersOK
  <1>3. f \in Frame
    BY <1>2 DEF Frame
  <1>4. "hc_cancel" \in Pc \ HoldPc /\ "hc_cancel" \notin PreparePc
    BY Labels, HoldLabels
  <1>5. CASE runs' = runs
    BY <1>1, <1>2, <1>3, <1>4, <1>5, LeaseReleased
  <1>6. CASE runs' = WithRow(p[1], p[2], row)
    <2>1. row \in StageRunRow /\ row.token = NoToken /\ row.state = "CANCELED"
      <3>1. runs[p[1]][p[2]] \in StageRunRow
        BY <1>2, LenNat, ElementOfSeq
      <3> QED
        BY <3>1, RowTypes DEF CanceledRow, StageRunRow
    <2> HIDE DEF row, f
    <2>2. RowTokens(runs', issued')
      BY <1>2, <1>6, <2>1, TokensAfterWrite DEF NoToken
    <2>3. ASSUME NEW v \in Worker \ {w}, pc[v] \in HoldPc
          PROVE  LeaseOK(pc[v], local[v], runs'[local[v].stage][local[v].attempt], clock)
      <3>1. row.token # local[v].token
        BY <1>2, <2>1, <2>3, HolderFacts DEF NoToken
      <3> QED
        BY <1>2, <1>6, <2>1, <2>3, <3>1, HoldersKept
    <2> QED
      BY <1>1, <1>2, <1>3, <1>4, <2>2, <2>3, LeaseStep DEF f
  <1> QED
    BY <1>1, <1>5, <1>6

\* A retry attempt is appended; every lease stands on an earlier one.
LEMMA LeaseRetry ==
  ASSUME TypeInv, LeaseInv, NEW w \in Worker, RetryInsert(w)
  PROVE  LeaseInv'
  <1> DEFINE s == local[w].stage
  <1>1. s \in StageName /\ UNCHANGED << issued, clock >> /\ issued \in Nat
    BY LeaseExists, Labels DEF RetryInsert, TypeInv, TypeOK
  <1>2. PICK o \in {"ERROR", "RAISED"} : Finish(w, o)
    BY DEF RetryInsert
  <1> DEFINE f == [NoFrame EXCEPT !.outcome = o]
  <1>3. f \in Frame /\ "done" \in Pc \ HoldPc /\ "done" \notin PreparePc /\ Step(w, "done", f)
    BY <1>2, NoFrameType, Labels, HoldLabels DEF Outcome, Finish
  <1> HIDE DEF f
  <1>4. CASE runs' = runs
    BY <1>1, <1>3, <1>4, LeaseReleased
  <1>5. CASE runs' = [runs EXCEPT ![s] = Append(@, PendingRow)]
    <2>1. /\ Len(runs'[s]) = Len(runs[s]) + 1
          /\ \A q \in StageName : q # s => runs'[q] = runs[q]
          /\ runs'[s][Len(runs[s]) + 1] = PendingRow
          /\ \A q \in StageName : \A j \in 1..Len(runs[q]) : runs'[q][j] = runs[q][j]
      BY <1>1, <1>5, RowAppended DEF TypeInv, TypeOK
    <2>2. RowTokens(runs', issued')
      <3> SUFFICES ASSUME NEW q \in StageName, NEW j \in 1..Len(runs'[q])
                   PROVE  runs'[q][j].token <= issued
        BY <1>1 DEF RowTokens
      <3>1. CASE j \in 1..Len(runs[q])
        BY <2>1, <3>1 DEF LeaseInv, TokensIssued, RowTokens
      <3>2. CASE j \notin 1..Len(runs[q])
        <4>1. q = s /\ j = Len(runs[s]) + 1
          BY <1>1, <2>1, <3>2, LenNat
        <4> QED
          BY <1>1, <2>1, <4>1 DEF PendingRow, NoToken
      <3> QED
        BY <3>1, <3>2
    <2>3. \A v \in Worker \ {w} :
            pc[v] \in HoldPc =>
              LeaseOK(pc[v], local[v], runs'[local[v].stage][local[v].attempt], clock)
      BY <2>1, HolderFacts
    <2> QED
      BY <1>1, <1>3, <2>2, <2>3, LeaseStep
  <1> QED
    BY <1>1, <1>4, <1>5 DEF RetryInsert

-----------------------------------------------------------------------------
(* The steps that leave the rows alone.                                    *)

LEMMA LeaseWork ==
  ASSUME TypeInv, LeaseInv, NEW w \in Worker,
         \/ WriteOutput(w) \/ WorkDone(w) \/ WorkFails(w)
         \/ Decide(w) \/ Unreadable(w) \/ Settle(w)
  PROVE  LeaseInv'
  BY WorkMoves, LeaseCarried

LEMMA LeasePrepare ==
  ASSUME TypeInv, LeaseInv, NEW w \in Worker,
         \/ ClaimQueued(w) \/ Proceed(w) \/ Check(w) \/ Look(w)
         \/ \E s \in Stages : Call(w, s)
  PROVE  LeaseInv'
  <1>1. PICK label \in Pc \ BusyPc, frame \in Frame :
          /\ Step(w, label, frame)
          /\ label \in PreparePc =>
               \/ frame.moment = clock
               \/ pc[w] \in PreparePc /\ frame.moment = local[w].moment
    BY PrepareMoves
  <1>2. label \in PreparePc => frame.moment <= clock
    BY <1>1 DEF LeaseInv, MomentsPast, TypeInv, TypeOK
  <1>3. label \in Pc \ HoldPc
    BY HoldLabels
  <1> QED
    BY <1>1, <1>2, <1>3, PrepareMoves, LeaseReleased

LEMMA LeaseLeft ==
  ASSUME TypeInv, LeaseInv, NEW w \in Worker,
         \/ CallHonor(w) \/ FailAnalysis(w) \/ Return(w) \/ AcquireNone(w) \/ Refuse(w)
         \/ WorkCanceled(w) \/ RetryRead(w) \/ FailJob(w) \/ HonorList(w) \/ HonorFinish(w)
         \/ Crash(w) \/ Raise(w)
  PROVE  LeaseInv'
  <1>1. UNCHANGED << runs, issued, clock >>
    BY LeftMoves, RetryMoves
  <1>2. PICK label \in Pc \ (HoldPc \cup PreparePc), frame \in Frame : Step(w, label, frame)
    BY LeftMoves, RetryMoves, Labels, HoldLabels
  <1> QED
    BY <1>1, <1>2, LeaseReleased

\* Claims and cancels of others, and time: the clock only leaves leases behind.
LEMMA LeaseEnvironment ==
  ASSUME TypeInv, LeaseInv, StartAnalysis \/ CancelRead \/ CancelWrite \/ Tick
  PROVE  LeaseInv'
  <1>1. UNCHANGED << runs, pc, local, issued >> /\ clock \in Nat /\ clock' \in Nat /\ clock' >= clock
    BY DEF StartAnalysis, CancelRead, CancelWrite, Tick, TypeInv, TypeOK
  <1>2. MomentsPast'
    <2> SUFFICES ASSUME NEW w \in Worker, pc[w] \in PreparePc PROVE local[w].moment <= clock'
      BY <1>1 DEF MomentsPast
    <2>1. local[w].moment \in Nat /\ local[w].moment <= clock
      BY DEF LeaseInv, MomentsPast, TypeInv, TypeOK, Frame
    <2> QED
      BY <1>1, <2>1
  <1>3. TokensIssued' /\ TokensApart'
    BY <1>1 DEF LeaseInv, TokensIssued, TokensApart
  <1>4. LeasesOK'
    <2> SUFFICES ASSUME NEW w \in Worker, pc[w] \in HoldPc
                 PROVE  LeaseOK(pc[w], local[w], LeasedBy(w), clock')
      BY <1>1 DEF LeasesOK, LeasedBy
    <2>1. LeaseOK(pc[w], local[w], LeasedBy(w), clock) /\ local[w].expires \in Nat
      BY HolderFacts DEF Frame
    <2> QED
      BY <1>1, <2>1 DEF LeaseOK
  <1> QED
    BY <1>2, <1>3, <1>4 DEF LeaseInv

-----------------------------------------------------------------------------
LEMMA LeaseInit == Init => LeaseInv
  <1> SUFFICES ASSUME Init PROVE LeaseInv
    OBVIOUS
  <1>1. \A w \in Worker : pc[w] \notin HoldPc /\ pc[w] \notin PreparePc
    BY HoldLabels DEF Init
  <1>2. RowTokens(runs, issued)
    BY DEF Init, RowTokens, PendingRow, NoToken
  <1> QED
    BY <1>1, <1>2 DEF LeaseInv, MomentsPast, TokensIssued, TokensApart, LeasesOK

LEMMA LeaseNext == TypeInv /\ LeaseInv /\ [Next]_vars => LeaseInv'
  <1> SUFFICES ASSUME TypeInv, LeaseInv, [Next]_vars PROVE LeaseInv'
    OBVIOUS
  <1>1. CASE UNCHANGED vars
    BY <1>1 DEF vars, LeaseInv, MomentsPast, TokensIssued, TokensApart, LeasesOK, LeasedBy
  <1>2. CASE StartAnalysis \/ CancelRead \/ CancelWrite \/ Tick
    BY <1>2, LeaseEnvironment
  <1>3. ASSUME NEW w \in Worker, WorkerStep(w) PROVE LeaseInv'
    BY <1>3, LeasePrepare, LeaseLeft, LeaseAcquire, LeaseStart, LeaseWork, LeaseHeartbeat,
       LeaseEnds, LeaseRetry, LeaseCancel DEF WorkerStep
  <1>4. ASSUME NEW w \in Worker, Fault(w) PROVE LeaseInv'
    BY <1>4, LeaseLeft, LeaseWork DEF Fault
  <1> QED
    BY <1>1, <1>2, <1>3, <1>4 DEF Next

\* The invariant on leases, tokens and captured times.
THEOREM LeaseInvariance == Spec => []LeaseInv
  BY LeaseInit, LeaseNext, TypeInvariance, PTL DEF Spec

\* Until the lease a worker was granted expires, its row carries the worker's token
\* in the state its next compare-and-set expects, or has been canceled: no other
\* worker takes it over or writes under it.
THEOREM LeaseHonoredInvariance == Spec => []LeaseHonored
  BY LeaseInvariance, LeaseInvHonors, PTL

-----------------------------------------------------------------------------
(* Results: the decision aggregate work took may be old when it is         *)
(* written, but nothing it was taken on can be undone in between.          *)

Good == {"SUCCEEDED", "PARTIAL"}

\* A report was written, and the required stages have succeeded.
HasResults ==
  /\ output["report"] # NoToken
  /\ \A s \in {"sampling", "report"} : Succeeded(s)

\* A worker has decided on a success and not yet written it.
Decided(w) == pc[w] = "settle" /\ local[w].verdict \in Good

ResultInv ==
  /\ analysis \in Good => HasResults
  /\ \A w \in Worker : Decided(w) => HasResults

LEMMA SucceededStands ==
  ASSUME TypeInv, [Next]_vars, NEW s \in StageName, Succeeded(s)
  PROVE  Succeeded(s)'
  <1>1. PICK i \in 1..Len(runs[s]) : runs[s][i].state = "SUCCEEDED"
    BY DEF Succeeded
  <1>2. stage_is_terminal(runs[s][i].state)
    BY <1>1, OpenStates DEF StageState
  <1>3. runs'[s][i] = runs[s][i] /\ Len(runs'[s]) >= Len(runs[s])
    BY <1>2, RowsAfter
  <1>4. Len(runs[s]) \in Nat /\ Len(runs'[s]) \in Nat
    BY TypeNext, LenNat DEF TypeInv, TypeOK
  <1> QED
    BY <1>1, <1>3, <1>4 DEF Succeeded

\* Artifacts are written by WriteOutput alone.
LEMMA OnlyWritesChangeOutput ==
  ASSUME [Next]_vars, \A w \in Worker : ~WriteOutput(w)
  PROVE  output' = output
  <1>1. ASSUME NEW w \in Worker, WorkerStep(w) PROVE output' = output
    <2>1. CASE \/ ClaimQueued(w) \/ CallHonor(w) \/ Proceed(w) \/ FailAnalysis(w) \/ Return(w)
               \/ \E s \in Stages : Call(w, s)
      BY ZenonT(40), <2>1 DEF ClaimQueued, CallHonor, Proceed, FailAnalysis, Return, Call
    <2>2. CASE \/ Check(w) \/ Look(w) \/ Acquire(w) \/ AcquireNone(w) \/ Refuse(w) \/ StartStage(w)
               \/ WorkDone(w) \/ WorkFails(w) \/ WorkCanceled(w) \/ Decide(w) \/ Settle(w)
      BY <2>2 DEF Check, Look, Acquire, AcquireNone, Refuse, StartStage, WorkDone, WorkFails,
                  WorkCanceled, Decide, Settle
    <2>3. CASE \/ Heartbeat(w) \/ Complete(w) \/ Fail(w) \/ RetryRead(w) \/ RetryInsert(w)
               \/ FailJob(w) \/ HonorList(w) \/ HonorCancel(w) \/ HonorFinish(w)
      BY <2>3 DEF Heartbeat, Complete, Fail, RetryRead, RetryInsert, FailJob, HonorList,
                  HonorCancel, HonorFinish
    <2> QED
      BY <1>1, <2>1, <2>2, <2>3 DEF WorkerStep
  <1>2. ASSUME NEW w \in Worker, Fault(w) PROVE output' = output
    BY <1>2 DEF Fault, Crash, Raise, Unreadable
  <1>3. StartAnalysis \/ CancelRead \/ CancelWrite \/ Tick \/ UNCHANGED vars => output' = output
    BY DEF StartAnalysis, CancelRead, CancelWrite, Tick, vars
  <1> QED
    BY <1>1, <1>2, <1>3 DEF Next

\* An artifact, once written, is only ever replaced, under a token that was issued.
LEMMA OutputStands ==
  ASSUME TypeInv, LeaseInv, [Next]_vars, output["report"] # NoToken
  PROVE  output'["report"] # NoToken
  <1>1. ASSUME NEW w \in Worker, WriteOutput(w) PROVE output'["report"] # NoToken
    <2>1. pc[w] \in HoldPc
      BY <1>1, HoldLabels DEF WriteOutput
    <2>2. local[w].token \in 1..issued
      BY <2>1, HolderFacts
    <2>3. local[w].token # NoToken
      BY <2>2 DEF NoToken
    <2> QED
      BY <1>1, <2>3 DEF WriteOutput, TypeInv, TypeOK, StageName
  <1> QED
    BY <1>1, OnlyWritesChangeOutput

\* Only a worker that has decided so makes an analysis succeed.
LEMMA GoodSteps ==
  ASSUME TypeInv, [Next]_vars, analysis' \in Good
  PROVE  analysis \in Good \/ \E w \in Worker : Decided(w)
  <1>1. ASSUME NEW w \in Worker, Settle(w) PROVE analysis \in Good \/ Decided(w)
    BY <1>1 DEF Settle, SetAnalysisState, Decided
  <1>2. ASSUME NEW w \in Worker, WorkerStep(w), ~Settle(w) PROVE analysis \in Good
    <2>1. CASE \/ ClaimQueued(w) \/ CallHonor(w) \/ Proceed(w) \/ FailAnalysis(w) \/ Return(w)
               \/ \E s \in Stages : Call(w, s)
      BY ZenonT(40), <2>1 DEF ClaimQueued, CallHonor, Proceed, FailAnalysis, Return, Call, SetAnalysisState, Good
    <2>2. CASE \/ Check(w) \/ Look(w) \/ Acquire(w) \/ AcquireNone(w) \/ Refuse(w) \/ StartStage(w)
               \/ WriteOutput(w) \/ WorkDone(w) \/ WorkFails(w) \/ WorkCanceled(w) \/ Decide(w)
      BY Zenon, <2>2 DEF Check, Look, Acquire, AcquireNone, Refuse, StartStage, WriteOutput, WorkDone,
                  WorkFails, WorkCanceled, Decide, SetAnalysisState, Good
    <2>3. CASE \/ Heartbeat(w) \/ Complete(w) \/ Fail(w) \/ RetryRead(w) \/ RetryInsert(w)
               \/ FailJob(w) \/ HonorList(w) \/ HonorCancel(w) \/ HonorFinish(w)
      BY <2>3 DEF Heartbeat, Complete, Fail, RetryRead, RetryInsert, FailJob, HonorList,
                  HonorCancel, HonorFinish, SetAnalysisState, Good
    <2> QED
      BY <1>2, <2>1, <2>2, <2>3 DEF WorkerStep
  <1>3. ASSUME NEW w \in Worker, Fault(w) PROVE analysis \in Good
    BY <1>3 DEF Fault, Crash, Raise, Unreadable
  <1>4. StartAnalysis \/ CancelRead \/ CancelWrite \/ Tick \/ UNCHANGED vars => analysis \in Good
    BY DEF StartAnalysis, CancelRead, CancelWrite, CancelTarget, Tick, vars, Good
  <1> QED
    BY <1>1, <1>2, <1>3, <1>4 DEF Next

\* The rows and the report that a decision for a success is taken on.
LEMMA DecideOnResults ==
  ASSUME TypeInv, NEW w \in Worker, Decide(w), Decided(w)'
  PROVE  HasResults
  <1>1. PICK v \in IF output["report"] = NoToken THEN {"FAILED"} ELSE Outcomes :
          Step(w, "settle", [local[w] EXCEPT !.verdict = v])
    BY DEF Decide
  <1>2. local'[w].verdict = v
    BY <1>1 DEF Step, TypeInv, TypeOK, Frame
  <1>3. output["report"] # NoToken /\ v \in Outcomes /\ v # "FAILED"
    BY <1>1, <1>2 DEF Decided, Good
  <1>4. ASSUME NEW s \in {"sampling", "report"} PROVE Succeeded(s)
    <2>1. LatestState(runs[s]) = "SUCCEEDED"
      BY <1>3 DEF Outcomes
    <2>2. runs[s] \in Seq(StageRunRow) /\ Len(runs[s]) \in Nat
      BY LenNat DEF StageName
    <2>3. runs[s] # << >> /\ runs[s][Len(runs[s])].state = "SUCCEEDED"
      BY <2>1 DEF LatestState
    <2>4. Len(runs[s]) >= 1
      BY <2>2, <2>3, EmptySeq
    <2> QED
      BY <2>2, <2>3, <2>4 DEF Succeeded
  <1> QED
    BY <1>3, <1>4 DEF HasResults

\* Only Decide makes a decision for a success; the other steps leave or end it.
LEMMA DecidedSteps ==
  ASSUME TypeInv, [Next]_vars, NEW w \in Worker, Decided(w)'
  PROVE  Decided(w) \/ Decide(w)
  <1>1. ASSUME NEW v \in Worker, NEW label, NEW frame, Step(v, label, frame),
               label # "settle" \/ v # w
        PROVE  Decided(w)
    BY <1>1 DEF Step, Decided, TypeInv, TypeOK
  <1>2. ASSUME NEW v \in Worker, WorkerStep(v), ~Decide(v) PROVE Decided(w)
    <2>1. CASE \/ ClaimQueued(v) \/ CallHonor(v) \/ Proceed(v) \/ FailAnalysis(v) \/ Return(v)
               \/ \E s \in Stages : Call(v, s)
      <3>1. \/ Honor(v) \/ \E label \in {"claimed", "idle", "check"} : \E frame : Step(v, label, frame)
        BY <2>1 DEF ClaimQueued, CallHonor, Proceed, FailAnalysis, Return, Call
      <3> QED
        BY <1>1, <3>1 DEF Honor
    <2>2. CASE Check(v) \/ Look(v) \/ AcquireNone(v) \/ Refuse(v) \/ StartStage(v)
      BY <1>1, <2>2 DEF Check, Look, AcquireNone, Refuse, StartStage, Honor, Finish, Goto
    <2>3. CASE Acquire(v)
      BY <1>1, <2>3 DEF Acquire
    <2>4. CASE WriteOutput(v) \/ WorkDone(v) \/ WorkFails(v) \/ WorkCanceled(v) \/ Settle(v)
      BY <1>1, <2>4 DEF WriteOutput, WorkDone, WorkFails, WorkCanceled, Settle, Honor, Goto
    <2>5. CASE Heartbeat(v) \/ Complete(v) \/ Fail(v) \/ RetryRead(v) \/ RetryInsert(v) \/ FailJob(v)
      BY <1>1, <2>5 DEF Heartbeat, Complete, Fail, RetryRead, RetryInsert, FailJob, Finish, Goto
    <2>6. CASE HonorList(v) \/ HonorCancel(v) \/ HonorFinish(v)
      BY <1>1, <2>6 DEF HonorList, HonorCancel, HonorFinish, Finish
    <2> QED
      BY <1>2, <2>1, <2>2, <2>3, <2>4, <2>5, <2>6 DEF WorkerStep
  <1>3. ASSUME NEW v \in Worker, Decide(v), v # w PROVE Decided(w)
    BY <1>1, <1>3 DEF Decide
  <1>4. ASSUME NEW v \in Worker, Fault(v) PROVE Decided(w)
    <2>1. CASE Crash(v) \/ Raise(v)
      BY <1>1, <2>1 DEF Crash, Raise, Finish
    <2>2. CASE Unreadable(v)
      <3>1. Step(v, "settle", [local[v] EXCEPT !.verdict = "FAILED"])
        BY <2>2 DEF Unreadable
      <3>2. CASE v # w
        BY <1>1, <3>1, <3>2
      <3>3. CASE v = w
        <4>1. local'[w].verdict = "FAILED"
          BY <3>1, <3>3 DEF Step, TypeInv, TypeOK, Frame
        <4> QED
          BY <4>1 DEF Decided, Good
      <3> QED
        BY <3>2, <3>3
    <2> QED
      BY <1>4, <2>1, <2>2 DEF Fault
  <1>5. StartAnalysis \/ CancelRead \/ CancelWrite \/ Tick \/ UNCHANGED vars => Decided(w)
    BY DEF StartAnalysis, CancelRead, CancelWrite, Tick, vars, Decided
  <1> QED
    BY <1>2, <1>3, <1>4, <1>5 DEF Next

LEMMA ResultNext == TypeInv /\ LeaseInv /\ ResultInv /\ [Next]_vars => ResultInv'
  <1> SUFFICES ASSUME TypeInv, LeaseInv, ResultInv, [Next]_vars PROVE ResultInv'
    OBVIOUS
  <1>1. HasResults => HasResults'
    <2> SUFFICES ASSUME HasResults PROVE HasResults'
      OBVIOUS
    <2>1. \A s \in {"sampling", "report"} : Succeeded(s)'
      BY SucceededStands DEF HasResults, StageName
    <2>2. output'["report"] # NoToken
      BY OutputStands DEF HasResults
    <2> QED
      BY <2>1, <2>2 DEF HasResults
  <1>2. analysis' \in Good => HasResults'
    BY <1>1, GoodSteps DEF ResultInv
  <1>3. ASSUME NEW w \in Worker, Decided(w)' PROVE HasResults'
    BY <1>1, <1>3, DecidedSteps, DecideOnResults DEF ResultInv
  <1> QED
    BY <1>2, <1>3 DEF ResultInv

\* An analysis is SUCCEEDED or PARTIAL only if a report was written and sampling and
\* report have succeeded, whoever aggregated and however old the decision was.
THEOREM SuccessHasResultsInvariance == Spec => []SuccessHasResults
  <1>1. Init => ResultInv
    BY DEF Init, ResultInv, Decided, Good
  <1>2. ResultInv => SuccessHasResults
    BY DEF ResultInv, HasResults, SuccessHasResults, Good
  <1> QED
    BY <1>1, <1>2, ResultNext, TypeInvariance, LeaseInvariance, PTL DEF Spec

-----------------------------------------------------------------------------
(* Cancels: nothing takes an analysis out of Withdrawn.                    *)

LEMMA WithdrawnSteps == [Next]_vars => CancelKept
  <1> SUFFICES ASSUME [Next]_vars, analysis \in Withdrawn PROVE analysis' \in Withdrawn
    BY DEF CancelKept
  <1>1. ASSUME NEW w \in Worker, WorkerStep(w) PROVE analysis' \in Withdrawn
    <2>1. CASE \/ ClaimQueued(w) \/ CallHonor(w) \/ Proceed(w) \/ FailAnalysis(w) \/ Return(w)
               \/ \E s \in Stages : Call(w, s)
      BY <2>1 DEF ClaimQueued, CallHonor, Proceed, FailAnalysis, Return, Call, SetAnalysisState, Withdrawn
    <2>2. CASE \/ Check(w) \/ Look(w) \/ Acquire(w) \/ AcquireNone(w) \/ Refuse(w) \/ StartStage(w)
               \/ WriteOutput(w) \/ WorkDone(w) \/ WorkFails(w) \/ WorkCanceled(w) \/ Decide(w)
      BY Zenon, <2>2 DEF Check, Look, Acquire, AcquireNone, Refuse, StartStage, WriteOutput, WorkDone,
                  WorkFails, WorkCanceled, Decide, SetAnalysisState, Withdrawn
    <2>3. CASE \/ Settle(w) \/ Heartbeat(w) \/ Complete(w) \/ Fail(w) \/ RetryRead(w) \/ RetryInsert(w)
               \/ FailJob(w) \/ HonorList(w) \/ HonorCancel(w) \/ HonorFinish(w)
      BY <2>3 DEF Settle, Heartbeat, Complete, Fail, RetryRead, RetryInsert, FailJob, HonorList,
                  HonorCancel, HonorFinish, SetAnalysisState, Withdrawn
    <2> QED
      BY <1>1, <2>1, <2>2, <2>3 DEF WorkerStep
  <1>2. ASSUME NEW w \in Worker, Fault(w) PROVE analysis' \in Withdrawn
    BY <1>2 DEF Fault, Crash, Raise, Unreadable
  <1>3. StartAnalysis \/ CancelRead \/ CancelWrite \/ Tick \/ UNCHANGED vars => analysis' \in Withdrawn
    BY DEF StartAnalysis, CancelRead, CancelWrite, CancelTarget, Tick, vars, Withdrawn
  <1> QED
    BY <1>1, <1>2, <1>3 DEF Next

\* An accepted cancel is never undone, whatever workers have read before it and
\* however late their compare-and-sets come.
THEOREM CancelStandsInvariance == Spec => CancelStands
  BY WithdrawnSteps, PTL DEF Spec, CancelStands

-----------------------------------------------------------------------------
(* When no work outlasts its lease: one worker at a time is busy with a    *)
(* stage, it is busy with the latest attempt, and only it adds the next.   *)

Over == {"FAILED_RETRYABLE", "CANCELED"}

\* The guard of Tick: no lease expires, and no captured time gets too old for a
\* fresh one, under a worker that still acts on it.
Timely ==
  \A w \in Worker :
    /\ pc[w] \in PreparePc => clock <= local[w].moment + TTL
    /\ pc[w] \in HoldPc => clock <= local[w].expires

\* A busy worker is busy with the latest attempt of its stage; while it adds the
\* next one the attempt is over, and not the last.
AtLatest(label, frame, table) ==
  /\ label \in BusyPc => frame.attempt = Len(table[frame.stage])
  /\ label \in RetryPc =>
       /\ table[frame.stage][frame.attempt].state \in Over
       /\ frame.attempt < MaxAttempts

BusyAtLatest == \A w \in Worker : AtLatest(pc[w], local[w], runs)

ExclInv == Timely /\ RetriesInOrder /\ WorkExclusive /\ BusyAtLatest

LEMMA BusyLabels ==
  /\ BusyPc = HoldPc \cup RetryPc
  /\ RetryPc \cap HoldPc = {} /\ PreparePc \cap BusyPc = {}
  /\ RetryPc = {"retry_read", "retry_insert"}
  BY Labels, HoldLabels DEF RetryPc

\* The step of one worker: what it has to show of its own new frame, of the rows,
\* and of the other busy workers.
LEMMA ExclStep ==
  ASSUME TypeInv, ExclInv, NEW w \in Worker, NEW label \in Pc, NEW frame \in Frame,
         Step(w, label, frame), clock' = clock, RetriesInOrder',
         label \in PreparePc => clock <= frame.moment + TTL,
         label \in HoldPc => clock <= frame.expires,
         AtLatest(label, frame, runs'),
         label \in BusyPc =>
           \A v \in Worker \ {w} : pc[v] \in BusyPc => local[v].stage # frame.stage,
         \A v \in Worker \ {w} : AtLatest(pc[v], local[v], runs')
  PROVE  ExclInv'
  <1>1. /\ pc'[w] = label /\ local'[w] = frame
        /\ \A v \in Worker : v # w => pc'[v] = pc[v] /\ local'[v] = local[v]
    BY WorkerMoved DEF TypeInv, TypeOK
  <1>2. Timely'
    BY <1>1 DEF Timely, ExclInv
  <1>3. WorkExclusive'
    BY <1>1 DEF WorkExclusive, ExclInv
  <1>4. BusyAtLatest'
    BY <1>1 DEF BusyAtLatest
  <1> QED
    BY <1>2, <1>3, <1>4 DEF ExclInv

\* The rows stand.
LEMMA ExclSameRows ==
  ASSUME TypeInv, ExclInv, NEW w \in Worker, NEW label \in Pc, NEW frame \in Frame,
         Step(w, label, frame), UNCHANGED << runs, clock >>,
         label \in PreparePc => clock <= frame.moment + TTL,
         label \in BusyPc =>
           /\ pc[w] \in BusyPc
           /\ frame.stage = local[w].stage /\ frame.attempt = local[w].attempt,
         label \in HoldPc => pc[w] \in HoldPc /\ frame.expires = local[w].expires,
         label \in RetryPc => pc[w] \in RetryPc
  PROVE  ExclInv'
  <1>1. RetriesInOrder'
    BY DEF ExclInv, RetriesInOrder
  <1>2. label \in HoldPc => clock <= frame.expires
    BY DEF ExclInv, Timely
  <1>3. AtLatest(label, frame, runs') /\ \A v \in Worker : AtLatest(pc[v], local[v], runs')
    <2>1. \A v \in Worker : AtLatest(pc[v], local[v], runs')
      BY DEF ExclInv, BusyAtLatest
    <2>2. label \in RetryPc => label \in BusyPc
      BY BusyLabels
    <2> QED
      BY <2>1, <2>2 DEF AtLatest
  <1>4. label \in BusyPc =>
          \A v \in Worker \ {w} : pc[v] \in BusyPc => local[v].stage # frame.stage
    BY DEF ExclInv, WorkExclusive
  <1> QED
    BY <1>1, <1>2, <1>3, <1>4, ExclStep

\* A row is rewritten, the latest or into one that is over.
LEMMA ExclRows ==
  ASSUME TypeInv, ExclInv, NEW s \in StageName, NEW i \in 1..Len(runs[s]),
         NEW row \in StageRunRow, runs' = WithRow(s, i, row), i = Len(runs[s]) \/ row.state \in Over
  PROVE  /\ RetriesInOrder'
         /\ \A v \in Worker :
              pc[v] \in BusyPc /\ (local[v].stage # s \/ row.state \in Over)
                => AtLatest(pc[v], local[v], runs')
  <1>1. /\ \A t \in StageName : Len(runs'[t]) = Len(runs[t]) /\ Len(runs[t]) \in Nat
        /\ runs'[s][i] = row
        /\ \A t \in StageName : \A j \in 1..Len(runs[t]) :
             t # s \/ j # i => runs'[t][j] = runs[t][j]
    BY RowWritten, LenNat DEF TypeInv, TypeOK
  <1>2. RetriesInOrder'
    <2> SUFFICES ASSUME NEW t \in StageName
                 PROVE  /\ \A j \in 1..Len(runs'[t]) - 1 :
                             runs'[t][j].state \in {"FAILED_RETRYABLE", "CANCELED"}
                        /\ Len(runs'[t]) <= MaxAttempts
      BY DEF RetriesInOrder
    <2>1. Len(runs'[t]) <= MaxAttempts
      BY <1>1 DEF ExclInv, RetriesInOrder
    <2>2. ASSUME NEW j \in 1..Len(runs[t]) - 1
          PROVE  runs'[t][j].state \in {"FAILED_RETRYABLE", "CANCELED"}
      <3>1. j \in 1..Len(runs[t]) /\ j # Len(runs[t])
        BY <1>1
      <3>2. runs[t][j].state \in {"FAILED_RETRYABLE", "CANCELED"}
        BY DEF ExclInv, RetriesInOrder
      <3>3. CASE t = s /\ j = i
        BY <1>1, <3>1, <3>3 DEF Over
      <3>4. CASE t # s \/ j # i
        BY <1>1, <3>1, <3>2, <3>4
      <3> QED
        BY <3>3, <3>4
    <2> QED
      BY <1>1, <2>1, <2>2
  <1>3. ASSUME NEW v \in Worker, pc[v] \in BusyPc, local[v].stage # s \/ row.state \in Over
        PROVE  AtLatest(pc[v], local[v], runs')
    <2>1. local[v].stage \in StageName /\ local[v].attempt \in 1..Len(runs[local[v].stage])
      BY <1>3, LeaseExists
    <2>2. AtLatest(pc[v], local[v], runs)
      BY DEF ExclInv, BusyAtLatest
    <2> QED
      BY <1>1, <1>3, <2>1, <2>2 DEF AtLatest
  <1> QED
    BY <1>2, <1>3

\* What a holder sees of its row: its own lease, or a cancel.
LEMMA HolderRow ==
  ASSUME TypeInv, LeaseInv, ExclInv, NEW w \in Worker, pc[w] \in HoldPc
  PROVE  /\ local[w].attempt = Len(runs[local[w].stage])
         /\ LeasedBy(w).state \in {"LEASED", "RUNNING", "CANCELED"}
         /\ pc[w] # "start" => LeasedBy(w).state \in {"RUNNING", "CANCELED"}
         /\ LeasedBy(w).state # "CANCELED" =>
              LeasedBy(w).token = local[w].token /\ LeasedBy(w).expires = local[w].expires
  <1>1. LeaseOK(pc[w], local[w], LeasedBy(w), clock) /\ clock <= local[w].expires
    BY HolderFacts DEF ExclInv, Timely
  <1>2. local[w].attempt = Len(runs[local[w].stage])
    BY BusyLabels DEF ExclInv, BusyAtLatest, AtLatest
  <1> QED
    BY <1>1, <1>2 DEF LeaseOK

-----------------------------------------------------------------------------
(* The steps.                                                              *)

LEMMA ExclMoves ==
  ASSUME TypeInv, LeaseInv, ExclInv, NEW w \in Worker,
         \/ WriteOutput(w) \/ WorkDone(w) \/ WorkFails(w)
         \/ Decide(w) \/ Unreadable(w) \/ Settle(w)
         \/ RetryRead(w)
         \/ CallHonor(w) \/ FailAnalysis(w) \/ Return(w) \/ AcquireNone(w) \/ Refuse(w)
         \/ WorkCanceled(w) \/ FailJob(w) \/ HonorList(w) \/ HonorFinish(w)
         \/ Crash(w) \/ Raise(w)
  PROVE  ExclInv'
  <1>1. CASE \/ WriteOutput(w) \/ WorkDone(w) \/ WorkFails(w)
             \/ Decide(w) \/ Unreadable(w) \/ Settle(w)
    <2>1. PICK label \in HoldPc \ {"start"}, frame \in Frame :
            /\ Step(w, label, frame)
            /\ frame.stage = local[w].stage /\ frame.attempt = local[w].attempt
            /\ frame.token = local[w].token /\ frame.expires = local[w].expires
      BY <1>1, WorkMoves
    <2>2. pc[w] \in HoldPc /\ UNCHANGED << runs, clock >>
      BY <1>1, WorkMoves
    <2>3. label \in Pc /\ label \notin PreparePc /\ label \notin RetryPc
      BY Labels, HoldLabels, BusyLabels
    <2> QED
      BY <2>1, <2>2, <2>3, ExclSameRows, BusyLabels
  <1>2. CASE RetryRead(w)
    <2>1. PICK frame \in Frame :
            /\ Step(w, "retry_insert", frame)
            /\ frame.stage = local[w].stage /\ frame.attempt = local[w].attempt
      BY <1>2, RetryMoves
    <2>2. pc[w] \in RetryPc /\ pc[w] \in BusyPc /\ UNCHANGED << runs, clock >>
      BY <1>2, RetryMoves, BusyLabels
    <2>3. "retry_insert" \in Pc /\ "retry_insert" \notin PreparePc /\ "retry_insert" \notin HoldPc
      BY Labels, HoldLabels
    <2> QED
      BY <2>1, <2>2, <2>3, ExclSameRows
  <1>3. CASE \/ CallHonor(w) \/ FailAnalysis(w) \/ Return(w) \/ AcquireNone(w) \/ Refuse(w)
             \/ WorkCanceled(w) \/ FailJob(w) \/ HonorList(w) \/ HonorFinish(w)
             \/ Crash(w) \/ Raise(w)
    <2>1. UNCHANGED << runs, clock >>
      BY <1>3, LeftMoves
    <2>2. PICK label \in Pc \ (BusyPc \cup PreparePc), frame \in Frame : Step(w, label, frame)
      BY <1>3, LeftMoves
    <2> QED
      BY <2>1, <2>2, ExclSameRows, BusyLabels
  <1> QED
    BY <1>1, <1>2, <1>3

LEMMA ExclPrepare ==
  ASSUME TypeInv, ExclInv, NEW w \in Worker,
         \/ ClaimQueued(w) \/ Proceed(w) \/ Check(w) \/ Look(w)
         \/ \E s \in Stages : Call(w, s)
  PROVE  ExclInv'
  <1>1. PICK label \in Pc \ BusyPc, frame \in Frame :
          /\ Step(w, label, frame)
          /\ label \in PreparePc =>
               \/ frame.moment = clock
               \/ pc[w] \in PreparePc /\ frame.moment = local[w].moment
    BY PrepareMoves
  <1>2. label \in PreparePc => clock <= frame.moment + TTL
    BY <1>1, BoundsAssumption DEF ExclInv, Timely, TypeInv, TypeOK
  <1>3. UNCHANGED << runs, clock >>
    BY PrepareMoves
  <1> QED
    BY <1>1, <1>2, <1>3, ExclSameRows, BusyLabels

\* A holder rewrites its row, or finds that it may not, and goes on or leaves.
LEMMA ExclOwnRow ==
  ASSUME TypeInv, LeaseInv, ExclInv, NEW w \in Worker, pc[w] \in HoldPc,
         NEW row \in StageRunRow,
         runs' = WithRow(local[w].stage, local[w].attempt, row),
         NEW label \in Pc \ PreparePc, NEW frame \in Frame, Step(w, label, frame), clock' = clock,
         label \in BusyPc => frame.stage = local[w].stage /\ frame.attempt = local[w].attempt,
         label \in HoldPc => clock <= frame.expires,
         label \in RetryPc => row.state \in Over /\ local[w].attempt < MaxAttempts
  PROVE  ExclInv'
  <1> DEFINE s == local[w].stage
             i == local[w].attempt
  <1>1. s \in StageName /\ i \in 1..Len(runs[s]) /\ i = Len(runs[s])
    BY HolderFacts, HolderRow
  <1>2. /\ RetriesInOrder'
        /\ \A v \in Worker : pc[v] \in BusyPc /\ local[v].stage # s => AtLatest(pc[v], local[v], runs')
    BY <1>1, ExclRows
  <1>3. Len(runs'[s]) = Len(runs[s]) /\ runs'[s][i] = row
    BY <1>1, RowWritten DEF TypeInv, TypeOK
  <1>4. \A v \in Worker \ {w} : pc[v] \in BusyPc => local[v].stage # s
    BY BusyLabels DEF ExclInv, WorkExclusive
  <1>5. \A v \in Worker \ {w} : AtLatest(pc[v], local[v], runs')
    BY <1>2, <1>4, BusyLabels DEF AtLatest
  <1>6. AtLatest(label, frame, runs')
    BY <1>1, <1>3, BusyLabels DEF AtLatest
  <1> QED
    BY <1>2, <1>4, <1>5, <1>6, ExclStep

LEMMA ExclStart ==
  ASSUME TypeInv, LeaseInv, ExclInv, NEW w \in Worker, StartStage(w)
  PROVE  ExclInv'
  <1>1. pc[w] \in HoldPc /\ clock' = clock /\ local[w] \in Frame /\ LeasedBy(w) \in StageRunRow
    BY HoldLabels, HolderFacts DEF StartStage
  <1>2. CASE HoldsRow(LeasedBy(w), local[w].token, "LEASED")
    <2> DEFINE row == [LeasedBy(w) EXCEPT !.state = "RUNNING"]
    <2>1. row \in StageRunRow
      BY <1>1, RowTypes DEF StageRunRow
    <2>2. runs' = WithRow(local[w].stage, local[w].attempt, row) /\ Step(w, "work", local[w])
      BY <1>2 DEF StartStage, Goto
    <2>3. clock <= local[w].expires
      BY <1>1 DEF ExclInv, Timely
    <2>4. "work" \in Pc \ PreparePc /\ "work" \notin RetryPc
      BY Labels, HoldLabels, BusyLabels
    <2> HIDE DEF row
    <2> QED
      BY <1>1, <2>1, <2>2, <2>3, <2>4, ExclOwnRow
  <1>3. CASE ~HoldsRow(LeasedBy(w), local[w].token, "LEASED")
    <2>1. UNCHANGED << runs, clock >> /\ Step(w, "done", [NoFrame EXCEPT !.outcome = "LEASE_LOST"])
      BY <1>1, <1>3 DEF StartStage, Finish
    <2>2. [NoFrame EXCEPT !.outcome = "LEASE_LOST"] \in Frame /\ "done" \in Pc \ (BusyPc \cup PreparePc)
      BY NoFrameType, Labels, HoldLabels DEF Outcome
    <2> QED
      BY <2>1, <2>2, ExclSameRows, BusyLabels
  <1> QED
    BY <1>2, <1>3

LEMMA ExclHeartbeat ==
  ASSUME TypeInv, LeaseInv, ExclInv, NEW w \in Worker, Heartbeat(w)
  PROVE  ExclInv'
  <1> DEFINE t == clock + TTL
  <1>1. /\ pc[w] \in HoldPc /\ clock' = clock /\ local[w] \in Frame /\ LeasedBy(w) \in StageRunRow
        /\ t \in Nat /\ clock <= t
    BY HoldLabels, HolderFacts, BoundsAssumption DEF Heartbeat, TypeInv, TypeOK
  <1>2. "complete" \in Pc \ PreparePc /\ "complete" \notin RetryPc
    BY Labels, HoldLabels, BusyLabels
  <1>3. CASE MayExtend(LeasedBy(w), local[w].token)
    <2> DEFINE row == [LeasedBy(w) EXCEPT !.expires = t]
               f == [local[w] EXCEPT !.expires = t]
    <2>1. row \in StageRunRow
      BY <1>1, RowTypes DEF StageRunRow
    <2>2. f \in Frame /\ f.stage = local[w].stage /\ f.attempt = local[w].attempt /\ f.expires = t
      BY <1>1 DEF Frame
    <2>3. runs' = WithRow(local[w].stage, local[w].attempt, row) /\ Step(w, "complete", f)
      BY <1>3 DEF Heartbeat
    <2> HIDE DEF row, f
    <2> QED
      BY <1>1, <1>2, <2>1, <2>2, <2>3, ExclOwnRow
  <1>4. CASE ~MayExtend(LeasedBy(w), local[w].token)
    <2>1. UNCHANGED << runs, clock >> /\ Step(w, "complete", local[w])
      BY <1>1, <1>4 DEF Heartbeat, Goto
    <2> QED
      BY <1>1, <1>2, <2>1, ExclSameRows, BusyLabels
  <1> QED
    BY <1>3, <1>4

LEMMA ExclComplete ==
  ASSUME TypeInv, LeaseInv, ExclInv, NEW w \in Worker, Complete(w)
  PROVE  ExclInv'
  <1>1. pc[w] \in HoldPc /\ clock' = clock /\ LeasedBy(w) \in StageRunRow
    BY HoldLabels, HolderFacts DEF Complete
  <1>2. PICK o \in Outcome : Finish(w, o)
    BY DEF Complete, Outcome
  <1> DEFINE f == [NoFrame EXCEPT !.outcome = o]
             row == [LeasedBy(w) EXCEPT !.state = "SUCCEEDED", !.token = NoToken]
  <1>3. f \in Frame /\ Step(w, "done", f) /\ "done" \in Pc \ (BusyPc \cup PreparePc)
    BY <1>2, NoFrameType, Labels, HoldLabels DEF Finish
  <1>4. row \in StageRunRow
    BY <1>1, RowTypes DEF StageRunRow
  <1>5. runs' = runs \/ runs' = WithRow(local[w].stage, local[w].attempt, row)
    BY DEF Complete
  <1> HIDE DEF f, row
  <1>6. CASE runs' = runs
    BY <1>1, <1>3, <1>6, ExclSameRows, BusyLabels
  <1>7. CASE runs' = WithRow(local[w].stage, local[w].attempt, row)
    BY <1>1, <1>3, <1>4, <1>7, ExclOwnRow, BusyLabels
  <1> QED
    BY <1>5, <1>6, <1>7

\* A failed attempt is over before the next one is added: its row is FAILED_RETRYABLE,
\* or a cancel has closed it.
LEMMA ExclFail ==
  ASSUME TypeInv, LeaseInv, ExclInv, NEW w \in Worker, Fail(w)
  PROVE  ExclInv'
  <1>1. /\ pc[w] \in HoldPc /\ pc[w] # "start" /\ clock' = clock /\ local[w] \in Frame
        /\ LeasedBy(w) \in StageRunRow
    BY HoldLabels, HolderFacts DEF Fail
  <1>2. /\ local[w].attempt = Len(runs[local[w].stage])
        /\ local[w].attempt \in 1..Len(runs[local[w].stage]) /\ local[w].stage \in StageName
        /\ LeasedBy(w) = runs[local[w].stage][local[w].attempt]
    BY <1>1, HolderFacts, HolderRow
  <1>3. PICK label \in {"retry_read", "fail_job", "done"}, frame \in Frame :
          /\ Step(w, label, frame)
          /\ label = "retry_read" => ~IsFinal(w) /\ frame = local[w]
    <2>1. NoFrame \in Frame /\ [NoFrame EXCEPT !.outcome = "ERROR"] \in Frame
      BY NoFrameType DEF Outcome
    <2>2. CASE ~IsFinal(w)
      BY <1>1, <2>2 DEF Fail, Goto
    <2>3. CASE IsFinal(w)
      BY <2>1, <2>3 DEF Fail, Finish
    <2> QED
      BY <2>2, <2>3
  <1>4. /\ label \in Pc \ PreparePc /\ label \notin HoldPc
        /\ label \in BusyPc \/ label \in RetryPc => label = "retry_read"
    BY Labels, HoldLabels, BusyLabels
  <1>5. ~IsFinal(w) => local[w].attempt < MaxAttempts
    BY <1>1, BoundsAssumption DEF IsFinal, Frame
  <1>6. CASE HoldsRow(LeasedBy(w), local[w].token, "RUNNING")
    <2> DEFINE e == IF IsFinal(w) THEN "FAILED_TERMINAL" ELSE "FAILED_RETRYABLE"
               row == [LeasedBy(w) EXCEPT !.state = e, !.token = NoToken]
    <2>0. e \in StageState /\ (~IsFinal(w) => e \in Over)
      BY DEF StageState, Over
    <2>2. runs' = WithRow(local[w].stage, local[w].attempt, row)
      BY <1>6 DEF Fail
    <2> HIDE DEF e
    <2>1. row \in StageRunRow /\ (~IsFinal(w) => row.state \in Over)
      BY <1>1, <2>0, RowTypes DEF StageRunRow
    <2> HIDE DEF row
    <2> QED
      BY <1>1, <1>3, <1>4, <1>5, <2>1, <2>2, ExclOwnRow
  <1>7. CASE ~HoldsRow(LeasedBy(w), local[w].token, "RUNNING")
    <2>1. runs' = runs
      BY <1>7 DEF Fail
    <2>2. LeasedBy(w).state \in Over
      BY <1>1, <1>7, HolderRow DEF HoldsRow, Over
    <2>3. runs' = WithRow(local[w].stage, local[w].attempt, LeasedBy(w))
      <3>1. runs[local[w].stage] \in Seq(StageRunRow) /\ runs \in [StageName -> Seq(StageRunRow)]
        BY <1>2, LenNat DEF TypeInv, TypeOK
      <3> QED
        BY SMTT(30), <1>2, <2>1, <3>1 DEF WithRow
    <2> QED
      BY <1>1, <1>3, <1>4, <1>5, <2>2, <2>3, ExclOwnRow
  <1> QED
    BY <1>6, <1>7

\* Only the latest attempt of a stage can be leased, and not while a worker is busy
\* with it: its lease has not expired when the time was captured.
LEMMA ExclAcquire ==
  ASSUME TypeInv, LeaseInv, ExclInv, NEW w \in Worker, Acquire(w)
  PROVE  ExclInv'
  <1> DEFINE s == local[w].stage
             t == local[w].moment + TTL
             row == LeasedRow(issued + 1, t)
  <1>1. /\ s \in StageName /\ t \in Nat /\ issued \in Nat /\ local[w] \in Frame
        /\ local[w].moment \in Nat /\ clock \in Nat /\ local[w].moment <= clock
        /\ clock' = clock /\ clock <= t
    <2>1. FrameRefersOK(pc[w], local[w], runs) /\ pc[w] = "acquire"
      BY DEF Acquire, TypeInv, FramesOK
    <2>2. local[w].moment <= clock /\ clock <= t /\ clock' = clock
      BY <2>1, HoldLabels DEF LeaseInv, MomentsPast, ExclInv, Timely, Acquire
    <2> QED
      BY SMTT(30), <2>1, <2>2, Labels, BoundsAssumption DEF FrameRefersOK, TypeInv, TypeOK, Frame
  <1>2. PICK i \in 1..Len(runs[s]) :
          /\ IsCandidate(runs[s], i, local[w].moment)
          /\ runs' = WithRow(s, i, row)
          /\ Step(w, "start", [local[w] EXCEPT !.attempt = i, !.token = issued + 1, !.expires = t])
    BY DEF Acquire
  <1> DEFINE f == [local[w] EXCEPT !.attempt = i, !.token = issued + 1, !.expires = t]
  <1>3. row \in StageRunRow
    BY <1>1 DEF LeasedRow, StageRunRow, StageState
  <1>4. i \in Nat /\ runs[s][i] \in StageRunRow /\ Len(runs[s]) \in Nat
        /\ Claimable(runs[s][i], local[w].moment)
    BY <1>1, <1>2, LenNat, ElementOfSeq DEF IsCandidate
  <1>5. f \in Frame /\ f.stage = s /\ f.attempt = i /\ f.expires = t
    <2>1. issued + 1 \in Nat
      BY <1>1
    <2>2. f \in Frame
      BY <1>1, <1>4, <2>1 DEF Frame
    <2> QED
      BY <1>1, <2>2 DEF Frame
  <1>6. i = Len(runs[s])
    <2>1. runs[s][i].state \notin {"FAILED_RETRYABLE", "CANCELED"}
      BY <1>4 DEF Claimable, ActiveState
    <2>2. i \notin 1..Len(runs[s]) - 1
      BY <1>1, <2>1 DEF ExclInv, RetriesInOrder
    <2> QED
      BY <1>4, <2>2
  <1>7. ASSUME NEW v \in Worker, pc[v] \in BusyPc PROVE local[v].stage # s
    <2> SUFFICES ASSUME local[v].stage = s PROVE FALSE
      OBVIOUS
    <2>1. local[v].attempt = i /\ LeasedBy(v) = runs[s][i]
      BY <1>6, <1>7, LeaseExists DEF ExclInv, BusyAtLatest, AtLatest
    <2>2. CASE pc[v] \in RetryPc
      <3>1. runs[s][i].state \in Over
        BY <2>1, <2>2 DEF ExclInv, BusyAtLatest, AtLatest
      <3> QED
        BY <1>4, <3>1 DEF Claimable, ActiveState, Over
    <2>3. CASE pc[v] \in HoldPc
      <3>1. runs[s][i].state \in {"LEASED", "RUNNING"} /\ runs[s][i].expires = local[v].expires
        BY <1>4, <2>1, <2>3, HolderRow DEF Claimable, ActiveState
      <3>2. runs[s][i].expires < local[w].moment /\ clock <= local[v].expires
        BY <1>4, <2>3, <3>1 DEF Claimable, ExclInv, Timely
      <3>3. local[v].expires \in Nat
        BY DEF TypeInv, TypeOK, Frame
      <3> QED
        BY <1>1, <3>1, <3>2, <3>3
    <2> QED
      BY <1>7, <2>2, <2>3, BusyLabels
  <1> HIDE DEF row, f
  <1>8. /\ RetriesInOrder'
        /\ \A v \in Worker : pc[v] \in BusyPc /\ local[v].stage # s => AtLatest(pc[v], local[v], runs')
    BY <1>1, <1>2, <1>3, <1>6, ExclRows
  <1>9. Len(runs'[s]) = Len(runs[s])
    BY <1>1, <1>2, <1>3, RowWritten DEF TypeInv, TypeOK
  <1>10. AtLatest("start", f, runs')
    BY <1>5, <1>6, <1>9, BusyLabels, HoldLabels DEF AtLatest
  <1>11. \A v \in Worker \ {w} : AtLatest(pc[v], local[v], runs')
    BY <1>7, <1>8, BusyLabels DEF AtLatest
  <1>12. "start" \in Pc /\ "start" \notin PreparePc /\ Step(w, "start", f)
    BY <1>2, Labels, HoldLabels DEF f
  <1> QED
    BY <1>1, <1>5, <1>7, <1>8, <1>10, <1>11, <1>12, ExclStep

\* A cancel closes attempts under whoever is busy with them.
LEMMA ExclCancel ==
  ASSUME TypeInv, ExclInv, NEW w \in Worker, HonorCancel(w)
  PROVE  ExclInv'
  <1>1. PICK p \in local[w].todo :
          /\ \/ runs' = runs
             \/ runs' = WithRow(p[1], p[2], CanceledRow(runs[p[1]][p[2]]))
          /\ Step(w, "hc_cancel", [local[w] EXCEPT !.todo = @ \ {p}])
    BY DEF HonorCancel
  <1> DEFINE f == [local[w] EXCEPT !.todo = @ \ {p}]
             row == CanceledRow(runs[p[1]][p[2]])
  <1>2. /\ p[1] \in StageName /\ p[2] \in 1..Len(runs[p[1]]) /\ local[w] \in Frame
        /\ clock' = clock
    BY DEF HonorCancel, TypeInv, TypeOK, FramesOK, FrameRefersOK
  <1>3. f \in Frame
    BY <1>2 DEF Frame
  <1>4. "hc_cancel" \in Pc \ (BusyPc \cup PreparePc)
    BY Labels, HoldLabels
  <1>5. CASE runs' = runs
    BY <1>1, <1>2, <1>3, <1>4, <1>5, ExclSameRows, BusyLabels
  <1>6. CASE runs' = WithRow(p[1], p[2], row)
    <2>1. row \in StageRunRow /\ row.state \in Over
      <3>1. runs[p[1]][p[2]] \in StageRunRow
        BY <1>2, LenNat, ElementOfSeq
      <3> QED
        BY <3>1, RowTypes DEF CanceledRow, StageRunRow, Over
    <2> HIDE DEF row, f
    <2>2. /\ RetriesInOrder'
          /\ \A v \in Worker : pc[v] \in BusyPc => AtLatest(pc[v], local[v], runs')
      BY <1>2, <1>6, <2>1, ExclRows
    <2>3. \A v \in Worker \ {w} : AtLatest(pc[v], local[v], runs')
      BY <2>2, BusyLabels DEF AtLatest
    <2>4. AtLatest("hc_cancel", f, runs')
      BY <1>4, BusyLabels DEF AtLatest
    <2>5. Step(w, "hc_cancel", f)
      BY <1>1 DEF f
    <2> QED
      BY <1>2, <1>3, <1>4, <2>2, <2>3, <2>4, <2>5, ExclStep, BusyLabels
  <1> QED
    BY <1>1, <1>5, <1>6

\* The one busy worker of a stage adds the next attempt, after one that is over and
\* below the cap.
LEMMA ExclRetry ==
  ASSUME TypeInv, ExclInv, NEW w \in Worker, RetryInsert(w)
  PROVE  ExclInv'
  <1> DEFINE s == local[w].stage
  <1>1. /\ s \in StageName /\ clock' = clock /\ pc[w] \in RetryPc /\ pc[w] \in BusyPc
        /\ local[w].attempt \in 1..Len(runs[s]) /\ LeasedBy(w) = runs[s][local[w].attempt]
    BY LeaseExists, BusyLabels, Labels DEF RetryInsert
  <1>2. PICK o \in {"ERROR", "RAISED"} : Finish(w, o)
    BY DEF RetryInsert
  <1> DEFINE f == [NoFrame EXCEPT !.outcome = o]
  <1>3. f \in Frame /\ Step(w, "done", f) /\ "done" \in Pc \ (BusyPc \cup PreparePc)
    BY <1>2, NoFrameType, Labels, HoldLabels DEF Outcome, Finish
  <1> HIDE DEF f
  <1>4. CASE runs' = runs
    BY <1>1, <1>3, <1>4, ExclSameRows, BusyLabels
  <1>5. CASE runs' = [runs EXCEPT ![s] = Append(@, PendingRow)]
    <2>1. /\ Len(runs'[s]) = Len(runs[s]) + 1 /\ Len(runs[s]) \in Nat
          /\ \A q \in StageName : q # s => runs'[q] = runs[q]
          /\ \A q \in StageName : \A j \in 1..Len(runs[q]) : runs'[q][j] = runs[q][j]
      BY <1>1, <1>5, LenNat, RowAppended DEF TypeInv, TypeOK
    <2>2. /\ local[w].attempt = Len(runs[s]) /\ runs[s][Len(runs[s])].state \in Over
          /\ Len(runs[s]) < MaxAttempts
      BY <1>1 DEF ExclInv, BusyAtLatest, AtLatest
    <2>3. RetriesInOrder'
      <3> SUFFICES ASSUME NEW q \in StageName
                   PROVE  /\ \A j \in 1..Len(runs'[q]) - 1 :
                               runs'[q][j].state \in {"FAILED_RETRYABLE", "CANCELED"}
                          /\ Len(runs'[q]) <= MaxAttempts
        BY DEF RetriesInOrder
      <3>1. CASE q # s
        BY <2>1, <3>1 DEF ExclInv, RetriesInOrder
      <3>2. CASE q = s
        <4>1. Len(runs'[q]) <= MaxAttempts
          BY <2>1, <2>2, <3>2, BoundsAssumption
        <4>2. ASSUME NEW j \in 1..Len(runs'[q]) - 1
              PROVE  runs'[q][j].state \in {"FAILED_RETRYABLE", "CANCELED"}
          <5>1. j \in 1..Len(runs[s]) /\ (j \in 1..Len(runs[s]) - 1 \/ j = Len(runs[s]))
            BY <2>1, <3>2
          <5>2. runs[s][j].state \in {"FAILED_RETRYABLE", "CANCELED"}
            BY <1>1, <2>2, <5>1 DEF ExclInv, RetriesInOrder, Over
          <5> QED
            BY <1>1, <2>1, <3>2, <5>1, <5>2
        <4> QED
          BY <4>1, <4>2
      <3> QED
        BY <3>1, <3>2
    <2>4. ASSUME NEW v \in Worker \ {w} PROVE AtLatest(pc[v], local[v], runs')
      <3>1. CASE pc[v] \in BusyPc
        <4>1. local[v].stage # s /\ local[v].stage \in StageName
          BY <1>1, <3>1, LeaseExists DEF ExclInv, WorkExclusive
        <4>2. AtLatest(pc[v], local[v], runs)
          BY DEF ExclInv, BusyAtLatest
        <4> QED
          BY <2>1, <4>1, <4>2 DEF AtLatest
      <3>2. CASE pc[v] \notin BusyPc
        BY <3>2, BusyLabels DEF AtLatest
      <3> QED
        BY <3>1, <3>2
    <2>5. AtLatest("done", f, runs')
      BY <1>3, BusyLabels DEF AtLatest
    <2> QED
      BY <1>1, <1>3, <2>3, <2>4, <2>5, ExclStep, BusyLabels
  <1> QED
    BY <1>1, <1>4, <1>5 DEF RetryInsert

\* Time waits for the workers whose lease would expire.
LEMMA ExclEnvironment ==
  ASSUME TypeInv, ExclInv, ~Overrun, StartAnalysis \/ CancelRead \/ CancelWrite \/ Tick
  PROVE  ExclInv'
  <1>1. UNCHANGED << runs, pc, local >>
    BY DEF StartAnalysis, CancelRead, CancelWrite, Tick
  <1>2. Timely'
    <2>1. CASE Tick
      <3> SUFFICES ASSUME NEW w \in Worker
                   PROVE  /\ pc[w] \in PreparePc => clock' <= local[w].moment + TTL
                          /\ pc[w] \in HoldPc => clock' <= local[w].expires
        BY <1>1 DEF Timely
      <3>1. /\ pc[w] \in PreparePc => clock < local[w].moment + TTL
            /\ pc[w] \in HoldPc => clock < local[w].expires
        BY <2>1 DEF Tick
      <3>2. clock' = clock + 1 /\ clock \in Nat /\ local[w].moment \in Nat /\ local[w].expires \in Nat
        BY <2>1 DEF Tick, TypeInv, TypeOK, Frame
      <3> QED
        BY <3>1, <3>2, BoundsAssumption
    <2>2. CASE StartAnalysis \/ CancelRead \/ CancelWrite
      <3>1. clock' = clock
        BY <2>2 DEF StartAnalysis, CancelRead, CancelWrite
      <3> QED
        BY <1>1, <3>1 DEF ExclInv, Timely
    <2> QED
      BY <2>1, <2>2
  <1>3. RetriesInOrder' /\ WorkExclusive' /\ BusyAtLatest'
    BY <1>1 DEF ExclInv, RetriesInOrder, WorkExclusive, BusyAtLatest
  <1> QED
    BY <1>2, <1>3 DEF ExclInv

LEMMA ExclInit == Init => ExclInv
  <1> SUFFICES ASSUME Init PROVE ExclInv
    OBVIOUS
  <1>1. \A w \in Worker : pc[w] \notin BusyPc /\ pc[w] \notin HoldPc /\ pc[w] \notin RetryPc
                          /\ pc[w] \notin PreparePc
    BY Labels, HoldLabels, BusyLabels DEF Init
  <1>2. RetriesInOrder
    BY BoundsAssumption DEF Init, RetriesInOrder
  <1> QED
    BY <1>1, <1>2 DEF ExclInv, Timely, WorkExclusive, BusyAtLatest, AtLatest

LEMMA ExclNext ==
  ASSUME TypeInv, LeaseInv, ExclInv, ~Overrun, [Next]_vars
  PROVE  ExclInv'
  <1>1. CASE UNCHANGED vars
    BY <1>1 DEF vars, ExclInv, Timely, RetriesInOrder, WorkExclusive, BusyAtLatest
  <1>2. CASE StartAnalysis \/ CancelRead \/ CancelWrite \/ Tick
    BY <1>2, ExclEnvironment
  <1>3. ASSUME NEW w \in Worker, WorkerStep(w) PROVE ExclInv'
    BY <1>3, ExclPrepare, ExclMoves, ExclAcquire, ExclStart, ExclHeartbeat, ExclComplete,
       ExclFail, ExclRetry, ExclCancel DEF WorkerStep
  <1>4. ASSUME NEW w \in Worker, Fault(w) PROVE ExclInv'
    BY <1>4, ExclMoves DEF Fault
  <1> QED
    BY <1>1, <1>2, <1>3, <1>4 DEF Next

\* The invariant of work that keeps within its lease.
LEMMA ExclInvariance ==
  ASSUME ~Overrun
  PROVE  Spec => []ExclInv
  <1>1. TypeInv /\ LeaseInv /\ ExclInv /\ [Next]_vars => ExclInv'
    BY ExclNext
  <1> QED
    BY <1>1, ExclInit, TypeInvariance, LeaseInvariance, PTL DEF Spec

\* If no work outlasts its lease, one worker at a time runs a stage or adds its retry,
\* through crashes, reclaimed leases, cancels and retries (_run_leased_stage over
\* acquire_stage).
THEOREM WorkExclusiveInvariance ==
  ASSUME ~Overrun
  PROVE  Spec => []WorkExclusive
  <1>1. ExclInv => WorkExclusive
    BY DEF ExclInv
  <1> QED
    BY <1>1, ExclInvariance, PTL

\* If no work outlasts its lease, an attempt is added only after the one before it has
\* failed retryably or was canceled, and never past stage_retry_max_attempts
\* (_run_leased_stage, insert_retry_attempt).
THEOREM RetriesInOrderInvariance ==
  ASSUME ~Overrun
  PROVE  Spec => []RetriesInOrder
  <1>1. ExclInv => RetriesInOrder
    BY DEF ExclInv
  <1> QED
    BY <1>1, ExclInvariance, PTL

\* Artifacts are written by a worker whose attempt is the latest and not over, so by
\* none of a stage that has succeeded.
LEMMA WriterNotSucceeded ==
  ASSUME TypeInv, LeaseInv, ExclInv, NEW w \in Worker, WriteOutput(w)
  PROVE  local[w].stage \in StageName /\ ~Succeeded(local[w].stage)
  <1> DEFINE s == local[w].stage
  <1>1. pc[w] \in HoldPc
    BY HoldLabels DEF WriteOutput
  <1>2. /\ s \in StageName /\ LeasedBy(w) = runs[s][Len(runs[s])]
        /\ LeasedBy(w).state # "SUCCEEDED"
    BY <1>1, HolderFacts, HolderRow
  <1>3. ASSUME NEW i \in 1..Len(runs[s]), runs[s][i].state = "SUCCEEDED" PROVE FALSE
    <2>1. Len(runs[s]) \in Nat
      BY <1>2, LenNat
    <2>2. i # Len(runs[s])
      BY <1>2, <1>3
    <2>3. i \in 1..Len(runs[s]) - 1
      BY <2>1, <2>2
    <2> QED
      BY <1>2, <1>3, <2>3 DEF ExclInv, RetriesInOrder
  <1> QED
    BY <1>2, <1>3 DEF Succeeded

LEMMA OutputSettledNext ==
  ASSUME TypeInv, LeaseInv, ExclInv, [Next]_vars
  PROVE  OutputSettled
  <1> SUFFICES ASSUME NEW s \in StageName, \A t \in Writers(s) : Succeeded(t),
                      output'[s] # output[s]
               PROVE  FALSE
    BY DEF OutputSettled
  <1>1. PICK w \in Worker : WriteOutput(w)
    BY OnlyWritesChangeOutput
  <1> DEFINE n == local[w].written + 1
             q == local[w].stage
  <1>2. /\ n \in 1..Len(Writes(q))
        /\ output' = [output EXCEPT ![Writes(q)[n]] = local[w].token]
    BY <1>1 DEF WriteOutput
  <1>3. Writes(q)[n] = s
    BY <1>2 DEF TypeInv, TypeOK
  <1>4. q \in StageName /\ ~Succeeded(q)
    BY <1>1, WriterNotSucceeded
  <1> HIDE DEF n
  <1>5. q \in Writers(s)
    BY <1>2, <1>3, <1>4 DEF Writers
  <1> QED
    BY <1>4, <1>5

\* If no work outlasts its lease, a stale worker never replaces the artifacts of stages
\* that have all succeeded (_run_leased_stage, run_sampling_stage, run_report_stage).
THEOREM SettledOutputStands ==
  ASSUME ~Overrun
  PROVE  Spec => StaleOutputIsOrphan
  <1>1. TypeInv /\ LeaseInv /\ ExclInv /\ [Next]_vars => [OutputSettled]_vars
    BY OutputSettledNext
  <1> QED
    BY <1>1, ExclInvariance, TypeInvariance, LeaseInvariance, PTL DEF Spec, StaleOutputIsOrphan

=============================================================================
