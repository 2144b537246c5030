----------------------- MODULE DashboardSession_proofs -----------------------
(***************************************************************************)
(* What a page shows belongs together: proofs of the properties of         *)
(* DashboardSession for any workers, critics, cancels and faults.          *)
(***************************************************************************)
EXTENDS DashboardSession, WellFoundedInduction, TLAPS

USE DEF None, LateStage, Key, storeVars, rowVars

-----------------------------------------------------------------------------
(* Types.  The runs recorded anywhere have been begun.                     *)

Summaries == [of : 0..made, report : 0..made, timeline : 0..made]
Frames == [stage : LateStage, key : Key, run : 0..made, found : Summaries]

DocTypes ==
  /\ analysis \in [state : AnalysisState, progress : 0..100]
  /\ stage \in [LateStage -> StageState]
  /\ holder \in [LateStage -> Worker \cup {Nobody}]
  /\ files \in [Key -> 0..made]
  /\ artifacts \in [Key -> 0..made]
  /\ shots \in 0..made
  /\ summary \in Summaries
  /\ pc \in [Worker -> WorkPc \cup {"idle"}]
  /\ local \in [Worker -> Frames]
  /\ aggregated \in BOOLEAN /\ canceling \in BOOLEAN /\ overrun \in BOOLEAN
  /\ made \in Nat /\ cancels \in Nat /\ faults \in Nat

CriticFrames == [pc : {"waiting", "lookup", "model", "ended"}, of : 0..made, since : Nat,
                 answer : [of : Nat, status : {"OK", "FAILED"}]]

CriticTypes ==
  /\ critic \in [Critic -> CriticFrames]
  /\ critiques \in Seq(CritiqueRow)
  /\ \A c \in Critic : critic[c].since <= Len(critiques)

Statuses == [state : AnalysisState, progress : 0..100, completed : SUBSET LateStage, of : 0..made]

Pages == [pc : SessionPc, job : [state : AnalysisState, progress : 0..100], of : 0..made,
          status : Statuses, report : 0..made, shot : 0..made, timeline : 0..made,
          critique : Nat]

SessionTypes == session \in Pages

TypeInv == DocTypes /\ CriticTypes /\ SessionTypes

LEMMA Terminals ==
  ASSUME NEW state \in AnalysisState
  PROVE  analysis_is_terminal(state) <=> state \in {"CANCELED", "SUCCEEDED", "PARTIAL", "FAILED"}
BY DEF analysis_is_terminal, ANALYSIS_TRANSITIONS, AnalysisState

LEMMA ProgressType ==
  ASSUME NEW done
  PROVE  progress_from_stages(done) \in 40..100
BY DEF progress_from_stages

LEMMA OutcomeType ==
  ASSUME NEW run
  PROVE  Outcome(run) \in {"SUCCEEDED", "PARTIAL"}
BY DEF Outcome

\* What set_analysis_state leaves is a row.
LEMMA SetType ==
  ASSUME DocTypes, NEW state \in AnalysisState, NEW progress \in 0..100,
         SetFromRunning(state, progress)
  PROVE  analysis' \in [state : AnalysisState, progress : 0..100]
BY DEF DocTypes, SetFromRunning

LEMMA BackType ==
  ASSUME DocTypes, NEW w \in Worker, Back(w)
  PROVE  /\ pc' \in [Worker -> WorkPc \cup {"idle"}]
         /\ local' \in [Worker -> Frames]
<1>1. NoFrame \in Frames
  BY DEF DocTypes, Frames, Summaries, NoFrame, Frame, NoSummary
<1> QED BY <1>1 DEF Back, Goto, DocTypes

LEMMA GotoType ==
  ASSUME DocTypes, NEW w \in Worker, NEW p \in WorkPc, Goto(w, p)
  PROVE  pc' \in [Worker -> WorkPc \cup {"idle"}]
BY DEF DocTypes, Goto

LEMMA FaultType ==
  ASSUME DocTypes, Fault \/ NoFault
  PROVE  faults' \in Nat
BY DEF DocTypes, Fault, NoFault

LEMMA BeginType ==
  ASSUME DocTypes, NEW w \in Worker, NEW s \in LateStage, Begin(w, s)
  PROVE  /\ made' \in Nat /\ made <= made'
         /\ stage' \in [LateStage -> StageState]
         /\ holder' \in [LateStage -> Worker \cup {Nobody}]
         /\ pc' \in [Worker -> WorkPc \cup {"idle"}]
         /\ local' \in [Worker -> Frames']
<1>1. made' \in Nat /\ made <= made' /\ (s = "report" => made' = made + 1)
  BY DEF Begin, DocTypes
<1>2. stage' \in [LateStage -> StageState] /\ holder' \in [LateStage -> Worker \cup {Nobody}]
  BY DEF Begin, DocTypes, StageState
<1>3. pc' \in [Worker -> WorkPc \cup {"idle"}]
  BY GotoType DEF Begin, WorkPc, ReportPc, AggregatePc
<1>4. Frames \subseteq Frames'
  BY <1>1 DEF Frames, Summaries, DocTypes
<1>5. Frame(s, IF s = "report" THEN made + 1 ELSE None) \in Frames'
  BY <1>1 DEF Frame, Frames, Summaries, NoSummary, DocTypes
<1>6. local' \in [Worker -> Frames']
  BY <1>4, <1>5 DEF Begin, DocTypes
<1> QED BY <1>1, <1>2, <1>3, <1>6

\* A larger bound on the runs keeps the types.
LEMMA TypesGrow ==
  ASSUME DocTypes, made' \in Nat, made <= made'
  PROVE  /\ Frames \subseteq Frames' /\ Summaries \subseteq Summaries'
         /\ 0..made \subseteq 0..made'
         /\ files \in [Key -> 0..made'] /\ artifacts \in [Key -> 0..made']
         /\ shots \in 0..made' /\ summary \in Summaries'
BY DEF DocTypes, Frames, Summaries

LEMMA StageTypes ==
  ASSUME DocTypes, NEW w \in Worker,
         (\E s \in LateStage : Take(w, s) \/ Overtake(w, s))
  PROVE  DocTypes' /\ made <= made'
<1>1. PICK s \in LateStage : Take(w, s) \/ Overtake(w, s)
  OBVIOUS
<1>2. Begin(w, s)
  BY <1>1 DEF Take, Overtake
<1>3. /\ made' \in Nat /\ made <= made' /\ pc' \in [Worker -> WorkPc \cup {"idle"}]
      /\ stage' \in [LateStage -> StageState] /\ holder' \in [LateStage -> Worker \cup {Nobody}]
      /\ local' \in [Worker -> Frames']
  BY <1>2, BeginType
<1>4. UNCHANGED << analysis, storeVars, aggregated, canceling, cancels >>
  BY <1>2 DEF Begin
<1>5. faults' \in Nat /\ overrun' \in BOOLEAN
  BY <1>1, FaultType DEF Take, Overtake, DocTypes
<1> QED BY <1>3, <1>4, <1>5, TypesGrow DEF DocTypes

LEMMA EndTypes ==
  ASSUME DocTypes, NEW w \in Worker,
         \/ \E s \in LateStage : Refused(w, s)
         \/ HonorCancel(w) \/ Complete(w) \/ WorkFails(w) \/ Mismatch(w) \/ Crash(w)
  PROVE  DocTypes' /\ made' = made
<1>1. "FAILED" \in AnalysisState /\ "CANCELED" \in AnalysisState
  BY DEF AnalysisState
<1>2. {"CANCELED", "SUCCEEDED", "FAILED_TERMINAL", "PENDING"} \subseteq StageState
  BY DEF StageState
<1>3. analysis.progress \in 0..100 /\ analysis.state \in AnalysisState
  BY DEF DocTypes
<1>4. CASE \E s \in LateStage : Refused(w, s)
  <2>1. PICK s \in LateStage : Refused(w, s)
    BY <1>4
  <2>2. analysis' \in [state : AnalysisState, progress : 0..100]
    BY <2>1, <1>1, <1>3, SetType DEF Refused
  <2>3. aggregated' \in BOOLEAN
    BY <2>1 DEF Refused, DocTypes
  <2>4. faults' \in Nat
    BY <2>1, FaultType DEF Refused
  <2> QED BY <2>1, <2>2, <2>3, <2>4 DEF Refused, DocTypes, Frames, Summaries
<1>5. CASE HonorCancel(w)
  <2>1. /\ pc' \in [Worker -> WorkPc \cup {"idle"}] /\ local' \in [Worker -> Frames] /\ faults' \in Nat
    BY <1>5, BackType, FaultType DEF HonorCancel
  <2>2. analysis' \in [state : AnalysisState, progress : 0..100]
    BY <1>5, <1>1 DEF HonorCancel, DocTypes
  <2>3. stage' \in [LateStage -> StageState] /\ holder' \in [LateStage -> Worker \cup {Nobody}]
    BY <1>5, <1>2 DEF HonorCancel, DocTypes
  <2>4. aggregated' \in BOOLEAN
    BY <1>5 DEF HonorCancel, DocTypes
  <2> QED BY <1>5, <2>1, <2>2, <2>3, <2>4 DEF HonorCancel, DocTypes, Frames, Summaries
<1>6. CASE Complete(w)
  <2>1. /\ pc' \in [Worker -> WorkPc \cup {"idle"}] /\ local' \in [Worker -> Frames] /\ faults' \in Nat
    BY <1>6, BackType, FaultType DEF Complete
  <2>2. stage' \in [LateStage -> StageState] /\ holder' \in [LateStage -> Worker \cup {Nobody}]
    BY <1>6, <1>2 DEF Complete, DocTypes
  <2>3. aggregated' \in BOOLEAN
    BY <1>6 DEF Complete, DocTypes
  <2> QED BY <1>6, <2>1, <2>2, <2>3 DEF Complete, DocTypes, Frames, Summaries
<1>7. ASSUME FailTerminal(w), Fault \/ NoFault PROVE DocTypes' /\ made' = made
  <2>1. /\ pc' \in [Worker -> WorkPc \cup {"idle"}] /\ local' \in [Worker -> Frames] /\ faults' \in Nat
    BY <1>7, BackType, FaultType DEF FailTerminal
  <2>2. stage' \in [LateStage -> StageState] /\ holder' \in [LateStage -> Worker \cup {Nobody}]
    BY <1>7, <1>2 DEF FailTerminal, DocTypes
  <2>3. analysis' \in [state : AnalysisState, progress : 0..100]
    BY <1>7, <1>1, <1>3, SetType DEF FailTerminal
  <2> QED BY <1>7, <2>1, <2>2, <2>3 DEF FailTerminal, DocTypes, Frames, Summaries
<1>8. CASE WorkFails(w) /\ ~FailTerminal(w)
  <2>1. /\ pc' \in [Worker -> WorkPc \cup {"idle"}] /\ local' \in [Worker -> Frames] /\ faults' \in Nat
    BY <1>8, BackType, FaultType DEF WorkFails
  <2>2. stage' \in [LateStage -> StageState] /\ holder' \in [LateStage -> Worker \cup {Nobody}]
    BY <1>8, <1>2 DEF WorkFails, DocTypes
  <2> QED BY <1>8, <2>1, <2>2 DEF WorkFails, DocTypes, Frames, Summaries
<1>9. CASE Crash(w)
  <2>1. /\ pc' \in [Worker -> WorkPc \cup {"idle"}] /\ local' \in [Worker -> Frames] /\ faults' \in Nat
    BY <1>9, BackType, FaultType DEF Crash
  <2> QED BY <1>9, <2>1 DEF Crash, DocTypes, Frames, Summaries
<1> QED BY <1>4, <1>5, <1>6, <1>7, <1>8, <1>9 DEF WorkFails, Mismatch

LEMMA WorkTypes ==
  ASSUME DocTypes, NEW w \in Worker,
         \/ Measure(w) \/ Unlink(w) \/ Put(w) \/ Record(w)
         \/ Find(w) \/ FindNothing(w) \/ SaveShots(w) \/ SaveSummary(w) \/ Settle(w)
  PROVE  DocTypes' /\ made' = made
<1>1. {"unlink", "put", "record", "shots", "summary", "settle", "complete"} \subseteq WorkPc
  BY DEF WorkPc, ReportPc, AggregatePc
<1>2. /\ faults' \in Nat
      /\ UNCHANGED << stage, holder, cancels, canceling, overrun, made, aggregated >>
  BY FaultType DEF Measure, Unlink, Put, Record, InReport, Find, FindNothing, SaveShots,
                   SaveSummary, Settle, InAggregate
<1>3. local[w] \in Frames
  BY DEF DocTypes
<1>4. ASSUME pc' \in [Worker -> WorkPc \cup {"idle"}], local' \in [Worker -> Frames],
             files' \in [Key -> 0..made], artifacts' \in [Key -> 0..made],
             analysis' \in [state : AnalysisState, progress : 0..100],
             shots' \in 0..made, summary' \in Summaries
      PROVE  DocTypes' /\ made' = made
  BY <1>2, <1>4 DEF DocTypes, Frames, Summaries
<1>5. CASE Measure(w) \/ Unlink(w) \/ Put(w)
  <2>1. pc' \in [Worker -> WorkPc \cup {"idle"}]
    BY <1>1, <1>5, GotoType DEF Measure, Unlink, Put
  <2>2. files' \in [Key -> 0..made]
    BY <1>3, <1>5 DEF Measure, Unlink, Put, DocTypes, Frames
  <2> QED BY <1>4, <1>5, <2>1, <2>2 DEF Measure, Unlink, Put, InReport, DocTypes
<1>6. CASE Record(w)
  <2>1. pc' \in [Worker -> WorkPc \cup {"idle"}]
    BY <1>1, <1>6, GotoType DEF Record
  <2>2. artifacts' \in [Key -> 0..made]
    BY <1>3, <1>6 DEF Record, insert_artifact, DocTypes, Frames
  <2>3. local' \in [Worker -> Frames]
    BY <1>3, <1>6 DEF Record, DocTypes, Frames
  <2> QED BY <1>4, <1>6, <2>1, <2>2, <2>3 DEF Record, InReport, DocTypes
<1>7. After("find") = "shots" /\ After("shots") = "summary"
      /\ After("summary") = "settle" /\ After("settle") = "complete"
  BY DEF After, AggregateSteps
<1>8. CASE Find(w)
  <2>1. pc' \in [Worker -> WorkPc \cup {"idle"}]
    BY <1>1, <1>7, <1>8, GotoType DEF Find
  <2>2. local' \in [Worker -> Frames]
    BY <1>3, <1>8 DEF Find, DocTypes, Frames, Summaries
  <2> QED BY <1>4, <1>8, <2>1, <2>2 DEF Find, InAggregate, DocTypes
<1>9. CASE FindNothing(w)
  <2>1. pc' \in [Worker -> WorkPc \cup {"idle"}]
    BY <1>1, <1>9, GotoType DEF FindNothing
  <2>2. analysis' \in [state : AnalysisState, progress : 0..100]
    <3>1. "FAILED" \in AnalysisState /\ progress_from_stages(Completed) \in 0..100
      BY ProgressType DEF AnalysisState
    <3> QED BY <1>9, <3>1, SetType DEF FindNothing
  <2> QED BY <1>4, <1>9, <2>1, <2>2 DEF FindNothing, InAggregate, DocTypes
<1>10. CASE SaveShots(w) \/ SaveSummary(w)
  <2>1. pc' \in [Worker -> WorkPc \cup {"idle"}]
    BY <1>1, <1>7, <1>10, GotoType DEF SaveShots, SaveSummary
  <2>2. shots' \in 0..made /\ summary' \in Summaries
    BY <1>3, <1>10 DEF SaveShots, SaveSummary, DocTypes, Frames
  <2> QED BY <1>4, <1>10, <2>1, <2>2 DEF SaveShots, SaveSummary, InAggregate, DocTypes
<1>11. CASE Settle(w)
  <2>1. pc' \in [Worker -> WorkPc \cup {"idle"}]
    BY <1>1, <1>7, <1>11, GotoType DEF Settle
  <2>2. analysis' \in [state : AnalysisState, progress : 0..100]
    <3>1. Outcome(local[w].run) \in AnalysisState /\ 100 \in 0..100
      BY OutcomeType DEF AnalysisState
    <3> QED BY <1>11, <3>1, SetType DEF Settle
  <2> QED BY <1>4, <1>11, <2>1, <2>2 DEF Settle, InAggregate, DocTypes
<1> QED BY <1>5, <1>6, <1>8, <1>9, <1>10, <1>11

LEMMA DocTypesNext ==
  ASSUME DocTypes, DocNext
  PROVE  DocTypes' /\ made <= made'
<1>1. CASE CancelRead \/ CancelWrite
  <2>1. "CANCEL_REQUESTED" \in AnalysisState
    BY DEF AnalysisState
  <2>2. CASE CancelRead
    BY <2>2 DEF CancelRead, DocTypes, Frames, Summaries
  <2>3. CASE CancelWrite
    <3>1. analysis' \in [state : AnalysisState, progress : 0..100]
      BY <2>1, <2>3 DEF CancelWrite, DocTypes
    <3>2. /\ canceling' = FALSE
          /\ UNCHANGED << stage, holder, storeVars, pc, local, made, aggregated, cancels, faults, overrun >>
      BY <2>3 DEF CancelWrite
    <3>3. made' = made /\ canceling' \in BOOLEAN /\ aggregated' \in BOOLEAN /\ overrun' \in BOOLEAN
      BY <3>2 DEF DocTypes
    <3>4. Frames' = Frames /\ Summaries' = Summaries /\ made <= made'
      BY <3>3 DEF Frames, Summaries, DocTypes
    <3> QED BY <3>1, <3>2, <3>3, <3>4 DEF DocTypes
  <2> QED BY <1>1, <2>2, <2>3
<1>2. CASE \E w \in Worker : DocStep(w) \/ DocFault(w)
  <2>1. PICK w \in Worker : DocStep(w) \/ DocFault(w)
    BY <1>2
  <2>2. made \in Nat
    BY DEF DocTypes
  <2> QED BY <2>1, <2>2, StageTypes, EndTypes, WorkTypes DEF DocStep, DocFault
<1> QED BY <1>1, <1>2 DEF DocNext

\* Of the rows of a report there is a newest.
LEMMA NewestKnown ==
  ASSUME Len(critiques) \in Nat, NEW of, get_critique_by_identity(of) # {}
  PROVE  Max(get_critique_by_identity(of)) \in get_critique_by_identity(of)
<1> DEFINE known == get_critique_by_identity(of)
           above == {n \in Nat : Len(critiques) - n \in known}
<1>1. known \subseteq 1..Len(critiques)
  BY DEF get_critique_by_identity
<1>2. above \subseteq Nat /\ above # {}
  <2>1. PICK i \in known : TRUE
    OBVIOUS
  <2>2. i \in 1..Len(critiques)
    BY <1>1, <2>1
  <2>3. Len(critiques) - i \in Nat /\ Len(critiques) - (Len(critiques) - i) = i
    BY <2>2
  <2> QED BY <2>1, <2>3
<1>3. PICK n \in above : \A k \in above : ~(<< k, n >> \in OpToRel(<, Nat))
  BY <1>2, NatLessThanWellFounded, WFMin
<1>4. ASSUME NEW k \in above PROVE n <= k
  <2>1. n \in Nat /\ k \in Nat
    BY <1>2
  <2>2. k < n => << k, n >> \in OpToRel(<, Nat)
    BY <2>1 DEF OpToRel
  <2>3. ~(k < n)
    BY <1>3, <2>2, Zenon
  <2> QED BY <2>1, <2>3
<1>5. ASSUME NEW i \in known PROVE Len(critiques) - n >= i
  <2>1. i \in 1..Len(critiques) /\ Len(critiques) - (Len(critiques) - i) = i
    BY <1>1, <1>5
  <2>2. Len(critiques) - i \in above
    BY <1>5, <2>1
  <2>3. n \in Nat /\ n <= Len(critiques) - i
    BY <1>2, <1>4, <2>2
  <2> QED BY <2>1, <2>3
<1>6. Len(critiques) - n \in known /\ \A i \in known : Len(critiques) - n >= i
  BY <1>3, <1>5
<1> HIDE DEF known
<1>7. Max(known) \in known
  BY <1>6 DEF Max
<1> QED BY <1>7 DEF known

LEMMA CriticTypesNext ==
  ASSUME TypeInv, NEW c \in Critic, CriticStep(c) \/ Redeliver(c)
  PROVE  DocTypes' /\ CriticTypes' /\ made' = made
<1>1. DocTypes' /\ made' = made
  BY FaultType DEF TypeInv, DocTypes, CriticStep, docVars, Redeliver, Frames, Summaries
<1>2. /\ Len(critiques) \in Nat /\ critic[c] \in CriticFrames /\ critic[c].since \in Nat
      /\ critic[c].of \in 0..made /\ made \in Nat /\ files["report"] \in 0..made
  BY DEF TypeInv, CriticTypes, DocTypes, CriticFrames
<1>3. ASSUME critic' \in [Critic -> CriticFrames], critiques' \in Seq(CritiqueRow),
             \A d \in Critic : critic'[d].since <= Len(critiques')
      PROVE  DocTypes' /\ CriticTypes' /\ made' = made
  BY <1>1, <1>3 DEF CriticTypes, CriticFrames
<1>4. critic \in [Critic -> CriticFrames] /\ critiques \in Seq(CritiqueRow)
      /\ \A d \in Critic : critic[d].since \in Nat /\ critic[d].since <= Len(critiques)
  BY DEF TypeInv, CriticTypes, CriticFrames
<1>5. ASSUME NEW frame \in CriticFrames, critic' = [critic EXCEPT ![c] = frame],
             frame.since <= Len(critiques), critiques' = critiques
      PROVE  DocTypes' /\ CriticTypes' /\ made' = made
  BY <1>3, <1>4, <1>5
<1>6. CASE Redeliver(c)
  <2>1. NoCritic \in CriticFrames /\ NoCritic.since = 0
    BY <1>2 DEF NoCritic, NoCritique, CriticFrames
  <2>2. critic' = [critic EXCEPT ![c] = NoCritic] /\ critiques' = critiques
    BY <1>6 DEF Redeliver
  <2>3. NoCritic.since <= Len(critiques)
    BY <1>2, <2>1
  <2> QED BY <1>5, <2>1, <2>2, <2>3
<1>7. ASSUME NEW answer \in [of : Nat, status : {"OK", "FAILED"}], Ends(c, answer)
      PROVE  /\ critic' = [critic EXCEPT ![c] = [critic[c] EXCEPT !.pc = "ended", !.answer = answer]]
             /\ [critic[c] EXCEPT !.pc = "ended", !.answer = answer] \in CriticFrames
             /\ [critic[c] EXCEPT !.pc = "ended", !.answer = answer].since = critic[c].since
  BY <1>2, <1>4, <1>7 DEF Ends, CriticFrames
<1>8. CASE ReadReport(c)
  <2>1. CASE Ends(c, NoCritique)
    <3>1. NoCritique \in [of : Nat, status : {"OK", "FAILED"}]
      BY DEF NoCritique
    <3> QED BY <1>4, <1>5, <1>7, <1>8, <2>1, <3>1 DEF ReadReport
  <2>2. CASE critic' = [critic EXCEPT ![c].pc = "lookup", ![c].of = files["report"]]
    <3> DEFINE frame == [critic[c] EXCEPT !.pc = "lookup", !.of = files["report"]]
    <3>1. frame \in CriticFrames /\ frame.since = critic[c].since
      BY <1>2 DEF CriticFrames
    <3>2. critic' = [critic EXCEPT ![c] = frame]
      BY <1>4, <2>2
    <3> QED BY <1>4, <1>5, <1>8, <3>1, <3>2 DEF ReadReport
  <2> QED BY <1>8, <2>1, <2>2 DEF ReadReport
<1>9. CASE LookUp(c)
  <2>1. CASE get_critique_by_identity(critic[c].of) # {}
    <3>1. Max(get_critique_by_identity(critic[c].of)) \in get_critique_by_identity(critic[c].of)
      BY <1>2, <2>1, NewestKnown
    <3> DEFINE row == critiques[Max(get_critique_by_identity(critic[c].of))]
    <3>2. row \in CritiqueRow
      BY <1>4, <3>1 DEF get_critique_by_identity
    <3>3. Ends(c, [of |-> row.of, status |-> row.status])
      BY <1>9, <2>1 DEF LookUp
    <3>4. [of |-> row.of, status |-> row.status] \in [of : Nat, status : {"OK", "FAILED"}]
      BY <3>2 DEF CritiqueRow
    <3> QED BY <1>4, <1>5, <1>7, <1>9, <3>3, <3>4 DEF LookUp
  <2>2. CASE get_critique_by_identity(critic[c].of) = {}
    <3> DEFINE frame == [critic[c] EXCEPT !.pc = "model", !.since = Len(critiques)]
    <3>1. frame \in CriticFrames /\ frame.since = Len(critiques)
      BY <1>2 DEF CriticFrames
    <3>3. frame.since <= Len(critiques)
      BY <1>2, <3>1
    <3>2. critic' = [critic EXCEPT ![c] = frame]
      BY <1>4, <1>9, <2>2 DEF LookUp
    <3> HIDE DEF frame
    <3> QED BY <1>5, <1>9, <3>1, <3>2, <3>3 DEF LookUp
  <2> QED BY <2>1, <2>2
<1>10. CASE SaveCritique(c)
  <2>1. PICK first \in Answer, second \in Answer :
          LET row == [of |-> critic[c].of, status |-> run_critique(<< first, second >>),
                      since |-> critic[c].since]
          IN  /\ critiques' = Append(critiques, row)
              /\ Ends(c, [of |-> row.of, status |-> row.status])
    BY <1>10 DEF SaveCritique
  <2> DEFINE row == [of |-> critic[c].of, status |-> run_critique(<< first, second >>),
                     since |-> critic[c].since]
  <2>2. row \in CritiqueRow
    BY <1>2 DEF CritiqueRow, run_critique
  <2>3. critiques' = Append(critiques, row) /\ Ends(c, [of |-> row.of, status |-> row.status])
    BY <2>1
  <2>4. [of |-> row.of, status |-> row.status] \in [of : Nat, status : {"OK", "FAILED"}]
    BY <2>2 DEF CritiqueRow
  <2> HIDE DEF row
  <2>5. critiques' \in Seq(CritiqueRow) /\ Len(critiques') = Len(critiques) + 1
    BY <1>4, <2>2, <2>3
  <2> DEFINE frame == [critic[c] EXCEPT !.pc = "ended", !.answer = [of |-> row.of, status |-> row.status]]
  <2>6. critic' = [critic EXCEPT ![c] = frame] /\ frame \in CriticFrames /\ frame.since = critic[c].since
    BY <1>7, <2>3, <2>4
  <2> HIDE DEF frame
  <2>7. critic' \in [Critic -> CriticFrames]
    BY <1>4, <2>6
  <2>8. ASSUME NEW d \in Critic PROVE critic'[d].since <= Len(critiques')
    BY <1>2, <1>4, <2>5, <2>6
  <2> QED BY <1>3, <2>5, <2>7, <2>8
<1> QED BY <1>6, <1>8, <1>9, <1>10 DEF CriticStep

LEMMA ServedType ==
  ASSUME DocTypes, NEW key \in Key
  PROVE  Served(key) \in 0..made
BY DEF Served, DocTypes

LEMMA SessionTypesNext ==
  ASSUME TypeInv, SessionStep \/ Unreachable
  PROVE  TypeInv'
<1>1. DocTypes' /\ made' = made /\ critic' = critic /\ critiques' = critiques
  <2>1. CASE SessionStep
    BY <2>1 DEF SessionStep, PollJob, PollSummary, PollRuns, GetReport, GetCritique, GetShot,
                GetTimeline, Shows, docVars, criticVars, TypeInv, DocTypes, Frames, Summaries
  <2>2. CASE Unreachable
    <3>1. faults' \in Nat
      BY <2>2, FaultType DEF Unreachable, TypeInv
    <3> QED BY <2>2, <3>1 DEF Unreachable, criticVars, TypeInv, DocTypes, Frames, Summaries
  <2> QED BY <2>1, <2>2
<1>2. session \in Pages /\ analysis \in [state : AnalysisState, progress : 0..100]
      /\ summary.of \in 0..made /\ made \in Nat
  BY DEF TypeInv, SessionTypes, DocTypes, Summaries
<1>3. /\ Served("report") \in 0..made /\ Served("timeline") \in 0..made
      /\ progress_from_stages(Completed) \in 0..100 /\ Completed \subseteq LateStage
  BY ServedType, ProgressType DEF TypeInv, Completed
<1>4. session' \in Pages
  <2>1. CASE PollJob
    BY <1>2, <2>1 DEF PollJob, Pages, SessionPc
  <2>2. CASE PollSummary
    BY <1>2, <2>2 DEF PollSummary, Pages, SessionPc
  <2>3. CASE PollRuns
    <3> DEFINE status == build_status(session.job, session.of, Completed)
    <3>1. status \in Statuses
      BY <1>2, <1>3 DEF build_status, Statuses, Pages
    <3>2. session'.pc \in SessionPc
      BY <1>2, <2>3 DEF PollRuns, Pages, SessionPc
    <3>3. [state |-> "QUEUED", progress |-> 0] \in [state : AnalysisState, progress : 0..100]
      BY DEF AnalysisState
    <3> HIDE DEF status
    <3>4. \E next \in SessionPc :
             session' = [session EXCEPT !.pc = next, !.status = status,
                                        !.job = [state |-> "QUEUED", progress |-> 0], !.of = None]
      BY <1>2, <2>3, <3>2 DEF PollRuns, Pages, status
    <3>5. PICK next \in SessionPc :
             session' = [session EXCEPT !.pc = next, !.status = status,
                                        !.job = [state |-> "QUEUED", progress |-> 0], !.of = None]
      BY <3>4
    <3>6. None \in 0..made
      BY <1>2
    <3> DEFINE fresh == [state |-> "QUEUED", progress |-> 0]
    <3>7. fresh \in [state : AnalysisState, progress : 0..100]
      BY <3>3
    <3>8. session' = [session EXCEPT !.pc = next, !.status = status, !.job = fresh, !.of = None]
      BY <3>5
    <3> HIDE DEF fresh
    <3> QED BY <1>2, <3>1, <3>6, <3>7, <3>8 DEF Pages
  <2>4. CASE GetReport \/ GetShot \/ GetTimeline
    BY <1>2, <1>3, <2>4 DEF GetReport, GetShot, GetTimeline, Pages, SessionPc
  <2>5. CASE GetCritique
    <3>1. ASSUME critiques # << >> PROVE critiques[Len(critiques)].of \in Nat
      <4>1. critiques \in Seq(CritiqueRow) /\ Len(critiques) \in 1..Len(critiques)
        BY <3>1 DEF TypeInv, CriticTypes
      <4>2. critiques[Len(critiques)] \in CritiqueRow
        BY <4>1
      <4> QED BY <4>2 DEF CritiqueRow
    <3> QED BY <1>2, <2>5, <3>1 DEF GetCritique, Pages, SessionPc
  <2>6. CASE Unreachable
    BY <1>2, <2>6 DEF Unreachable, Pages, SessionPc
  <2> QED BY <2>1, <2>2, <2>3, <2>4, <2>5, <2>6 DEF SessionStep
<1>5. Pages' = Pages /\ CriticFrames' = CriticFrames
  BY <1>1 DEF Pages, Statuses, CriticFrames
<1> QED BY <1>1, <1>4, <1>5 DEF TypeInv, CriticTypes, SessionTypes

LEMMA TypeNext == TypeInv /\ [Next]_allVars => TypeInv'
<1> SUFFICES ASSUME TypeInv, [Next]_allVars PROVE TypeInv'
  OBVIOUS
<1>1. ASSUME made' \in Nat, made <= made', DocTypes',
             UNCHANGED << criticVars, session >>
      PROVE  TypeInv'
  <2>1. Pages \subseteq Pages' /\ CriticFrames \subseteq CriticFrames'
    BY <1>1 DEF Pages, Statuses, CriticFrames, TypeInv, DocTypes
  <2> QED BY <1>1, <2>1 DEF TypeInv, CriticTypes, SessionTypes, criticVars
<1>2. CASE DocNext /\ UNCHANGED << criticVars, session >>
  <2>1. DocTypes' /\ made <= made' /\ made' \in Nat
    BY <1>2, DocTypesNext DEF TypeInv, DocTypes
  <2> QED BY <1>1, <1>2, <2>1
<1>3. CASE (\E c \in Critic : CriticStep(c) \/ Redeliver(c)) /\ UNCHANGED session
  <2>1. DocTypes' /\ CriticTypes' /\ made' = made
    BY <1>3, CriticTypesNext
  <2> QED BY <1>3, <2>1 DEF TypeInv, SessionTypes, Pages, Statuses
<1>4. CASE SessionStep \/ Unreachable
  BY <1>4, SessionTypesNext
<1>5. CASE UNCHANGED allVars
  <2>1. DocTypes' /\ made' = made
    BY <1>5 DEF allVars, docVars, TypeInv, DocTypes, Frames, Summaries
  <2> QED BY <1>1, <1>5, <2>1 DEF allVars, TypeInv, DocTypes
<1> QED BY <1>2, <1>3, <1>4, <1>5 DEF Next

LEMMA TypeInit == Init => TypeInv
<1> SUFFICES ASSUME Init PROVE TypeInv
  OBVIOUS
<1>1. DocTypes
  <2>1. NoSummary \in Summaries /\ NoFrame \in Frames
    BY DEF Init, DocInit, Summaries, Frames, NoSummary, NoFrame, Frame
  <2>2. /\ analysis \in [state : AnalysisState, progress : 0..100]
        /\ stage \in [LateStage -> StageState] /\ holder \in [LateStage -> Worker \cup {Nobody}]
    BY DEF Init, DocInit, AnalysisState, StageState
  <2>3. /\ made = 0 /\ shots = 0 /\ cancels = 0 /\ faults = 0
        /\ aggregated = FALSE /\ canceling = FALSE /\ overrun = FALSE
    BY DEF Init, DocInit
  <2>4. files \in [Key -> 0..made] /\ artifacts \in [Key -> 0..made]
    BY <2>3 DEF Init, DocInit
  <2>5. summary \in Summaries /\ pc \in [Worker -> WorkPc \cup {"idle"}] /\ local \in [Worker -> Frames]
    BY <2>1 DEF Init, DocInit
  <2>6. aggregated \in BOOLEAN /\ canceling \in BOOLEAN /\ overrun \in BOOLEAN
    BY <2>3, Zenon
  <2>7. shots \in 0..made /\ made \in Nat /\ cancels \in Nat /\ faults \in Nat
    BY <2>3
  <2> QED BY <2>2, <2>4, <2>5, <2>6, <2>7 DEF DocTypes
<1>2. CriticTypes
  <2>1. NoCritic \in CriticFrames /\ NoCritic.since = 0
    BY <1>1 DEF CriticFrames, NoCritic, NoCritique, DocTypes
  <2> QED BY <2>1 DEF Init, CriticInit, CriticTypes
<1>3. SessionTypes
  <2>1. NoStatus \in Statuses
    BY <1>1 DEF Statuses, NoStatus, AnalysisState, DocTypes
  <2> QED BY <1>1, <2>1 DEF Init, SessionInit, SessionTypes, Pages, SessionPc, AnalysisState, DocTypes
<1> QED BY <1>1, <1>2, <1>3 DEF TypeInv

LEMMA TypeInvariance == Spec => []TypeInv
<1> QED BY TypeInit, TypeNext, PTL DEF Spec

\* Every file, row, summary and frame names a run that has been begun, and a page
\* shows a progress in percent (_run_leased_stage, _finalize_report, get_analysis).
THEOREM SessionTypeCorrect == Spec => []DocTypeOK
<1>1. ASSUME TypeInv PROVE DocTypeOK
  <2>1. ASSUME NEW c \in Critic PROVE critic[c].since \in 0..Len(critiques) /\ critic[c].of \in 0..made
    <3>1. critic[c] \in CriticFrames /\ Len(critiques) \in Nat /\ critic[c].since <= Len(critiques)
      BY <1>1 DEF TypeInv, CriticTypes
    <3> QED BY <3>1 DEF CriticFrames
  <2>2. session.pc \in SessionPc /\ session.status.progress \in 0..100
    BY <1>1 DEF TypeInv, SessionTypes, Pages, Statuses
  <2> QED BY <1>1, <2>1, <2>2 DEF TypeInv, DocTypes, CriticTypes, Frames, Summaries, DocTypeOK
<1> QED BY <1>1, TypeInvariance, PTL

-----------------------------------------------------------------------------
(* Critiques.                                                              *)

\* A critic that asks the model has seen the rows there were, and none of them is
\* of its document; two rows of one document were looked for side by side; an
\* answer is of the document its critic has read.
CriticsKnow ==
  /\ \A c \in Critic : critic[c].pc = "model" =>
       \A i \in 1..Len(critiques) : critiques[i].of = critic[c].of => critic[c].since < i
  /\ DuplicatesOverlap
  /\ CritiqueIsOfReport

\* A step that leaves the rows alone and moves one critic.
LEMMA CriticMoves ==
  ASSUME TypeInv, CriticsKnow, NEW c \in Critic, NEW frame,
         critic' = [critic EXCEPT ![c] = frame], critiques' = critiques,
         frame.pc = "model" =>
           \A i \in 1..Len(critiques) : critiques[i].of = frame.of => frame.since < i,
         frame.pc = "ended" /\ frame.answer.of # None => frame.answer.of = frame.of
  PROVE  CriticsKnow'
<1>1. critic'[c] = frame /\ \A d \in Critic \ {c} : critic'[d] = critic[d]
  BY DEF TypeInv, CriticTypes
<1> QED BY <1>1 DEF CriticsKnow, DuplicatesOverlap, CritiqueIsOfReport

LEMMA CriticsKnowStep ==
  ASSUME TypeInv, CriticsKnow, NEW c \in Critic, CriticStep(c) \/ Redeliver(c)
  PROVE  CriticsKnow'
<1>1. /\ Len(critiques) \in Nat /\ critic[c] \in CriticFrames
      /\ critic \in [Critic -> CriticFrames] /\ critiques \in Seq(CritiqueRow)
  BY DEF TypeInv, CriticTypes
<1>2. ASSUME NEW answer, Ends(c, answer), critiques' = critiques,
             answer.of # None => answer.of = critic[c].of
      PROVE  CriticsKnow'
  <2> DEFINE frame == [critic[c] EXCEPT !.pc = "ended", !.answer = answer]
  <2>1. /\ critic' = [critic EXCEPT ![c] = frame]
        /\ frame.pc = "ended" /\ frame.answer = answer /\ frame.of = critic[c].of
    BY <1>1, <1>2 DEF Ends, CriticFrames
  <2> HIDE DEF frame
  <2> QED BY <1>2, <2>1, CriticMoves
<1>3. CASE Redeliver(c)
  <2>1. critic' = [critic EXCEPT ![c] = NoCritic] /\ critiques' = critiques /\ NoCritic.pc = "waiting"
    BY <1>3 DEF Redeliver, NoCritic
  <2> QED BY <2>1, CriticMoves
<1>4. CASE ReadReport(c)
  <2>1. CASE Ends(c, NoCritique)
    <3>1. NoCritique.of = None
      BY DEF NoCritique
    <3> QED BY <1>2, <1>4, <2>1, <3>1 DEF ReadReport
  <2>2. CASE critic' = [critic EXCEPT ![c].pc = "lookup", ![c].of = files["report"]]
    <3> DEFINE frame == [critic[c] EXCEPT !.pc = "lookup", !.of = files["report"]]
    <3>1. critic' = [critic EXCEPT ![c] = frame] /\ frame.pc = "lookup"
      BY <1>1, <2>2 DEF CriticFrames
    <3> HIDE DEF frame
    <3> QED BY <1>4, <3>1, CriticMoves DEF ReadReport
  <2> QED BY <1>4, <2>1, <2>2 DEF ReadReport
<1>5. CASE LookUp(c)
  <2>1. CASE get_critique_by_identity(critic[c].of) # {}
    <3>1. Max(get_critique_by_identity(critic[c].of)) \in get_critique_by_identity(critic[c].of)
      BY <1>1, <2>1, NewestKnown
    <3> DEFINE row == critiques[Max(get_critique_by_identity(critic[c].of))]
    <3>2. row.of = critic[c].of
      BY <3>1 DEF get_critique_by_identity
    <3>3. Ends(c, [of |-> row.of, status |-> row.status])
      BY <1>5, <2>1 DEF LookUp
    <3> QED BY <1>2, <1>5, <3>2, <3>3 DEF LookUp
  <2>2. CASE get_critique_by_identity(critic[c].of) = {}
    <3> DEFINE frame == [critic[c] EXCEPT !.pc = "model", !.since = Len(critiques)]
    <3>1. /\ critic' = [critic EXCEPT ![c] = frame]
          /\ frame.pc = "model" /\ frame.of = critic[c].of
      BY <1>1, <1>5, <2>2 DEF LookUp, CriticFrames
    <3>2. \A i \in 1..Len(critiques) : critiques[i].of # critic[c].of
      BY <2>2 DEF get_critique_by_identity
    <3> HIDE DEF frame
    <3> QED BY <1>5, <3>1, <3>2, CriticMoves DEF LookUp
  <2> QED BY <2>1, <2>2
<1>6. CASE SaveCritique(c)
  <2>1. PICK first \in Answer, second \in Answer :
          LET row == [of |-> critic[c].of, status |-> run_critique(<< first, second >>),
                      since |-> critic[c].since]
          IN  /\ critiques' = Append(critiques, row)
              /\ Ends(c, [of |-> row.of, status |-> row.status])
    BY <1>6 DEF SaveCritique
  <2> DEFINE row == [of |-> critic[c].of, status |-> run_critique(<< first, second >>),
                     since |-> critic[c].since]
             frame == [critic[c] EXCEPT !.pc = "ended", !.answer = [of |-> row.of, status |-> row.status]]
  <2>2. /\ critiques' = Append(critiques, row) /\ row.of = critic[c].of /\ row.since = critic[c].since
        /\ critic' = [critic EXCEPT ![c] = frame]
    BY <2>1 DEF Ends
  <2>3. frame.pc = "ended" /\ frame.answer.of = critic[c].of /\ frame.of = critic[c].of
    BY <1>1 DEF CriticFrames
  <2>4. critic[c].pc = "model" /\ critic[c].since \in Nat /\ critic[c].since <= Len(critiques)
    BY <1>1, <1>6 DEF SaveCritique, TypeInv, CriticTypes, CriticFrames
  <2> HIDE DEF row, frame
  <2>5. /\ Len(critiques') = Len(critiques) + 1 /\ critiques'[Len(critiques) + 1] = row
        /\ \A i \in 1..Len(critiques) : critiques'[i] = critiques[i]
    BY <1>1, <2>2
  <2>6. critic'[c] = frame /\ \A d \in Critic \ {c} : critic'[d] = critic[d]
    BY <1>1, <2>2
  <2>7. ASSUME NEW d \in Critic, critic'[d].pc = "model", NEW i \in 1..Len(critiques'),
               critiques'[i].of = critic'[d].of
        PROVE  critic'[d].since < i
    <3>1. d # c /\ critic'[d] = critic[d]
      BY <2>3, <2>6, <2>7
    <3>2. critic[d].since \in Nat /\ critic[d].since <= Len(critiques)
      BY DEF TypeInv, CriticTypes, CriticFrames
    <3>3. CASE i \in 1..Len(critiques)
      BY <2>5, <2>7, <3>1, <3>3 DEF CriticsKnow
    <3>4. CASE i = Len(critiques) + 1
      BY <1>1, <3>1, <3>2, <3>4
    <3> QED BY <1>1, <2>5, <3>3, <3>4
  <2>8. ASSUME NEW i \in 1..Len(critiques'), NEW j \in 1..Len(critiques'),
               i < j, critiques'[i].of = critiques'[j].of
        PROVE  critiques'[j].since < i
    <3>1. i \in 1..Len(critiques)
      BY <1>1, <2>5, <2>8
    <3>2. CASE j \in 1..Len(critiques)
      BY <2>5, <2>8, <3>1, <3>2 DEF CriticsKnow, DuplicatesOverlap
    <3>3. CASE j = Len(critiques) + 1
      BY <2>2, <2>4, <2>5, <2>8, <3>1, <3>3 DEF CriticsKnow
    <3> QED BY <1>1, <2>5, <3>2, <3>3
  <2>9. DuplicatesOverlap'
    BY <2>8 DEF DuplicatesOverlap
  <2>10. CritiqueIsOfReport'
    BY <2>3, <2>6 DEF CriticsKnow, CritiqueIsOfReport
  <2> QED BY <2>7, <2>9, <2>10 DEF CriticsKnow
<1> QED BY <1>3, <1>4, <1>5, <1>6 DEF CriticStep

LEMMA CriticsKnowInvariance == Spec => []CriticsKnow
<1>1. Init => CriticsKnow
  BY DEF Init, CriticInit, NoCritic, CriticsKnow, DuplicatesOverlap, CritiqueIsOfReport
<1>2. ASSUME CriticsKnow, UNCHANGED criticVars PROVE CriticsKnow'
  BY <1>2 DEF criticVars, CriticsKnow, DuplicatesOverlap, CritiqueIsOfReport
<1>3. ASSUME SessionStep \/ Unreachable PROVE UNCHANGED criticVars
  BY <1>3 DEF SessionStep, PollJob, PollSummary, PollRuns, GetReport, GetCritique, GetShot,
              GetTimeline, Shows, criticVars, Unreachable
<1>4. TypeInv /\ CriticsKnow /\ [Next]_allVars => CriticsKnow'
  BY <1>2, <1>3, CriticsKnowStep DEF Next, allVars, criticVars
<1> QED BY <1>1, <1>4, TypeInvariance, PTL DEF Spec

\* Two critiques of one document come only from critics that had both looked in vain
\* before either inserted, however many critics run and however often a command is
\* delivered (persist_critique_for_job).
THEOREM CritiquesOverlapOnly == Spec => []DuplicatesOverlap
<1> QED BY CriticsKnowInvariance, PTL DEF CriticsKnow

\* A critic answers about the document it has read (get_critique_by_identity,
\* save_critique).
THEOREM CritiquesOfTheirReport == Spec => []CritiqueIsOfReport
<1> QED BY CriticsKnowInvariance, PTL DEF CriticsKnow
-----------------------------------------------------------------------------
(* Ids.  A row keeps its id, and the timeline's row is there before the    *)
(* report's, so that the ids aggregate finds and publishes stay good.      *)

Resolved(found, rows) ==
  found # NoSummary => \A k \in Key : found[k] # None /\ found[k] = rows[k]

RowsInOrder == artifacts["report"] # None => artifacts["timeline"] # None

FrameIds(w) ==
  /\ Resolved(local[w].found, artifacts)
  /\ pc[w] \in ReportPc => local[w].run # None
  /\ pc[w] \in ReportPc /\ local[w].key = "report" => artifacts["timeline"] # None

PublishedIds == RowsInOrder /\ Resolved(summary, artifacts) /\ \A w \in Worker : FrameIds(w)

\* A step that moves one worker, while rows are kept.
LEMMA IdsMove ==
  ASSUME TypeInv, PublishedIds, NEW w \in Worker, NEW p, NEW frame,
         pc' = [pc EXCEPT ![w] = p], local' = [local EXCEPT ![w] = frame],
         \A k \in Key : artifacts[k] # None => artifacts'[k] = artifacts[k],
         RowsInOrder', summary' \in {summary, local[w].found},
         Resolved(frame.found, artifacts'),
         p \in ReportPc => frame.run # None,
         p \in ReportPc /\ frame.key = "report" => artifacts'["timeline"] # None
  PROVE  PublishedIds'
<1>2. Resolved(summary', artifacts')
  BY DEF Resolved, PublishedIds, FrameIds, NoSummary
<1>3. pc'[w] = p /\ local'[w] = frame
  BY DEF TypeInv, DocTypes
<1>4. FrameIds(w)'
  BY <1>3 DEF FrameIds, Resolved
<1>5. ASSUME NEW v \in Worker \ {w} PROVE FrameIds(v)'
  <2>1. pc'[v] = pc[v] /\ local'[v] = local[v] /\ FrameIds(v)
    BY <1>5 DEF TypeInv, DocTypes, PublishedIds
  <2> QED BY <2>1 DEF FrameIds, Resolved, NoSummary
<1> QED BY <1>2, <1>4, <1>5 DEF PublishedIds

LEMMA IdsStay ==
  ASSUME PublishedIds, UNCHANGED << artifacts, summary, pc, local >>
  PROVE  PublishedIds'
BY DEF PublishedIds, RowsInOrder, Resolved, FrameIds, NoSummary

LEMMA IdsDocNext ==
  ASSUME TypeInv, PublishedIds, NEW w \in Worker, DocStep(w) \/ DocFault(w)
  PROVE  PublishedIds'
<1>1. /\ local \in [Worker -> Frames] /\ local[w] \in Frames /\ pc \in [Worker -> WorkPc \cup {"idle"}]
      /\ made \in Nat /\ artifacts \in [Key -> 0..made] /\ RowsInOrder /\ Resolved(summary, artifacts) /\ FrameIds(w)
  BY DEF TypeInv, DocTypes, PublishedIds
<1>2. NoFrame.found = NoSummary /\ NoFrame.run = None /\ NoFrame.key = "timeline"
  BY DEF NoFrame, Frame
<1>3. ASSUME Back(w), UNCHANGED storeVars PROVE PublishedIds'
  <2>1. pc' = [pc EXCEPT ![w] = "idle"] /\ local' = [local EXCEPT ![w] = NoFrame]
    BY <1>3 DEF Back, Goto
  <2>2. Resolved(NoFrame.found, artifacts') /\ RowsInOrder'
    BY <1>1, <1>2, <1>3 DEF Resolved, RowsInOrder, NoFrame, Frame, NoSummary
  <2> QED BY <1>3, <2>1, <2>2, IdsMove DEF ReportPc
<1>4. ASSUME NEW s \in LateStage, Begin(w, s) PROVE PublishedIds'
  <2> DEFINE p == IF s = "report" THEN "measure" ELSE "find"
             frame == Frame(s, IF s = "report" THEN made + 1 ELSE None)
  <2>1. /\ pc' = [pc EXCEPT ![w] = p] /\ local' = [local EXCEPT ![w] = frame]
        /\ UNCHANGED storeVars
    BY <1>4 DEF Begin, Goto
  <2>2. frame.found = NoSummary /\ frame.key = "timeline" /\ (p \in ReportPc => frame.run # None)
    BY <1>1 DEF Frame, ReportPc
  <2>3. Resolved(frame.found, artifacts') /\ RowsInOrder'
    BY <1>1, <2>1 DEF Resolved, RowsInOrder, Frame, NoSummary
  <2> HIDE DEF p, frame
  <2> QED BY <2>1, <2>2, <2>3, IdsMove
<1>5. ASSUME NEW p, Goto(w, p), local' = local, artifacts' = artifacts,
             summary' \in {summary, local[w].found}, p \in ReportPc => pc[w] \in ReportPc
      PROVE  PublishedIds'
  <2>1. pc' = [pc EXCEPT ![w] = p] /\ local' = [local EXCEPT ![w] = local[w]]
    BY <1>1, <1>5 DEF Goto
  <2>2. Resolved(local[w].found, artifacts') /\ RowsInOrder'
    BY <1>1, <1>5 DEF FrameIds, Resolved, RowsInOrder, NoSummary
  <2> QED BY <1>1, <1>5, <2>1, <2>2, IdsMove DEF FrameIds
<1>6. CASE \E s \in LateStage : Take(w, s) \/ Overtake(w, s)
  BY <1>4, <1>6 DEF Take, Overtake
<1>7. CASE \E s \in LateStage : Refused(w, s)
  BY <1>7, IdsStay DEF Refused
<1>8. CASE HonorCancel(w) \/ Complete(w) \/ WorkFails(w) \/ Mismatch(w) \/ Crash(w)
  BY <1>3, <1>8 DEF HonorCancel, Complete, WorkFails, Mismatch, FailTerminal, Crash
<1>9. CASE Measure(w) \/ Unlink(w) \/ Put(w)
  BY <1>5, <1>9 DEF Measure, Unlink, Put, InReport, ReportPc
<1>10. CASE FindNothing(w) \/ SaveShots(w) \/ SaveSummary(w) \/ Settle(w)
  <2>1. After("shots") \notin ReportPc /\ After("summary") \notin ReportPc
        /\ After("settle") \notin ReportPc /\ "complete" \notin ReportPc
    BY DEF After, AggregateSteps, ReportPc
  <2> QED BY <1>5, <1>10, <2>1 DEF FindNothing, SaveShots, SaveSummary, Settle, InAggregate
<1>11. CASE Find(w)
  <2> DEFINE found == [of |-> files["report"], report |-> artifacts["report"],
                       timeline |-> artifacts["timeline"]]
             frame == [local[w] EXCEPT !.run = files["report"], !.found = found]
  <2>1. /\ artifacts["report"] # None /\ Goto(w, After("find"))
        /\ UNCHANGED << artifacts, summary >>
    BY <1>11 DEF Find, InAggregate
  <2>2. local' = [local EXCEPT ![w] = frame] /\ frame.found = found
    BY <1>1, <1>11 DEF Find, Frames
  <2>3. Resolved(found, artifacts')
    BY <1>1, <2>1 DEF Resolved, RowsInOrder
  <2>4. After("find") \notin ReportPc
    BY DEF After, AggregateSteps, ReportPc
  <2>5. RowsInOrder'
    BY <1>1, <2>1 DEF RowsInOrder
  <2> HIDE DEF frame, found
  <2> QED BY <2>1, <2>2, <2>3, <2>4, <2>5, IdsMove DEF Goto
<1>12. CASE Record(w)
  <2>1. /\ pc[w] = "record" /\ UNCHANGED summary
        /\ artifacts' = [artifacts EXCEPT ![local[w].key] = insert_artifact(@, local[w].run)]
    BY <1>12 DEF Record, InReport
  <2>2. local[w].run # None /\ local[w].key \in Key
    BY <1>1, <2>1 DEF FrameIds, ReportPc, Frames
  <2>3. /\ artifacts'[local[w].key] # None
        /\ \A k \in Key : artifacts[k] # None => artifacts'[k] = artifacts[k]
        /\ \A k \in Key \ {local[w].key} : artifacts'[k] = artifacts[k]
    BY <1>1, <2>1, <2>2 DEF insert_artifact
  <2>4. RowsInOrder'
    BY <1>1, <2>1, <2>2, <2>3 DEF RowsInOrder, FrameIds, ReportPc
  <2>5. Resolved(local[w].found, artifacts')
    BY <1>1, <2>3 DEF FrameIds, Resolved
  <2>6. CASE local[w].key = "timeline"
    <3> DEFINE frame == [local[w] EXCEPT !.key = "report"]
    <3>1. /\ pc' = [pc EXCEPT ![w] = "unlink"] /\ local' = [local EXCEPT ![w] = frame]
      BY <1>1, <1>12, <2>6 DEF Record, Goto
    <3>2. frame.found = local[w].found /\ frame.run = local[w].run
      BY <1>1 DEF Frames
    <3> HIDE DEF frame
    <3> QED BY <2>1, <2>2, <2>3, <2>4, <2>5, <2>6, <3>1, <3>2, IdsMove
  <2>7. CASE local[w].key # "timeline"
    <3>1. /\ pc' = [pc EXCEPT ![w] = "complete"] /\ local' = [local EXCEPT ![w] = local[w]]
      BY <1>1, <1>12, <2>7 DEF Record, Goto
    <3>2. "complete" \notin ReportPc
      BY DEF ReportPc
    <3> QED BY <2>1, <2>3, <2>4, <2>5, <3>1, <3>2, IdsMove
  <2> QED BY <2>6, <2>7
<1> QED BY <1>6, <1>7, <1>8, <1>9, <1>10, <1>11, <1>12 DEF DocStep, DocFault

LEMMA IdsInvariance == Spec => []PublishedIds
<1>1. Init => PublishedIds
  <2> SUFFICES ASSUME Init PROVE PublishedIds
    OBVIOUS
  <2>1. RowsInOrder /\ Resolved(summary, artifacts)
    BY DEF Init, DocInit, RowsInOrder, Resolved
  <2>2. ASSUME NEW w \in Worker PROVE FrameIds(w)
    BY DEF Init, DocInit, FrameIds, Resolved, ReportPc, NoFrame, Frame
  <2> QED BY <2>1, <2>2 DEF PublishedIds
<1>2. ASSUME TypeInv, PublishedIds, DocNext PROVE PublishedIds'
  BY <1>2, IdsDocNext, IdsStay DEF DocNext, CancelRead, CancelWrite
<1>3. ASSUME \/ \E c \in Critic : CriticStep(c) \/ Redeliver(c)
             \/ SessionStep \/ Unreachable \/ UNCHANGED allVars
      PROVE  UNCHANGED << artifacts, summary, pc, local >>
  BY <1>3 DEF CriticStep, Redeliver, SessionStep, PollJob, PollSummary, PollRuns, GetReport,
              GetCritique, GetShot, GetTimeline, Shows, Unreachable, docVars, allVars
<1>4. TypeInv /\ PublishedIds /\ [Next]_allVars => PublishedIds'
  BY <1>2, <1>3, IdsStay DEF Next
<1> QED BY <1>1, <1>4, TypeInvariance, PTL DEF Spec

\* The ids a summary publishes are those of the rows, whichever report workers record
\* the files again and whenever aggregate has read them (insert_artifact,
\* get_artifact_by_storage_key, save_report_summary).
THEOREM PublishedIdsResolve == Spec => []IdsResolve
<1>1. PublishedIds => IdsResolve
  BY DEF PublishedIds, Resolved, IdsResolve
<1> QED BY <1>1, IdsInvariance, PTL

-----------------------------------------------------------------------------
(* A result is there before it is announced: what holds through overtakes. *)

Good == {"SUCCEEDED", "PARTIAL"}
Ready == stage["report"] = "SUCCEEDED"

\* A worker is at a step of its stage, and aggregates a report that is there.
Placed(p, frame) ==
  /\ p \in ReportPc => frame.stage = "report"
  /\ p \in AggregatePc => frame.stage = "aggregate"
  /\ p \in {"shots", "summary", "settle"} => frame.found.of # None /\ frame.found.of = frame.run

WorkerPlace(w) ==
  /\ Placed(pc[w], local[w])
  /\ pc[w] # "idle" /\ local[w].stage = "aggregate" => Ready
  /\ pc[w] = "settle" => summary.of # None

Published ==
  /\ stage["aggregate"] = "RUNNING" => Ready
  /\ summary # NoSummary => Ready /\ summary.of # None
  /\ analysis.state \in Good => Ready /\ analysis.progress = 100 /\ summary.of # None

Workplaces == Published /\ \A w \in Worker : WorkerPlace(w)

\* What only a held lease changes: a stage that has succeeded stays so.
LEMMA StagesStay ==
  ASSUME TypeInv, Workplaces, DocNext
  PROVE  \A s \in LateStage : stage[s] = "SUCCEEDED" => stage'[s] = "SUCCEEDED"
<1>1. stage \in [LateStage -> StageState]
  BY DEF TypeInv, DocTypes
<1>2. CASE CancelRead \/ CancelWrite
  BY <1>2 DEF CancelRead, CancelWrite
<1>3. CASE \E w \in Worker : DocStep(w) \/ DocFault(w)
  <2>1. PICK w \in Worker : DocStep(w) \/ DocFault(w)
    BY <1>3
  <2>2. local[w].stage \in LateStage
    BY DEF TypeInv, DocTypes, Frames
  <2>3. CASE \E s \in LateStage : Take(w, s) \/ Overtake(w, s)
    BY <1>1, <2>3 DEF Take, Overtake, Begin
  <2>4. CASE \E s \in LateStage : Refused(w, s)
    BY <2>4 DEF Refused
  <2>5. CASE HonorCancel(w)
    BY <2>5 DEF HonorCancel
  <2>6. CASE Complete(w)
    BY <1>1, <2>2, <2>6 DEF Complete, Holds
  <2>7. CASE FailTerminal(w)
    BY <1>1, <2>2, <2>7 DEF FailTerminal, Holds
  <2>8. CASE WorkFails(w) /\ ~FailTerminal(w)
    <3>1. local[w].stage = "report" /\ Holds(w) /\ stage' = [stage EXCEPT !["report"] = "PENDING"]
      BY <2>8 DEF WorkFails, Workplaces, WorkerPlace, Placed
    <3> QED BY <1>1, <3>1 DEF Holds
  <2>9. CASE UNCHANGED stage
    BY <2>9
  <2>10. CASE \/ Measure(w) \/ Unlink(w) \/ Put(w) \/ Record(w) \/ Crash(w)
              \/ Find(w) \/ FindNothing(w) \/ SaveShots(w) \/ SaveSummary(w) \/ Settle(w)
    BY <2>9, <2>10 DEF Measure, Unlink, Put, Record, InReport, Find, FindNothing, SaveShots,
                       SaveSummary, Settle, InAggregate, Crash
  <2> QED BY <2>1, <2>3, <2>4, <2>5, <2>6, <2>7, <2>8, <2>10 DEF DocStep, DocFault, Mismatch
<1> QED BY <1>2, <1>3 DEF DocNext

\* A step that moves one worker.
LEMMA PlaceMove ==
  ASSUME TypeInv, Workplaces, NEW w \in Worker, NEW p, NEW frame,
         pc' = [pc EXCEPT ![w] = p], local' = [local EXCEPT ![w] = frame],
         Ready => Ready', summary.of # None => summary'.of # None,
         Placed(p, frame),
         p # "idle" /\ frame.stage = "aggregate" => Ready',
         p = "settle" => summary'.of # None
  PROVE  \A v \in Worker : WorkerPlace(v)'
<1>1. pc'[w] = p /\ local'[w] = frame
  BY DEF TypeInv, DocTypes
<1>2. WorkerPlace(w)'
  BY <1>1 DEF WorkerPlace
<1>3. ASSUME NEW v \in Worker \ {w} PROVE WorkerPlace(v)'
  <2>1. pc'[v] = pc[v] /\ local'[v] = local[v] /\ WorkerPlace(v)
    BY <1>3 DEF TypeInv, DocTypes, Workplaces
  <2> QED BY <2>1 DEF WorkerPlace
<1> QED BY <1>2, <1>3

LEMMA PlacesDocStep ==
  ASSUME TypeInv, Workplaces, NEW w \in Worker, DocStep(w) \/ DocFault(w)
  PROVE  Workplaces'
<1>1. Ready => Ready'
  BY StagesStay DEF DocNext, Ready
<1>2. /\ WorkerPlace(w) /\ Published /\ local[w] \in Frames
      /\ local \in [Worker -> Frames] /\ pc \in [Worker -> WorkPc \cup {"idle"}]
      /\ stage \in [LateStage -> StageState] /\ made \in Nat
  BY DEF Workplaces, TypeInv, DocTypes
<1>3. ASSUME Back(w), UNCHANGED summary PROVE \A v \in Worker : WorkerPlace(v)'
  <2>1. pc' = [pc EXCEPT ![w] = "idle"] /\ local' = [local EXCEPT ![w] = NoFrame]
    BY <1>3 DEF Back, Goto
  <2>2. Placed("idle", NoFrame)
    BY DEF Placed, ReportPc, AggregatePc
  <2> QED BY <1>1, <1>3, <2>1, <2>2, PlaceMove
<1>4. CASE \E s \in LateStage : Take(w, s) \/ Overtake(w, s)
  <2>1. PICK s \in LateStage : Take(w, s) \/ Overtake(w, s)
    BY <1>4
  <2>2. Begin(w, s) /\ (s = "aggregate" => Ready)
    BY <1>2, <2>1 DEF Take, Overtake, InOrder, Ready, Published
  <2> DEFINE p == IF s = "report" THEN "measure" ELSE "find"
             frame == Frame(s, IF s = "report" THEN made + 1 ELSE None)
  <2>3. /\ pc' = [pc EXCEPT ![w] = p] /\ local' = [local EXCEPT ![w] = frame]
        /\ stage' = [stage EXCEPT ![s] = "RUNNING"]
        /\ UNCHANGED << analysis, summary >>
    BY <2>2 DEF Begin, Goto
  <2>4. frame.stage = s /\ Placed(p, frame) /\ p # "settle"
    BY DEF Placed, Frame, ReportPc, AggregatePc
  <2> HIDE DEF p, frame
  <2>5. \A v \in Worker : WorkerPlace(v)'
    BY <1>1, <2>2, <2>3, <2>4, PlaceMove
  <2>6. Published'
    BY <1>1, <1>2, <2>2, <2>3 DEF Published
  <2> QED BY <2>5, <2>6 DEF Workplaces
<1>5. ASSUME NEW state, NEW progress, SetFromRunning(state, progress), state \notin Good,
             UNCHANGED summary, stage'["aggregate"] = "RUNNING" => stage["aggregate"] = "RUNNING"
      PROVE  Published'
  BY <1>1, <1>2, <1>5 DEF SetFromRunning, Published
<1>6. ASSUME UNCHANGED << analysis, summary >>,
             stage'["aggregate"] = "RUNNING" => stage["aggregate"] = "RUNNING"
      PROVE  Published'
  BY <1>1, <1>2, <1>6 DEF Published
<1>7. "FAILED" \notin Good /\ "CANCELED" \notin Good
  BY DEF Good
<1>8. CASE \E s \in LateStage : Refused(w, s)
  <2>1. /\ SetFromRunning("FAILED", analysis.progress)
        /\ UNCHANGED << stage, summary, pc, local >>
    BY <1>8 DEF Refused
  <2>2. \A v \in Worker : WorkerPlace(v)'
    BY <2>1 DEF Workplaces, WorkerPlace, Ready
  <2> QED BY <1>5, <1>7, <2>1, <2>2 DEF Workplaces
<1>9. CASE HonorCancel(w)
  <2>1. /\ analysis' = [analysis EXCEPT !.state = "CANCELED"] /\ Back(w) /\ UNCHANGED summary
        /\ stage' = [s \in LateStage |->
                       IF stage[s] \in {"PENDING", "RUNNING"} THEN "CANCELED" ELSE stage[s]]
    BY <1>9 DEF HonorCancel
  <2>2. analysis'.state = "CANCELED" /\ stage'["aggregate"] # "RUNNING"
    BY <2>1 DEF TypeInv, DocTypes
  <2>3. Published'
    BY <1>1, <1>2, <1>7, <2>1, <2>2 DEF Published
  <2> QED BY <1>3, <2>1, <2>3 DEF Workplaces
<1>10. CASE Complete(w)
  <2>1. Back(w) /\ UNCHANGED << analysis, summary >>
    BY <1>10 DEF Complete
  <2>2. stage'["aggregate"] = "RUNNING" => stage["aggregate"] = "RUNNING"
    BY <1>2, <1>10 DEF Complete, Frames
  <2> QED BY <1>3, <1>6, <2>1, <2>2 DEF Workplaces
<1>11. CASE FailTerminal(w)
  <2>1. Back(w) /\ UNCHANGED summary /\ SetFromRunning("FAILED", analysis.progress)
    BY <1>11 DEF FailTerminal
  <2>2. stage'["aggregate"] = "RUNNING" => stage["aggregate"] = "RUNNING"
    BY <1>2, <1>11 DEF FailTerminal, Frames
  <2> QED BY <1>3, <1>5, <1>7, <2>1, <2>2 DEF Workplaces
<1>12. CASE (WorkFails(w) /\ ~FailTerminal(w)) \/ Crash(w)
  <2>1. Back(w) /\ UNCHANGED << analysis, summary >>
    BY <1>12 DEF WorkFails, Crash
  <2>2. stage'["aggregate"] = "RUNNING" => stage["aggregate"] = "RUNNING"
    BY <1>2, <1>12 DEF WorkFails, Crash
  <2> QED BY <1>3, <1>6, <2>1, <2>2 DEF Workplaces
<1>13. After("find") = "shots" /\ After("shots") = "summary"
       /\ After("summary") = "settle" /\ After("settle") = "complete"
  BY DEF After, AggregateSteps
<1>14. ASSUME NEW p, Goto(w, p), local' = local, p # "idle", pc[w] # "idle",
              Placed(p, local[w]), summary.of # None => summary'.of # None,
              p = "settle" => summary'.of # None
       PROVE  \A v \in Worker : WorkerPlace(v)'
  <2>1. pc' = [pc EXCEPT ![w] = p] /\ local' = [local EXCEPT ![w] = local[w]]
    BY <1>2, <1>14 DEF Goto
  <2>2. local[w].stage = "aggregate" => Ready'
    BY <1>1, <1>2, <1>14 DEF WorkerPlace
  <2> QED BY <1>1, <1>14, <2>1, <2>2, PlaceMove
<1>15. CASE Measure(w) \/ Unlink(w) \/ Put(w)
  <2>1. \E p \in {"unlink", "put", "record"} : Goto(w, p)
    BY <1>15 DEF Measure, Unlink, Put
  <2>2. pc[w] \in ReportPc /\ pc[w] # "idle" /\ UNCHANGED << analysis, stage, summary, local >>
    BY <1>15 DEF Measure, Unlink, Put, InReport, ReportPc
  <2>3. \A p \in {"unlink", "put", "record"} : Placed(p, local[w]) /\ p # "idle" /\ p # "settle"
    BY <1>2, <2>2 DEF WorkerPlace, Placed, ReportPc, AggregatePc
  <2> QED BY <1>6, <1>14, <2>1, <2>2, <2>3 DEF Workplaces
<1>16. CASE Record(w)
  <2>1. pc[w] \in ReportPc /\ UNCHANGED << analysis, stage, summary >>
    BY <1>16 DEF Record, InReport, ReportPc
  <2>2. local[w].stage = "report"
    BY <1>2, <2>1 DEF WorkerPlace, Placed
  <2>3. PICK p \in {"unlink", "complete"}, frame \in Frames :
          /\ pc' = [pc EXCEPT ![w] = p] /\ local' = [local EXCEPT ![w] = frame]
          /\ frame.stage = "report"
    <3>1. CASE local[w].key = "timeline"
      <4> DEFINE frame == [local[w] EXCEPT !.key = "report"]
      <4>1. local' = [local EXCEPT ![w] = frame] /\ pc' = [pc EXCEPT ![w] = "unlink"]
        BY <1>2, <1>16, <3>1 DEF Record, Goto
      <4>2. frame \in Frames /\ frame.stage = "report"
        BY <1>2, <2>2 DEF Frames
      <4> HIDE DEF frame
      <4> QED BY <4>1, <4>2
    <3>2. CASE local[w].key # "timeline"
      BY <1>2, <1>16, <2>2, <3>2 DEF Record, Goto
    <3> QED BY <3>1, <3>2
  <2>4. Placed(p, frame) /\ p # "settle"
    BY <2>3 DEF Placed, ReportPc, AggregatePc
  <2>5. \A v \in Worker : WorkerPlace(v)'
    BY <1>1, <2>1, <2>3, <2>4, PlaceMove
  <2> QED BY <1>6, <2>1, <2>5 DEF Workplaces
<1>17. ASSUME pc[w] \in AggregatePc
       PROVE  /\ local[w].stage = "aggregate" /\ Ready /\ pc[w] # "idle" /\ Placed("complete", local[w])
              /\ pc[w] \in {"shots", "summary", "settle"} =>
                   /\ Placed("summary", local[w]) /\ Placed("settle", local[w])
                   /\ local[w].found.of # None
  BY <1>2, <1>17 DEF WorkerPlace, Placed, AggregatePc, ReportPc
<1>18. CASE Find(w)
  <2> DEFINE found == [of |-> files["report"], report |-> artifacts["report"],
                       timeline |-> artifacts["timeline"]]
             frame == [local[w] EXCEPT !.run = files["report"], !.found = found]
  <2>1. /\ pc[w] \in AggregatePc /\ files["report"] # None /\ UNCHANGED << analysis, stage, summary >>
        /\ pc' = [pc EXCEPT ![w] = "shots"]
    BY <1>13, <1>18 DEF Find, InAggregate, AggregatePc, Goto
  <2>2. local' = [local EXCEPT ![w] = frame]
    BY <1>2, <1>18 DEF Find
  <2>3. frame.stage = local[w].stage /\ frame.found.of = files["report"] /\ frame.run = files["report"]
    BY <1>2 DEF Frames
  <2> HIDE DEF frame, found
  <2>4. Placed("shots", frame)
    BY <1>17, <2>1, <2>3 DEF Placed, ReportPc
  <2>5. \A v \in Worker : WorkerPlace(v)'
    BY <1>1, <1>17, <2>1, <2>2, <2>4, PlaceMove
  <2> QED BY <1>6, <2>1, <2>5 DEF Workplaces
<1>19. CASE FindNothing(w)
  <2>1. /\ pc[w] \in AggregatePc /\ UNCHANGED << stage, summary, local >> /\ Goto(w, "complete")
        /\ SetFromRunning("FAILED", progress_from_stages(Completed))
    BY <1>19 DEF FindNothing, InAggregate, AggregatePc
  <2>2. \A v \in Worker : WorkerPlace(v)'
    BY <1>14, <1>17, <2>1
  <2> QED BY <1>5, <1>7, <2>1, <2>2 DEF Workplaces
<1>20. CASE SaveShots(w)
  <2>1. /\ pc[w] = "shots" /\ UNCHANGED << analysis, stage, summary, local >> /\ Goto(w, "summary")
    BY <1>13, <1>20 DEF SaveShots, InAggregate
  <2>2. \A v \in Worker : WorkerPlace(v)'
    BY <1>14, <1>17, <2>1 DEF AggregatePc
  <2> QED BY <1>6, <2>1, <2>2 DEF Workplaces
<1>21. CASE SaveSummary(w)
  <2>1. /\ pc[w] = "summary" /\ UNCHANGED << analysis, stage, local >> /\ Goto(w, "settle")
        /\ summary' = local[w].found
    BY <1>13, <1>21 DEF SaveSummary, InAggregate
  <2>2. local[w].found.of # None /\ Ready /\ Placed("settle", local[w]) /\ pc[w] # "idle"
    BY <1>17, <2>1 DEF AggregatePc
  <2>3. \A v \in Worker : WorkerPlace(v)'
    BY <1>14, <2>1, <2>2
  <2>4. Published'
    BY <1>1, <1>2, <2>1, <2>2 DEF Published
  <2> QED BY <2>3, <2>4 DEF Workplaces
<1>22. CASE Settle(w)
  <2>1. /\ pc[w] = "settle" /\ UNCHANGED << stage, summary, local >> /\ Goto(w, "complete")
        /\ SetFromRunning(Outcome(local[w].run), 100)
    BY <1>13, <1>22 DEF Settle, InAggregate
  <2>2. Ready /\ Placed("complete", local[w]) /\ pc[w] # "idle" /\ summary.of # None
    BY <1>2, <1>17, <2>1 DEF AggregatePc, WorkerPlace
  <2>3. \A v \in Worker : WorkerPlace(v)'
    BY <1>14, <2>1, <2>2
  <2>4. Published'
    BY <1>1, <1>2, <2>1, <2>2 DEF Published, SetFromRunning
  <2> QED BY <2>3, <2>4 DEF Workplaces
<1> QED BY <1>4, <1>8, <1>9, <1>10, <1>11, <1>12, <1>15, <1>16, <1>18, <1>19, <1>20, <1>21, <1>22
        DEF DocStep, DocFault, Mismatch, WorkFails

LEMMA SummaryStays ==
  ASSUME TypeInv, Workplaces, DocNext
  PROVE  summary' = summary \/ summary'.of # None
<1>1. CASE CancelRead \/ CancelWrite
  BY <1>1 DEF CancelRead, CancelWrite
<1>2. CASE \E w \in Worker : DocStep(w) \/ DocFault(w)
  <2>1. PICK w \in Worker : DocStep(w) \/ DocFault(w)
    BY <1>2
  <2>2. CASE SaveSummary(w)
    BY <2>2 DEF SaveSummary, InAggregate, Workplaces, WorkerPlace, Placed
  <2>3. CASE \/ \E s \in LateStage : Take(w, s) \/ Overtake(w, s) \/ Refused(w, s)
             \/ HonorCancel(w) \/ Complete(w) \/ Mismatch(w) \/ WorkFails(w) \/ Crash(w)
    BY <2>3 DEF Take, Overtake, Begin, Refused, HonorCancel, Complete, Mismatch, WorkFails,
                FailTerminal, Crash
  <2>4. CASE \/ Measure(w) \/ Unlink(w) \/ Put(w) \/ Record(w)
             \/ Find(w) \/ FindNothing(w) \/ SaveShots(w) \/ Settle(w)
    BY <2>4 DEF Measure, Unlink, Put, Record, InReport, Find, FindNothing, SaveShots, Settle
  <2> QED BY <2>1, <2>2, <2>3, <2>4 DEF DocStep, DocFault
<1> QED BY <1>1, <1>2 DEF DocNext

LEMMA OthersKeepDocs ==
  ASSUME \/ \E c \in Critic : CriticStep(c) \/ Redeliver(c)
         \/ SessionStep \/ Unreachable \/ UNCHANGED allVars
  PROVE  UNCHANGED << analysis, rowVars, storeVars, pc, local >>
BY DEF CriticStep, Redeliver, SessionStep, PollJob, PollSummary, PollRuns, GetReport, GetCritique,
       GetShot, GetTimeline, Shows, Unreachable, docVars, allVars

LEMMA WorkplacesInit == Init => Workplaces
<1> SUFFICES ASSUME Init PROVE Workplaces
  OBVIOUS
<1>1. Published
  BY DEF Init, DocInit, Published, Good, NoSummary
<1>2. ASSUME NEW w \in Worker PROVE WorkerPlace(w)
  BY DEF Init, DocInit, WorkerPlace, Placed, ReportPc, AggregatePc
<1> QED BY <1>1, <1>2 DEF Workplaces

LEMMA WorkplacesNext == TypeInv /\ Workplaces /\ [Next]_allVars => Workplaces'
<1> SUFFICES ASSUME TypeInv, Workplaces, [Next]_allVars PROVE Workplaces'
  OBVIOUS
<1>1. ASSUME UNCHANGED << stage, summary, pc, local >>,
             analysis' = analysis \/ analysis'.state = "CANCEL_REQUESTED"
      PROVE  Workplaces'
  BY <1>1 DEF Workplaces, Published, WorkerPlace, Placed, Ready, Good
<1>2. CASE CancelRead \/ CancelWrite
  <2>1. UNCHANGED << stage, summary, pc, local >>
    BY <1>2 DEF CancelRead, CancelWrite
  <2>2. analysis' = analysis \/ analysis'.state = "CANCEL_REQUESTED"
    BY <1>2 DEF CancelRead, CancelWrite, TypeInv, DocTypes
  <2> QED BY <1>1, <2>1, <2>2
<1>3. CASE \E w \in Worker : DocStep(w) \/ DocFault(w)
  BY <1>3, PlacesDocStep
<1>4. CASE UNCHANGED << analysis, rowVars, storeVars, pc, local >>
  BY <1>1, <1>4
<1> QED BY <1>2, <1>3, <1>4, OthersKeepDocs DEF Next, DocNext

\* What a page has read of a result is backed by the tables, and until it has read
\* one its progress is not ahead of the stages.
PageBacked ==
  /\ session.job.state \in Good => session.job.progress = 100 /\ Ready /\ summary.of # None
  /\ session.job.state \in Good /\ session.pc = "runs" => session.of # None
  /\ session.status.state \in Good =>
       /\ "report" \in session.status.completed
       /\ session.status.progress = 100
       /\ session.status.of # None
  /\ session.pc \in {"report", "critique", "shot", "timeline"} => session.status.state \in Good
  /\ session.report # None => session.status.state \in Good
  /\ session.pc \in {"job", "summary", "runs"} =>
       session.report = None /\ session.status.progress <= progress_from_stages(Completed)

LEMMA ProgressMonotone ==
  ASSUME NEW done, NEW more, done \subseteq more
  PROVE  progress_from_stages(done) <= progress_from_stages(more)
BY DEF progress_from_stages

\* A poll, from the read of the job to the status.
LEMMA PollSteps ==
  ASSUME TypeInv, Workplaces, PageBacked, PollJob \/ PollSummary \/ PollRuns
  PROVE  /\ PageBacked'
         /\ \/ session'.status.progress >= session.status.progress
            \/ session'.status.state \in {"FAILED", "CANCELED"}
<1>1. /\ session \in Pages /\ analysis.state \in AnalysisState /\ made \in Nat
      /\ progress_from_stages(Completed) \in 40..100 /\ session.status.progress \in 0..100
      /\ session.job.state \in AnalysisState
  BY ProgressType DEF TypeInv, SessionTypes, DocTypes, Pages, Statuses
<1>2. UNCHANGED << stage, summary >> /\ Ready' = Ready /\ Completed' = Completed
  BY DEF PollJob, PollSummary, PollRuns, Shows, docVars, Ready, Completed
<1>3. progress_from_stages(Completed') = progress_from_stages(Completed)
  BY <1>2
<1>4. CASE PollJob
  <2>1. session.pc = "job" /\ session' = [session EXCEPT !.pc = "summary", !.job = analysis]
    BY <1>4 DEF PollJob, Shows
  <2>2. /\ session'.pc = "summary" /\ session'.job = analysis /\ session'.status = session.status
        /\ session'.report = session.report
    BY <1>1, <2>1 DEF Pages
  <2> QED BY <1>1, <1>2, <1>3, <2>1, <2>2 DEF PageBacked, Workplaces, Published
<1>5. CASE PollSummary
  <2>1. session.pc = "summary" /\ session' = [session EXCEPT !.pc = "runs", !.of = summary.of]
    BY <1>5 DEF PollSummary, Shows
  <2>2. /\ session'.pc = "runs" /\ session'.job = session.job /\ session'.status = session.status
        /\ session'.of = summary.of /\ session'.report = session.report
    BY <1>1, <2>1 DEF Pages
  <2> QED BY <1>1, <1>2, <1>3, <2>1, <2>2 DEF PageBacked
<1>6. CASE PollRuns
  <2> DEFINE status == build_status(session.job, session.of, Completed)
  <2>1. /\ session.pc = "runs"
        /\ session'.pc = CASE ~analysis_is_terminal(session.job.state) -> "job"
                           [] session.job.state \in {"FAILED", "CANCELED"} -> "ended"
                           [] OTHER -> "report"
        /\ session'.status = status /\ session'.job.state = "QUEUED"
        /\ session'.report = session.report
    BY <1>1, <1>6 DEF PollRuns, Shows, Pages
  <2>2. /\ status.state = session.job.state /\ status.completed = Completed /\ status.of = session.of
        /\ status.progress = IF analysis_is_terminal(session.job.state) THEN session.job.progress
                             ELSE progress_from_stages(Completed)
    BY DEF build_status
  <2> HIDE DEF status
  <2>3. analysis_is_terminal(session.job.state) <=>
          session.job.state \in {"CANCELED", "SUCCEEDED", "PARTIAL", "FAILED"}
    BY <1>1, Terminals
  <2>4. CASE session.job.state \in Good
    <3>1. /\ session.job.progress = 100 /\ "report" \in Completed /\ session.of # None
      BY <2>1, <2>4 DEF PageBacked, Ready, Completed
    <3>2. session'.pc = "report" /\ status.progress = 100
      BY <2>1, <2>2, <2>3, <2>4, <3>1 DEF Good
    <3>3. session'.job.state \notin Good /\ session'.report = None
      BY <2>1 DEF Good, PageBacked
    <3> QED BY <1>1, <2>1, <2>2, <2>4, <3>1, <3>2, <3>3 DEF PageBacked
  <2>5. CASE session.job.state \in {"FAILED", "CANCELED"}
    <3>1. session'.pc = "ended" /\ session'.job.state \notin Good /\ status.state \notin Good
      BY <2>1, <2>2, <2>3, <2>5 DEF Good
    <3>2. session'.report = None
      BY <2>1 DEF PageBacked
    <3> QED BY <2>1, <2>2, <2>5, <3>1, <3>2 DEF PageBacked
  <2>6. CASE session.job.state \notin Good \cup {"FAILED", "CANCELED"}
    <3>1. /\ session'.pc = "job" /\ session'.job.state \notin Good /\ status.state \notin Good
          /\ status.progress = progress_from_stages(Completed)
      BY <2>1, <2>2, <2>3, <2>6 DEF Good
    <3>2. session'.report = None /\ session.status.progress <= progress_from_stages(Completed)
      BY <2>1 DEF PageBacked
    <3> QED BY <1>1, <1>3, <2>1, <3>1, <3>2 DEF PageBacked
  <2> QED BY <2>4, <2>5, <2>6
<1> QED BY <1>4, <1>5, <1>6

LEMMA PageNext ==
  ASSUME TypeInv, Workplaces, PageBacked, [Next]_allVars
  PROVE  /\ PageBacked'
         /\ [\/ session'.status.progress >= session.status.progress
             \/ session'.status.state \in {"FAILED", "CANCELED"}]_session
<1>1. /\ session \in Pages /\ session.status.progress \in 0..100
      /\ progress_from_stages(Completed) \in 40..100 /\ progress_from_stages(Completed') \in 40..100
  BY ProgressType DEF TypeInv, SessionTypes, Pages, Statuses
<1>2. CASE DocNext /\ UNCHANGED session
  <2>1. Ready => Ready'
    BY <1>2, StagesStay DEF Ready
  <2>2. summary.of # None => summary'.of # None
    BY <1>2, SummaryStays
  <2>3. progress_from_stages(Completed) <= progress_from_stages(Completed')
    <3>1. Completed \subseteq Completed'
      BY <1>2, StagesStay DEF Completed
    <3> QED BY <3>1, ProgressMonotone
  <2> QED BY <1>1, <1>2, <2>1, <2>2, <2>3 DEF PageBacked
<1>3. CASE UNCHANGED << stage, summary, session >>
  BY <1>3 DEF PageBacked, Ready, Completed
<1>4. CASE PollJob \/ PollSummary \/ PollRuns
  BY <1>4, PollSteps
<1>5. CASE GetReport \/ GetCritique \/ GetShot \/ GetTimeline \/ Unreachable
  <2>1. UNCHANGED << stage, summary >>
    BY <1>5 DEF GetReport, GetCritique, GetShot, GetTimeline, Shows, docVars, Unreachable
  <2>2. /\ session'.job = session.job /\ session'.status = session.status /\ session'.of = session.of
    BY <1>1, <1>5 DEF GetReport, GetCritique, GetShot, GetTimeline, Unreachable, Pages
  <2>3. session'.pc \in {"critique", "shot", "timeline", "ended"}
    BY <1>1, <1>5 DEF GetReport, GetCritique, GetShot, GetTimeline, Unreachable, Pages
  <2>4. session'.pc # "ended" => session.pc \in {"report", "critique", "shot", "timeline"}
    BY <1>1, <1>5 DEF GetReport, GetCritique, GetShot, GetTimeline, Unreachable, Shows, Pages
  <2>5. session'.report # session.report => session.pc = "report"
    BY <1>1, <1>5 DEF GetReport, GetCritique, GetShot, GetTimeline, Unreachable, Shows, Pages
  <2> QED BY <1>1, <2>1, <2>2, <2>3, <2>4, <2>5 DEF PageBacked, Ready, Completed
<1> QED BY <1>2, <1>3, <1>4, <1>5, OthersKeepDocs DEF Next, SessionStep, allVars

LEMMA PageInit == Init => PageBacked
BY ProgressType DEF Init, SessionInit, PageBacked, Good, NoStatus

LEMMA PageInvariance == Spec => [](TypeInv /\ Workplaces /\ PageBacked)
<1>1. Init => TypeInv /\ Workplaces /\ PageBacked
  BY TypeInit, WorkplacesInit, PageInit
<1>2. TypeInv /\ Workplaces /\ PageBacked /\ [Next]_allVars => (TypeInv /\ Workplaces /\ PageBacked)'
  BY TypeNext, WorkplacesNext, PageNext
<1> QED BY <1>1, <1>2, PTL DEF Spec

\* The progress a page shows never falls until the analysis has failed or is canceled,
\* whatever workers die, retry or are overtaken (build_status, progress_from_stages).
THEOREM ShownProgressGrows == Spec => ProgressGrows
<1>1. TypeInv /\ Workplaces /\ PageBacked /\ [Next]_allVars =>
        [\/ session'.status.progress >= session.status.progress
         \/ session'.status.state \in {"FAILED", "CANCELED"}]_session
  BY PageNext
<1> QED BY <1>1, PageInvariance, PTL DEF Spec, ProgressGrows

-----------------------------------------------------------------------------
(* One run: what holds while no worker has outlasted its lease.  A busy    *)
(* worker holds its stage or the stage is canceled; so nobody writes a     *)
(* file once the report stage has succeeded.                               *)

\* The files of a report worker that holds its stage, at each step.
Written(p, frame, stored) ==
  /\ p \in ReportPc /\ frame.key = "report" => stored["timeline"] = frame.run
  /\ p = "record" => stored[frame.key] = frame.run
  /\ p = "complete" /\ frame.stage = "report" => \A k \in Key : stored[k] = frame.run

WorkerAlone(w) ==
  /\ pc[w] # "idle" => Holds(w) \/ stage[local[w].stage] = "CANCELED"
  /\ Holds(w) => Written(pc[w], local[w], files)
  /\ pc[w] \in {"shots", "summary", "settle"} => local[w].run = files["report"]

\* A run that a row or a reader names is that of the final report.
Final(run) == run # None => Ready /\ run = files["report"]

TableAlone ==
  /\ Ready => files["timeline"] = files["report"]
  /\ Final(summary.of)
  /\ analysis.state \in Good => analysis.state = Outcome(files["report"])

ViewsAlone ==
  /\ \A c \in Critic : Final(critic[c].of)
  /\ \A i \in 1..Len(critiques) : Final(critiques[i].of)
  /\ session.job.state \in Good => session.job.state = Outcome(files["report"])
  /\ session.status.state \in Good => session.status.state = Outcome(files["report"])
  /\ Final(session.of) /\ Final(session.status.of)
  /\ Final(session.report) /\ Final(session.shot)
  /\ Final(session.timeline) /\ Final(session.critique)

WorkersAlone == \A w \in Worker : WorkerAlone(w)

\* A step within a stage that writes no file.
LEMMA AloneMove ==
  ASSUME TypeInv, WorkersAlone, NEW w \in Worker, NEW p, NEW frame,
         pc' = [pc EXCEPT ![w] = p], local' = [local EXCEPT ![w] = frame],
         UNCHANGED << stage, holder, files >>,
         pc[w] # "idle", frame.stage = local[w].stage,
         Holds(w) => Written(p, frame, files),
         p \in {"shots", "summary", "settle"} => frame.run = files["report"]
  PROVE  WorkersAlone'
<1>1. pc'[w] = p /\ local'[w] = frame /\ WorkerAlone(w)
  BY DEF TypeInv, DocTypes, WorkersAlone
<1>2. Holds(w)' <=> Holds(w)
  BY <1>1 DEF Holds
<1>3. WorkerAlone(w)'
  BY <1>1, <1>2 DEF WorkerAlone
<1>4. ASSUME NEW v \in Worker \ {w} PROVE WorkerAlone(v)'
  <2>1. pc'[v] = pc[v] /\ local'[v] = local[v] /\ WorkerAlone(v)
    BY <1>4 DEF TypeInv, DocTypes, WorkersAlone
  <2>2. Holds(v)' <=> Holds(v)
    BY <2>1 DEF Holds
  <2> QED BY <2>1, <2>2 DEF WorkerAlone
<1> QED BY <1>3, <1>4 DEF WorkersAlone

\* What another worker keeps, when its stage and the files stay.
LEMMA OtherAlone ==
  ASSUME TypeInv, NEW v \in Worker, WorkerAlone(v), pc'[v] = pc[v], local'[v] = local[v],
         files' = files,
         pc[v] # "idle" => \/ /\ stage'[local[v].stage] = stage[local[v].stage]
                              /\ holder'[local[v].stage] = holder[local[v].stage]
                           \/ stage'[local[v].stage] = "CANCELED"
  PROVE  WorkerAlone(v)'
<1>1. CASE pc[v] = "idle"
  BY <1>1 DEF WorkerAlone, Written, ReportPc
<1>2. CASE pc[v] # "idle"
  BY <1>2 DEF WorkerAlone, Holds
<1> QED BY <1>1, <1>2

\* A call that returns, with what became of its stage.
LEMMA AloneBack ==
  ASSUME TypeInv, WorkersAlone, NEW w \in Worker, Back(w), UNCHANGED files,
         \/ UNCHANGED << stage, holder >>
         \/ /\ Holds(w)
            /\ \E state \in StageState : stage' = [stage EXCEPT ![local[w].stage] = state]
            /\ holder' = [holder EXCEPT ![local[w].stage] = Nobody]
         \/ stage' = [s \in LateStage |->
                        IF stage[s] \in {"PENDING", "RUNNING"} THEN "CANCELED" ELSE stage[s]]
  PROVE  WorkersAlone'
<1>1. /\ pc'[w] = "idle" /\ \A v \in Worker \ {w} : pc'[v] = pc[v] /\ local'[v] = local[v]
      /\ \A v \in Worker : WorkerAlone(v) /\ local[v].stage \in LateStage
      /\ stage \in [LateStage -> StageState] /\ holder \in [LateStage -> Worker \cup {Nobody}]
  BY DEF Back, Goto, TypeInv, DocTypes, WorkersAlone, Frames
<1>2. WorkerAlone(w)'
  BY <1>1 DEF WorkerAlone, Written, ReportPc
<1>3. ASSUME NEW v \in Worker \ {w} PROVE WorkerAlone(v)'
  <2>1. pc'[v] = pc[v] /\ local'[v] = local[v] /\ WorkerAlone(v) /\ local[v].stage \in LateStage
    BY <1>1
  <2>2. CASE UNCHANGED << stage, holder >>
    BY <2>1, <2>2, OtherAlone
  <2>3. CASE /\ Holds(w)
             /\ \E state \in StageState : stage' = [stage EXCEPT ![local[w].stage] = state]
             /\ holder' = [holder EXCEPT ![local[w].stage] = Nobody]
    <3>1. pc[v] # "idle" => local[v].stage # local[w].stage
      BY <2>1, <2>3, <1>3 DEF WorkerAlone, Holds
    <3>2. local[v].stage # local[w].stage =>
            /\ stage'[local[v].stage] = stage[local[v].stage]
            /\ holder'[local[v].stage] = holder[local[v].stage]
      BY <1>1, <2>1, <2>3
    <3> QED BY <2>1, <3>1, <3>2, OtherAlone
  <2>4. CASE stage' = [s \in LateStage |->
                         IF stage[s] \in {"PENDING", "RUNNING"} THEN "CANCELED" ELSE stage[s]]
    <3>1. pc[v] # "idle" => stage'[local[v].stage] = "CANCELED"
      BY <2>1, <2>4 DEF WorkerAlone, Holds
    <3> QED BY <2>1, <3>1, OtherAlone
  <2> QED BY <2>2, <2>3, <2>4
<1> QED BY <1>2, <1>3 DEF WorkersAlone

\* Taking a stage nobody is at.
LEMMA AloneTake ==
  ASSUME TypeInv, WorkersAlone, NEW w \in Worker, NEW s \in LateStage, Take(w, s)
  PROVE  WorkersAlone'
<1>1. /\ pc[w] = "idle" /\ (stage[s] = "PENDING" \/ (stage[s] = "RUNNING" /\ ~Held(s)))
      /\ holder' = [holder EXCEPT ![s] = w] /\ stage' = [stage EXCEPT ![s] = "RUNNING"]
      /\ pc' = [pc EXCEPT ![w] = IF s = "report" THEN "measure" ELSE "find"]
      /\ local' = [local EXCEPT ![w] = Frame(s, IF s = "report" THEN made + 1 ELSE None)]
      /\ UNCHANGED files
  BY DEF Take, Begin, Goto
<1>2. /\ stage \in [LateStage -> StageState] /\ holder \in [LateStage -> Worker \cup {Nobody}]
      /\ \A v \in Worker : WorkerAlone(v) /\ local[v].stage \in LateStage
      /\ pc \in [Worker -> WorkPc \cup {"idle"}] /\ local \in [Worker -> Frames]
  BY DEF TypeInv, DocTypes, WorkersAlone, Frames
<1>3. WorkerAlone(w)'
  <2>1. pc'[w] \in {"measure", "find"} /\ local'[w].stage = s /\ local'[w].key = "timeline"
    BY <1>1, <1>2 DEF Frame
  <2>2. stage'[s] = "RUNNING" /\ holder'[s] = w
    BY <1>1, <1>2
  <2> QED BY <2>1, <2>2 DEF WorkerAlone, Holds, Written
<1>4. ASSUME NEW v \in Worker \ {w} PROVE WorkerAlone(v)'
  <2>1. pc'[v] = pc[v] /\ local'[v] = local[v] /\ WorkerAlone(v) /\ local[v].stage \in LateStage
    BY <1>1, <1>2
  <2>2. pc[v] # "idle" => local[v].stage # s
    <3>1. SUFFICES ASSUME pc[v] # "idle", local[v].stage = s PROVE FALSE
      OBVIOUS
    <3>2. stage[s] = "RUNNING" /\ holder[s] = v /\ ~Held(s)
      BY <1>1, <2>1, <3>1 DEF WorkerAlone, Holds
    <3>3. v # Nobody
      BY DocumentsAssumption DEF Nobody
    <3> QED BY <3>1, <3>2, <3>3 DEF Held
  <2>3. local[v].stage # s => /\ stage'[local[v].stage] = stage[local[v].stage]
                              /\ holder'[local[v].stage] = holder[local[v].stage]
    BY <1>1, <1>2, <2>1
  <2> QED BY <1>1, <2>1, <2>2, <2>3, OtherAlone
<1> QED BY <1>3, <1>4 DEF WorkersAlone

\* Writing a file: the writer is the only one that holds the report stage.
LEMMA AloneWrite ==
  ASSUME TypeInv, Workplaces, WorkersAlone, NEW w \in Worker, NEW p \in {"put", "record"},
         pc[w] \in {"unlink", "put"}, Goto(w, p), local' = local,
         UNCHANGED << stage, holder >>,
         \A k \in Key \ {local[w].key} : files'[k] = files[k],
         p = "record" => files'[local[w].key] = local[w].run
  PROVE  WorkersAlone' /\ ~Ready
<1>1. /\ pc'[w] = p /\ \A v \in Worker \ {w} : pc'[v] = pc[v]
      /\ \A v \in Worker : WorkerAlone(v) /\ WorkerPlace(v) /\ local[v] \in Frames
      /\ files \in [Key -> 0..made]
  BY DEF Goto, TypeInv, DocTypes, WorkersAlone, Workplaces
<1>2. local[w].stage = "report" /\ local[w].key \in Key /\ ~Ready
  BY <1>1 DEF WorkerPlace, Placed, ReportPc, WorkerAlone, Holds, Ready, Frames
<1>3. WorkerAlone(w)'
  <2>1. Holds(w)' <=> Holds(w)
    BY DEF Holds
  <2>2. Holds(w) => Written(p, local[w], files')
    BY <1>1, <1>2 DEF WorkerAlone, Written, ReportPc
  <2> QED BY <1>1, <2>1, <2>2 DEF WorkerAlone
<1>4. ASSUME NEW v \in Worker \ {w} PROVE WorkerAlone(v)'
  <2>1. pc'[v] = pc[v] /\ WorkerAlone(v) /\ WorkerPlace(v) /\ (Holds(v)' <=> Holds(v))
    BY <1>1, <1>4 DEF Holds
  <2>2. Holds(v) => local[v].stage # "report" \/ pc[v] = "idle"
    BY <1>1, <1>2, <1>4 DEF WorkerAlone, Holds
  <2>3. Holds(v) => Written(pc[v], local[v], files')
    BY <2>1, <2>2 DEF WorkerPlace, Placed, ReportPc, Written
  <2>4. pc[v] \notin {"shots", "summary", "settle"}
    BY <1>2, <2>1 DEF WorkerPlace, Placed, AggregatePc
  <2> QED BY <2>1, <2>3, <2>4 DEF WorkerAlone
<1> QED BY <1>2, <1>3, <1>4 DEF WorkersAlone

LEMMA AloneDocStep ==
  ASSUME TypeInv, Workplaces, WorkersAlone, NEW w \in Worker, DocStep(w) \/ DocFault(w), ~overrun'
  PROVE  /\ WorkersAlone'
         /\ Ready => files' = files
         /\ Ready' /\ ~Ready => files'["timeline"] = files'["report"]
<1> DEFINE Goal == /\ WorkersAlone'
                   /\ Ready => files' = files
                   /\ Ready' /\ ~Ready => files'["timeline"] = files'["report"]
<1>1. /\ WorkerAlone(w) /\ WorkerPlace(w) /\ local[w] \in Frames /\ local[w].stage \in LateStage
      /\ stage \in [LateStage -> StageState] /\ holder \in [LateStage -> Worker \cup {Nobody}]
      /\ local \in [Worker -> Frames] /\ pc \in [Worker -> WorkPc \cup {"idle"}]
      /\ files \in [Key -> 0..made]
  BY DEF TypeInv, DocTypes, WorkersAlone, Workplaces, Frames
<1>2. {"SUCCEEDED", "FAILED_TERMINAL", "PENDING"} \subseteq StageState
  BY DEF StageState
<1>3. CASE \E s \in LateStage : Take(w, s)
  <2>1. PICK s \in LateStage : Take(w, s)
    BY <1>3
  <2>2. UNCHANGED files /\ (Ready' => Ready)
    BY <1>1, <2>1 DEF Take, Begin, Ready
  <2> QED BY <2>1, <2>2, AloneTake
<1>4. CASE \E s \in LateStage : Overtake(w, s)
  BY <1>4 DEF Overtake
<1>5. CASE \E s \in LateStage : Refused(w, s)
  <2>1. UNCHANGED << stage, holder, files, pc, local >>
    BY <1>5 DEF Refused
  <2> QED BY <2>1 DEF WorkersAlone, WorkerAlone, Holds, Ready
<1>6. CASE HonorCancel(w)
  <2>1. /\ Back(w) /\ UNCHANGED files
        /\ stage' = [s \in LateStage |->
                       IF stage[s] \in {"PENDING", "RUNNING"} THEN "CANCELED" ELSE stage[s]]
    BY <1>6 DEF HonorCancel
  <2>2. Ready' => Ready
    BY <2>1 DEF Ready
  <2> QED BY <2>1, <2>2, AloneBack
<1>7. CASE Complete(w)
  <2>1. Back(w) /\ UNCHANGED files /\ pc[w] = "complete"
    BY <1>7 DEF Complete
  <2>2. CASE Holds(w)
    <3>1. /\ stage' = [stage EXCEPT ![local[w].stage] = "SUCCEEDED"]
          /\ holder' = [holder EXCEPT ![local[w].stage] = Nobody]
      BY <1>7, <2>2 DEF Complete
    <3>2. WorkersAlone'
      BY <1>2, <2>1, <2>2, <3>1, AloneBack
    <3>3. Ready' /\ ~Ready => local[w].stage = "report"
      BY <1>1, <3>1 DEF Ready
    <3>4. local[w].stage = "report" => files["timeline"] = files["report"]
      BY <1>1, <2>1, <2>2 DEF WorkerAlone, Written
    <3> QED BY <2>1, <3>2, <3>3, <3>4
  <2>3. CASE ~Holds(w)
    <3>1. UNCHANGED << stage, holder >>
      BY <1>7, <2>3 DEF Complete
    <3> QED BY <2>1, <3>1, AloneBack DEF Ready
  <2> QED BY <2>2, <2>3
<1>8. CASE FailTerminal(w)
  <2>1. Back(w) /\ UNCHANGED files
    BY <1>8 DEF FailTerminal
  <2>2. CASE Holds(w)
    <3>1. /\ stage' = [stage EXCEPT ![local[w].stage] = "FAILED_TERMINAL"]
          /\ holder' = [holder EXCEPT ![local[w].stage] = Nobody]
      BY <1>8, <2>2 DEF FailTerminal
    <3>2. WorkersAlone'
      BY <1>2, <2>1, <2>2, <3>1, AloneBack
    <3>3. Ready' => Ready
      BY <1>1, <3>1 DEF Ready
    <3> QED BY <2>1, <3>2, <3>3
  <2>3. CASE ~Holds(w)
    <3>1. UNCHANGED << stage, holder >>
      BY <1>8, <2>3 DEF FailTerminal
    <3> QED BY <2>1, <3>1, AloneBack DEF Ready
  <2> QED BY <2>2, <2>3
<1>9. CASE WorkFails(w) /\ ~FailTerminal(w)
  <2>1. /\ Back(w) /\ UNCHANGED files /\ Holds(w) /\ pc[w] \in ReportPc
        /\ stage' = [stage EXCEPT !["report"] = "PENDING"]
        /\ holder' = [holder EXCEPT !["report"] = Nobody]
    BY <1>9 DEF WorkFails
  <2>2. local[w].stage = "report"
    BY <1>1, <2>1 DEF WorkerPlace, Placed
  <2>3. WorkersAlone'
    BY <1>2, <2>1, <2>2, AloneBack
  <2>4. Ready' => Ready
    BY <1>1, <2>1 DEF Ready
  <2> QED BY <2>1, <2>3, <2>4
<1>10. CASE Crash(w)
  <2>1. Back(w) /\ UNCHANGED << stage, holder, files >>
    BY <1>10 DEF Crash
  <2> QED BY <2>1, AloneBack DEF Ready
<1>11. CASE Unlink(w) \/ Put(w)
  <2>1. PICK p \in {"put", "record"} :
          /\ Goto(w, p)
          /\ \A k \in Key \ {local[w].key} : files'[k] = files[k]
          /\ p = "record" => files'[local[w].key] = local[w].run
    BY <1>1, <1>11 DEF Unlink, Put, Frames
  <2>2. /\ pc[w] \in {"unlink", "put"} /\ UNCHANGED << stage, holder >>
        /\ local' = local
    BY <1>11 DEF Unlink, Put, InReport
  <2>3. WorkersAlone' /\ ~Ready
    BY <2>1, <2>2, AloneWrite
  <2> QED BY <2>2, <2>3 DEF Ready
<1>12. CASE Measure(w) \/ Record(w) \/ Find(w) \/ FindNothing(w) \/ SaveShots(w) \/ SaveSummary(w) \/ Settle(w)
  <2>1. UNCHANGED << stage, holder, files >> /\ pc[w] # "idle"
    BY <1>12 DEF Measure, Record, InReport, Find, FindNothing, SaveShots, SaveSummary, Settle,
                 InAggregate
  <2>2. After("find") = "shots" /\ After("shots") = "summary"
        /\ After("summary") = "settle" /\ After("settle") = "complete"
    BY DEF After, AggregateSteps
  <2>3. ASSUME NEW p, NEW frame,
               pc' = [pc EXCEPT ![w] = p], local' = [local EXCEPT ![w] = frame],
               frame.stage = local[w].stage,
               Holds(w) => Written(p, frame, files),
               p \in {"shots", "summary", "settle"} => frame.run = files["report"]
        PROVE  WorkersAlone'
    BY <2>1, <2>3, AloneMove
  <2>4. WorkersAlone'
    <3>1. CASE Measure(w)
      <4>1. pc[w] = "measure" /\ pc' = [pc EXCEPT ![w] = "unlink"] /\ local' = [local EXCEPT ![w] = local[w]]
        BY <1>1, <3>1 DEF Measure, InReport, Goto
      <4>2. Holds(w) => Written("unlink", local[w], files)
        BY <1>1, <4>1 DEF WorkerAlone, Written, ReportPc
      <4> QED BY <2>3, <4>1, <4>2
    <3>2. CASE Record(w) /\ local[w].key = "timeline"
      <4> DEFINE frame == [local[w] EXCEPT !.key = "report"]
      <4>1. pc[w] = "record" /\ pc' = [pc EXCEPT ![w] = "unlink"] /\ local' = [local EXCEPT ![w] = frame]
        BY <1>1, <3>2 DEF Record, InReport, Goto
      <4>2. frame \in Frames /\ frame.stage = local[w].stage /\ frame.run = local[w].run
        BY <1>1 DEF Frames
      <4> HIDE DEF frame
      <4>3. Holds(w) => Written("unlink", frame, files)
        BY <1>1, <3>2, <4>1, <4>2 DEF WorkerAlone, Written, ReportPc
      <4> QED BY <2>3, <4>1, <4>2, <4>3
    <3>3. CASE Record(w) /\ local[w].key # "timeline"
      <4>1. pc[w] = "record" /\ pc' = [pc EXCEPT ![w] = "complete"] /\ local' = [local EXCEPT ![w] = local[w]]
        BY <1>1, <3>3 DEF Record, InReport, Goto
      <4>2. local[w].key = "report"
        BY <1>1, <3>3 DEF Frames
      <4>3. Holds(w) => Written("complete", local[w], files)
        BY <1>1, <4>1, <4>2 DEF WorkerAlone, Written, ReportPc
      <4> QED BY <2>3, <4>1, <4>3
    <3>4. ASSUME pc[w] \in AggregatePc
          PROVE  /\ local[w].stage = "aggregate"
                 /\ \A p \in {"shots", "summary", "settle", "complete"} :
                      /\ p \in WorkPc /\ p # "idle"
                      /\ \A frame \in Frames : frame.stage = "aggregate" => Written(p, frame, files)
      BY <1>1, <3>4 DEF WorkerPlace, Placed, AggregatePc, WorkPc, Written, ReportPc
    <3>5. CASE Find(w)
      <4> DEFINE found == [of |-> files["report"], report |-> artifacts["report"],
                           timeline |-> artifacts["timeline"]]
                 frame == [local[w] EXCEPT !.run = files["report"], !.found = found]
      <4>1. /\ pc[w] \in AggregatePc /\ pc' = [pc EXCEPT ![w] = "shots"]
            /\ local' = [local EXCEPT ![w] = frame]
        BY <1>1, <2>2, <3>5 DEF Find, InAggregate, Goto, AggregatePc
      <4>2. found \in Summaries /\ files["report"] \in 0..made
        BY <1>1 DEF TypeInv, DocTypes, Summaries
      <4>3. frame \in Frames /\ frame.stage = local[w].stage /\ frame.run = files["report"]
        BY <1>1, <4>2 DEF Frames
      <4> HIDE DEF frame, found
      <4> QED BY <2>3, <3>4, <4>1, <4>3
    <3>6. CASE FindNothing(w) \/ SaveShots(w) \/ SaveSummary(w) \/ Settle(w)
      <4>1. PICK p \in {"summary", "settle", "complete"} :
              /\ pc' = [pc EXCEPT ![w] = p] /\ pc[w] \in AggregatePc
              /\ p # "complete" => pc[w] \in {"shots", "summary"}
        BY <2>2, <3>6 DEF FindNothing, SaveShots, SaveSummary, Settle, InAggregate, Goto, AggregatePc
      <4>2. local' = [local EXCEPT ![w] = local[w]]
        BY <1>1, <3>6 DEF FindNothing, SaveShots, SaveSummary, Settle, InAggregate
      <4>3. p \in {"shots", "summary", "settle"} => local[w].run = files["report"]
        BY <1>1, <4>1 DEF WorkerAlone
      <4> QED BY <1>1, <2>3, <3>4, <4>1, <4>2, <4>3
    <3> QED BY <1>12, <3>1, <3>2, <3>3, <3>5, <3>6
  <2> QED BY <2>1, <2>4 DEF Ready
<1> QED BY <1>3, <1>4, <1>5, <1>6, <1>7, <1>8, <1>9, <1>10, <1>11, <1>12
        DEF DocStep, DocFault, Mismatch, WorkFails

LEMMA TableDocStep ==
  ASSUME TypeInv, Workplaces, WorkersAlone, TableAlone,
         NEW w \in Worker, DocStep(w) \/ DocFault(w), ~overrun'
  PROVE  TableAlone'
<1>1. /\ Ready => Ready' /\ files' = files
      /\ Ready' /\ ~Ready => files'["timeline"] = files'["report"]
      /\ WorkerAlone(w) /\ WorkerPlace(w)
  BY StagesStay, AloneDocStep DEF DocNext, Ready, WorkersAlone, Workplaces
<1>2. Ready' => files'["timeline"] = files'["report"]
  BY <1>1 DEF TableAlone
<1>3. ASSUME summary' = summary,
             analysis'.state \in Good => analysis'.state = analysis.state
      PROVE  TableAlone'
  BY <1>1, <1>2, <1>3 DEF TableAlone, Final, Outcome, Workplaces, Published
<1>4. ASSUME NEW state, NEW progress, SetFromRunning(state, progress), state \notin Good,
             summary' = summary
      PROVE  TableAlone'
  BY <1>3, <1>4 DEF SetFromRunning
<1>5. "FAILED" \notin Good /\ "CANCELED" \notin Good
  BY DEF Good
<1>6. CASE \E s \in LateStage : Take(w, s) \/ Overtake(w, s)
  BY <1>3, <1>6 DEF Take, Overtake, Begin
<1>7. CASE \E s \in LateStage : Refused(w, s)
  BY <1>4, <1>5, <1>7 DEF Refused
<1>8. CASE HonorCancel(w)
  <2>1. analysis'.state = "CANCELED" /\ summary' = summary
    BY <1>8 DEF HonorCancel, TypeInv, DocTypes
  <2> QED BY <1>3, <1>5, <2>1
<1>9. CASE FailTerminal(w)
  BY <1>4, <1>5, <1>9 DEF FailTerminal
<1>10. CASE FindNothing(w)
  BY <1>4, <1>5, <1>10 DEF FindNothing
<1>11. CASE \/ Complete(w) \/ (WorkFails(w) /\ ~FailTerminal(w)) \/ Crash(w) \/ Measure(w) \/ Unlink(w)
            \/ Put(w) \/ Record(w) \/ Find(w) \/ SaveShots(w)
  BY <1>3, <1>11 DEF Complete, WorkFails, Crash, Measure, Unlink, Put, Record, InReport, Find, SaveShots
<1>12. CASE SaveSummary(w)
  <2>1. /\ pc[w] = "summary" /\ summary' = local[w].found /\ UNCHANGED << analysis, files, stage >>
    BY <1>12 DEF SaveSummary, InAggregate
  <2>2. Ready /\ local[w].found.of = files["report"]
    BY <1>1, <2>1 DEF WorkerAlone, WorkerPlace, Placed, AggregatePc
  <2> QED BY <1>1, <1>2, <2>1, <2>2 DEF TableAlone, Final
<1>13. CASE Settle(w)
  <2>1. /\ pc[w] = "settle" /\ UNCHANGED << summary, files, stage >>
        /\ SetFromRunning(Outcome(local[w].run), 100)
    BY <1>13 DEF Settle, InAggregate
  <2>2. Ready /\ local[w].run = files["report"]
    BY <1>1, <2>1 DEF WorkerAlone, WorkerPlace, Placed, AggregatePc
  <2>3. analysis'.state \in Good => analysis'.state = Outcome(files["report"])
    BY <2>1, <2>2 DEF SetFromRunning, TableAlone
  <2> QED BY <1>1, <1>2, <2>1, <2>3 DEF TableAlone, Final, Outcome
<1> QED BY <1>6, <1>7, <1>8, <1>9, <1>10, <1>11, <1>12, <1>13 DEF DocStep, DocFault, Mismatch, WorkFails

\* What readers have seen of the final report stays that of the final report.
LEMMA ViewsKeep ==
  ASSUME TypeInv, Workplaces, PageBacked, ViewsAlone,
         Ready => Ready' /\ files'["report"] = files["report"],
         UNCHANGED << criticVars, session >>
  PROVE  ViewsAlone'
<1>1. session.job.state \in Good => Ready
  BY DEF PageBacked
<1>2. session.status.state \in Good => Ready
  BY DEF PageBacked, ViewsAlone, Final
<1> QED BY <1>1, <1>2 DEF ViewsAlone, Final, criticVars, Outcome

LEMMA ViewsCritic ==
  ASSUME TypeInv, Workplaces, ViewsAlone, NEW c \in Critic, CriticStep(c) \/ Redeliver(c),
         UNCHANGED << analysis, rowVars, storeVars, session >>
  PROVE  ViewsAlone'
<1>1. /\ critic \in [Critic -> CriticFrames] /\ critic[c] \in CriticFrames
      /\ critiques \in Seq(CritiqueRow) /\ Len(critiques) \in Nat
      /\ Final(critic[c].of)
  BY DEF TypeInv, CriticTypes, ViewsAlone
<1>2. ASSUME Final(critic'[c].of), \A d \in Critic \ {c} : critic'[d] = critic[d],
             \A i \in 1..Len(critiques') : Final(critiques'[i].of)
      PROVE  ViewsAlone'
  BY <1>2 DEF ViewsAlone, Final, Ready, Outcome
<1>3. \A d \in Critic \ {c} : critic'[d] = critic[d]
  BY <1>1 DEF CriticStep, ReadReport, LookUp, SaveCritique, Ends, Redeliver
<1>4. \A i \in 1..Len(critiques) : Final(critiques[i].of)
  BY DEF ViewsAlone
<1>5. CASE Redeliver(c)
  <2>1. critic'[c].of = None /\ critiques' = critiques
    BY <1>1, <1>5 DEF Redeliver, NoCritic
  <2> QED BY <1>2, <1>3, <1>4, <2>1 DEF Final
<1>6. CASE ReadReport(c)
  <2>1. critiques' = critiques
    BY <1>6 DEF ReadReport
  <2>2. critic'[c].of = critic[c].of \/ (summary # NoSummary /\ critic'[c].of = files["report"])
    BY <1>1, <1>6 DEF ReadReport, Ends, CriticFrames
  <2>3. Final(critic'[c].of)
    BY <1>1, <2>2 DEF Final, Workplaces, Published
  <2> QED BY <1>2, <1>3, <1>4, <2>1, <2>3
<1>7. CASE LookUp(c)
  <2>1. critiques' = critiques /\ critic'[c].of = critic[c].of
    BY <1>1, <1>7 DEF LookUp, Ends, CriticFrames
  <2> QED BY <1>1, <1>2, <1>3, <1>4, <2>1
<1>8. CASE SaveCritique(c)
  <2>1. \E row : row.of = critic[c].of /\ critiques' = Append(critiques, row)
    BY <1>8 DEF SaveCritique
  <2>2. critic'[c].of = critic[c].of
    BY <1>1, <1>8 DEF SaveCritique, Ends, CriticFrames
  <2>3. \A i \in 1..Len(critiques') : critiques'[i].of = critic[c].of
                                      \/ (i \in 1..Len(critiques) /\ critiques'[i] = critiques[i])
    BY <1>1, <2>1
  <2> QED BY <1>1, <1>2, <1>3, <1>4, <2>2, <2>3
<1> QED BY <1>5, <1>6, <1>7, <1>8 DEF CriticStep

LEMMA ServedFinal ==
  ASSUME TypeInv, Workplaces, TableAlone, NEW key \in Key
  PROVE  Final(Served(key))
BY DEF Served, Final, TableAlone, Workplaces, Published, Good

LEMMA ViewsSession ==
  ASSUME TypeInv, Workplaces, TableAlone, PageBacked, ViewsAlone, SessionStep \/ Unreachable
  PROVE  ViewsAlone'
<1>1. /\ session \in Pages /\ UNCHANGED << criticVars, analysis, rowVars, storeVars >>
      /\ critiques \in Seq(CritiqueRow)
  BY DEF SessionStep, PollJob, PollSummary, PollRuns, GetReport, GetCritique, GetShot, GetTimeline,
         Shows, Unreachable, docVars, TypeInv, SessionTypes, CriticTypes
<1>2. ASSUME session'.job.state \in Good => session'.job.state = Outcome(files["report"]),
             session'.status.state \in Good => session'.status.state = Outcome(files["report"]),
             Final(session'.of), Final(session'.status.of), Final(session'.report),
             Final(session'.shot), Final(session'.timeline), Final(session'.critique)
      PROVE  ViewsAlone'
  BY <1>1, <1>2 DEF ViewsAlone, Final, Ready, Outcome, criticVars
<1>3. /\ Final(Served("report")) /\ Final(Served("timeline"))
      /\ Final(summary.of) /\ Final(session.report)
  BY ServedFinal DEF TableAlone, ViewsAlone
<1>4. critiques # << >> => Final(critiques[Len(critiques)].of)
  BY <1>1 DEF ViewsAlone
<1>5. CASE PollJob
  <2>1. /\ session'.job = analysis /\ session'.status = session.status /\ session'.of = session.of
        /\ session'.report = session.report /\ session'.shot = session.shot
        /\ session'.timeline = session.timeline /\ session'.critique = session.critique
    BY <1>1, <1>5 DEF PollJob, Pages
  <2> QED BY <1>2, <2>1 DEF ViewsAlone, TableAlone
<1>6. CASE PollSummary
  <2>1. /\ session'.job = session.job /\ session'.status = session.status /\ session'.of = summary.of
        /\ session'.report = session.report /\ session'.shot = session.shot
        /\ session'.timeline = session.timeline /\ session'.critique = session.critique
    BY <1>1, <1>6 DEF PollSummary, Pages
  <2> QED BY <1>2, <1>3, <2>1 DEF ViewsAlone
<1>7. CASE PollRuns
  <2>1. /\ session'.job.state = "QUEUED" /\ session'.of = None
        /\ session'.status = build_status(session.job, session.of, Completed)
        /\ session'.report = session.report /\ session'.shot = session.shot
        /\ session'.timeline = session.timeline /\ session'.critique = session.critique
    BY <1>1, <1>7 DEF PollRuns, Pages
  <2>2. session'.status.state = session.job.state /\ session'.status.of = session.of
    BY <2>1 DEF build_status
  <2>3. Final(session'.of)
    BY <2>1 DEF Final
  <2>4. session'.job.state \notin Good
    BY <2>1 DEF Good
  <2> QED BY <1>2, <2>1, <2>2, <2>3, <2>4 DEF ViewsAlone
<1>8. CASE GetReport \/ GetCritique \/ GetShot \/ GetTimeline \/ Unreachable
  <2>1. /\ session'.job = session.job /\ session'.status = session.status /\ session'.of = session.of
    BY <1>1, <1>8 DEF GetReport, GetCritique, GetShot, GetTimeline, Unreachable, Pages
  <2>2. session'.report \in {session.report, Served("report")}
    BY <1>1, <1>8 DEF GetReport, GetCritique, GetShot, GetTimeline, Unreachable, Pages
  <2>3. session'.shot \in {session.shot, session.report, Served("report")}
    BY <1>1, <1>8 DEF GetReport, GetCritique, GetShot, GetTimeline, Unreachable, Pages
  <2>4. session'.timeline \in {session.timeline, Served("timeline")}
    BY <1>1, <1>8 DEF GetReport, GetCritique, GetShot, GetTimeline, Unreachable, Pages
  <2>5. Final(session'.critique)
    <3>1. \/ session'.critique = session.critique \/ session'.critique = None
          \/ (critiques # << >> /\ session'.critique = critiques[Len(critiques)].of)
      BY <1>1, <1>8 DEF GetReport, GetCritique, GetShot, GetTimeline, Unreachable, Pages
    <3> QED BY <1>4, <3>1 DEF ViewsAlone, Final
  <2>6. Final(session'.report) /\ Final(session'.shot) /\ Final(session'.timeline)
    BY <1>3, <2>2, <2>3, <2>4 DEF ViewsAlone
  <2> QED BY <1>2, <2>1, <2>5, <2>6 DEF ViewsAlone
<1> QED BY <1>5, <1>6, <1>7, <1>8 DEF SessionStep

OneRun == ~overrun => WorkersAlone /\ TableAlone /\ ViewsAlone

LEMMA OneRunNext ==
  TypeInv /\ Workplaces /\ PageBacked /\ OneRun /\ [Next]_allVars => OneRun'
<1> SUFFICES ASSUME TypeInv, Workplaces, PageBacked, OneRun, [Next]_allVars, ~overrun'
             PROVE  WorkersAlone' /\ TableAlone' /\ ViewsAlone'
  BY DEF OneRun
<1>1. CASE (CancelRead \/ CancelWrite) /\ UNCHANGED << criticVars, session >>
  <2>1. /\ UNCHANGED << stage, holder, files, summary, pc, local, overrun >>
        /\ analysis' = analysis \/ analysis'.state = "CANCEL_REQUESTED"
    BY <1>1 DEF CancelRead, CancelWrite, TypeInv, DocTypes
  <2>2. WorkersAlone /\ TableAlone /\ ViewsAlone
    BY <2>1 DEF OneRun
  <2>3. WorkersAlone'
    BY <2>1, <2>2 DEF WorkersAlone, WorkerAlone, Holds
  <2>4. TableAlone'
    BY <2>1, <2>2 DEF TableAlone, Final, Ready, Good, Outcome
  <2>5. ViewsAlone'
    BY <1>1, <2>1, <2>2, ViewsKeep DEF Ready
  <2> QED BY <2>3, <2>4, <2>5
<1>2. CASE (\E w \in Worker : DocStep(w) \/ DocFault(w)) /\ UNCHANGED << criticVars, session >>
  <2>1. PICK w \in Worker : DocStep(w) \/ DocFault(w)
    BY <1>2
  <2>2. ~overrun
    <3>1. CASE \E s \in LateStage : Overtake(w, s)
      BY <3>1 DEF Overtake
    <3>2. CASE \/ \E s \in LateStage : Take(w, s) \/ Refused(w, s)
               \/ HonorCancel(w) \/ Complete(w) \/ Mismatch(w) \/ WorkFails(w) \/ Crash(w)
      BY <3>2 DEF Take, Refused, HonorCancel, Complete, Mismatch, WorkFails, FailTerminal, Crash
    <3>3. CASE \/ Measure(w) \/ Unlink(w) \/ Put(w) \/ Record(w)
               \/ Find(w) \/ FindNothing(w) \/ SaveShots(w) \/ SaveSummary(w) \/ Settle(w)
      BY <3>3 DEF Measure, Unlink, Put, Record, InReport, Find, FindNothing, SaveShots, SaveSummary,
                  Settle, InAggregate
    <3> QED BY <2>1, <3>1, <3>2, <3>3 DEF DocStep, DocFault
  <2>3. WorkersAlone /\ TableAlone /\ ViewsAlone
    BY <2>2 DEF OneRun
  <2>4. WorkersAlone' /\ TableAlone' /\ (Ready => Ready' /\ files' = files)
    BY <2>1, <2>3, AloneDocStep, TableDocStep, StagesStay DEF DocNext, Ready
  <2>5. ViewsAlone'
    BY <1>2, <2>3, <2>4, ViewsKeep
  <2> QED BY <2>4, <2>5
<1>3. ASSUME UNCHANGED << analysis, rowVars, storeVars, pc, local >>
      PROVE  WorkersAlone' /\ TableAlone' /\ WorkersAlone /\ TableAlone /\ ViewsAlone
  BY <1>3 DEF OneRun, WorkersAlone, WorkerAlone, Holds, TableAlone, Final, Ready, Outcome
<1>4. CASE (\E c \in Critic : CriticStep(c) \/ Redeliver(c)) /\ UNCHANGED session
  BY <1>3, <1>4, OthersKeepDocs, ViewsCritic
<1>5. CASE SessionStep \/ Unreachable
  BY <1>3, <1>5, OthersKeepDocs, ViewsSession
<1>6. CASE UNCHANGED allVars
  <2>1. UNCHANGED << analysis, rowVars, storeVars, pc, local, criticVars, session >>
    BY <1>6 DEF allVars, docVars
  <2> QED BY <1>3, <2>1, ViewsKeep DEF Ready
<1> QED BY <1>1, <1>2, <1>4, <1>5, <1>6 DEF Next, DocNext

LEMMA OneRunInit == Init => OneRun
<1> SUFFICES ASSUME Init PROVE WorkersAlone /\ TableAlone /\ ViewsAlone
  BY DEF OneRun
<1>1. WorkersAlone
  BY DEF Init, DocInit, WorkersAlone, WorkerAlone, Written, ReportPc
<1>2. TableAlone
  BY DEF Init, DocInit, TableAlone, Final, Ready, Good, NoSummary
<1>3. ViewsAlone
  BY DEF Init, CriticInit, SessionInit, ViewsAlone, Final, Good, NoStatus, NoCritic
<1> QED BY <1>1, <1>2, <1>3

LEMMA OneRunInvariance == Spec => [](PageBacked /\ OneRun)
<1>1. Init => OneRun
  BY OneRunInit
<1> QED BY <1>1, PageInvariance, OneRunNext, PTL DEF Spec

\* A status that reports a result agrees with itself, although it is read in three
\* parts while workers, crashes and cancels go on (get_analysis, build_status).
THEOREM StatusesAgree == Spec => []StatusAgrees
<1>1. PageBacked /\ OneRun => StatusAgrees
  BY DEF PageBacked, OneRun, ViewsAlone, Final, StatusAgrees, Good
<1> QED BY <1>1, OneRunInvariance, PTL

\* Unless a worker outlasted its lease, a page shows one run of the pipeline
\* (put_replaceable, save_report_summary, persist_critique_for_job).
THEOREM PagesShowOneRun == Spec => []OneRunShown
<1>1. PageBacked /\ OneRun => OneRunShown
  BY DEF PageBacked, OneRun, ViewsAlone, Final, OneRunShown
<1> QED BY <1>1, OneRunInvariance, PTL

=============================================================================
