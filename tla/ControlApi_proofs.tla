-------------------------- MODULE ControlApi_proofs --------------------------
(***************************************************************************)
(* Theorems about ControlApi: types, the order of files and rows, and what *)
(* an accepted analysis and its reader may rely on.                        *)
(***************************************************************************)
EXTENDS ControlApi, TLAPS

-----------------------------------------------------------------------------
(* Records.                                                                *)

\* A handler's frame with fields replaced.
LEMMA FrameContent ==
  ASSUME NEW q \in Frame, NEW c \in Content
  PROVE  [q EXCEPT !.content = c] \in Frame /\ [q EXCEPT !.content = c].content = c
BY DEF Frame

LEMMA FrameVideo ==
  ASSUME NEW q \in Frame, NEW v \in Uploader \cup {None}
  PROVE  /\ [q EXCEPT !.video = v] \in Frame
         /\ [q EXCEPT !.video = v].video = v
         /\ [q EXCEPT !.video = v].content = q.content
BY DEF Frame

\* An analysis row with one of its columns replaced.
LEMMA RowState ==
  ASSUME NEW q \in Row, NEW s \in AnalysisState
  PROVE  /\ [q EXCEPT !.state = s] \in Row
         /\ [q EXCEPT !.state = s].state = s
         /\ [q EXCEPT !.state = s].config = q.config
         /\ [q EXCEPT !.state = s].stages = q.stages
         /\ [q EXCEPT !.state = s].summary = q.summary
BY DEF Row

LEMMA RowConfig ==
  ASSUME NEW q \in Row, NEW g \in Config
  PROVE  /\ [q EXCEPT !.config = g] \in Row
         /\ [q EXCEPT !.config = g].state = q.state
         /\ [q EXCEPT !.config = g].config = g
         /\ [q EXCEPT !.config = g].stages = q.stages
         /\ [q EXCEPT !.config = g].summary = q.summary
BY DEF Row

LEMMA RowStages ==
  ASSUME NEW q \in Row
  PROVE  /\ [q EXCEPT !.stages = TRUE] \in Row
         /\ [q EXCEPT !.stages = TRUE].state = q.state
         /\ [q EXCEPT !.stages = TRUE].config = q.config
         /\ [q EXCEPT !.stages = TRUE].stages
         /\ [q EXCEPT !.stages = TRUE].summary = q.summary
BY DEF Row

LEMMA RowSummary ==
  ASSUME NEW q \in Row
  PROVE  /\ [q EXCEPT !.summary = TRUE] \in Row
         /\ [q EXCEPT !.summary = TRUE].state = q.state
         /\ [q EXCEPT !.summary = TRUE].config = q.config
         /\ [q EXCEPT !.summary = TRUE].stages = q.stages
         /\ [q EXCEPT !.summary = TRUE].summary
BY DEF Row

LEMMA NewRow ==
  /\ NoRow \in Row /\ NoRow.state = "none" /\ NoRow.config = NoConfig
  /\ ~NoRow.stages /\ ~NoRow.summary
BY DEF Row, NoRow

-----------------------------------------------------------------------------
(* Types.                                                                  *)

\* A request past its first step carries what it is about.
Carries(label, q) ==
  /\ label \in UploadPc => q.content \in Content
  /\ label \in ApiPc \cup {"accepted"} => << q.content, q.config >> \in Key

TypeInv == ApiTypeOK /\ \A r \in Request : Carries(pc[r], req[r])

\* One request moves, and changes its own frame.
LEMMA RequestMoves ==
  ASSUME TypeInv, NEW r \in Request, NEW label \in Pc, NEW q \in Frame, Carries(label, q),
         pc' = [pc EXCEPT ![r] = label], req' = [req EXCEPT ![r] = q]
  PROVE  /\ pc' \in [Request -> Pc] /\ req' \in [Request -> Frame]
         /\ \A p \in Request : Carries(pc'[p], req'[p])
BY DEF TypeInv, ApiTypeOK

\* The same when the frame stays.
LEMMA RequestOnlyMoves ==
  ASSUME TypeInv, NEW r \in Request, NEW label \in Pc, Carries(label, req[r]),
         pc' = [pc EXCEPT ![r] = label], UNCHANGED req
  PROVE  /\ pc' \in [Request -> Pc] /\ req' \in [Request -> Frame]
         /\ \A p \in Request : Carries(pc'[p], req'[p])
BY DEF TypeInv, ApiTypeOK

\* The labels of each kind of request.
LEMMA Labels ==
  /\ UploadPc \subseteq Pc /\ ApiPc \subseteq Pc /\ EndPc \subseteq Pc
  /\ UploadPc \cap (ApiPc \cup EndPc) = {} /\ ApiPc \cap EndPc = {}
  /\ "new" \notin UploadPc \cup ApiPc \cup EndPc
  /\ {"stage", "dedupe", "probe", "promote", "put_probe", "commit_probe",
      "insert_original", "insert_probe", "insert_video"} = UploadPc
  /\ {"quota", "count", "lookup", "insert", "record", "ensure", "enqueue", "cancel",
      "read_report"} = ApiPc
  /\ {"answered", "refused", "dead", "accepted", "canceled", "served", "missing"} = EndPc
BY DEF UploadPc, ApiPc, EndPc, Pc

\* A request that has ended carries nothing any more, but for an accepted one.
LEMMA EndedCarries ==
  ASSUME NEW label \in EndPc \ {"accepted"}, NEW q
  PROVE  Carries(label, q)
BY Labels DEF Carries

\* The requests' part of the invariant, and the files' and rows' part.
RequestPart ==
  /\ pc \in [Request -> Pc] /\ req \in [Request -> Frame]
  /\ \A r \in Request : Carries(pc[r], req[r])

StorePart ==
  /\ ephemeral \subseteq Prefix \X Request
  /\ canonical \in Blobs /\ artifacts \in Blobs
  /\ videos \in [Content -> Uploader \cup {None}]
  /\ faults \in Nat

AnalysisPart ==
  /\ analyses \in [Key -> Row] /\ worker \in [Key -> Run]
  /\ reports \subseteq Key /\ commands \subseteq Key /\ dropped \subseteq Key

LEMMA Parts == TypeInv <=> RequestPart /\ StorePart /\ AnalysisPart
BY DEF TypeInv, ApiTypeOK, RequestPart, StorePart, AnalysisPart

LEMMA PartsPrimed == TypeInv' <=> RequestPart' /\ StorePart' /\ AnalysisPart'
BY DEF TypeInv, ApiTypeOK, RequestPart, StorePart, AnalysisPart

\* An upload that ends, with an error or with a video.
LEMMA RefuseTypes ==
  ASSUME TypeInv, NEW r \in Request, Refuse(r)
  PROVE  RequestPart' /\ ephemeral' \subseteq Prefix \X Request
<1>1. /\ pc' = [pc EXCEPT ![r] = "refused"] /\ UNCHANGED req
      /\ ephemeral' \subseteq ephemeral
  BY DEF Refuse, Goto
<1>2. "refused" \in Pc /\ Carries("refused", req[r])
  BY Labels, EndedCarries
<1> QED
  BY <1>1, <1>2, RequestOnlyMoves DEF RequestPart, TypeInv, ApiTypeOK

LEMMA AnswerTypes ==
  ASSUME TypeInv, NEW r \in Request, NEW video \in Uploader \cup {None}, Answer(r, video)
  PROVE  RequestPart' /\ ephemeral' \subseteq Prefix \X Request
<1> DEFINE q == [req[r] EXCEPT !.video = video]
<1>1. /\ pc' = [pc EXCEPT ![r] = "answered"] /\ req' = [req EXCEPT ![r] = q]
      /\ ephemeral' \subseteq ephemeral
  BY DEF Answer, Goto
<1>2. q \in Frame
  BY FrameVideo DEF TypeInv, ApiTypeOK
<1>3. "answered" \in Pc /\ Carries("answered", q)
  BY Labels, EndedCarries
<1> HIDE DEF q
<1> QED
  BY <1>1, <1>2, <1>3, RequestMoves DEF RequestPart, TypeInv, ApiTypeOK

\* A step of an upload that goes on.
LEMMA GotoTypes ==
  ASSUME TypeInv, NEW r \in Request, pc[r] \in UploadPc, NEW label \in UploadPc,
         Goto(r, label), UNCHANGED req
  PROVE  RequestPart'
<1>1. label \in Pc /\ Carries(label, req[r])
  BY Labels DEF Carries, TypeInv
<1> QED
  BY <1>1, RequestOnlyMoves DEF Goto, RequestPart

\* Every step of an upload keeps the types.
LEMMA UploadTypes ==
  ASSUME TypeInv, NEW r \in Request, UploadStep(r), UNCHANGED apiVars
  PROVE  TypeInv'
<1>1. AnalysisPart'
  BY Parts DEF AnalysisPart, apiVars
<1>2. /\ << "quarantine", r >> \in Prefix \X Request /\ << "tmp", r >> \in Prefix \X Request
      /\ << "tmp_probe", r >> \in Prefix \X Request /\ r \in Uploader
  BY DEF Prefix, Uploader
<1>3. RequestPart /\ StorePart
  BY Parts
<1>4. pc[r] \in UploadPc => req[r].content \in Content
  BY DEF TypeInv, Carries
<1>5. SUFFICES RequestPart' /\ StorePart'
  BY <1>1, PartsPrimed
<1>6. ASSUME NEW c \in Content, ReceiveUpload(r, c)
      PROVE  RequestPart' /\ StorePart'
  <2> DEFINE q == [req[r] EXCEPT !.content = c]
  <2>1. pc' = [pc EXCEPT ![r] = "stage"] /\ req' = [req EXCEPT ![r] = q]
    BY <1>6 DEF ReceiveUpload, Goto
  <2>2. q \in Frame /\ q.content = c
    BY FrameContent DEF TypeInv, ApiTypeOK
  <2>3. "stage" \in Pc /\ Carries("stage", q)
    BY <2>2, Labels DEF Carries
  <2> HIDE DEF q
  <2>4. RequestPart'
    BY <2>1, <2>2, <2>3, RequestMoves DEF RequestPart
  <2>5. ephemeral' \subseteq Prefix \X Request
    BY <1>2, <1>3, <1>6 DEF ReceiveUpload, StorePart
  <2>6. UNCHANGED << canonical, artifacts, videos, faults >>
    BY <1>6 DEF ReceiveUpload, store
  <2> QED
    BY <1>3, <2>4, <2>5, <2>6 DEF StorePart
<1>7. CASE Stage(r)
  <2>1. CASE Refuse(r)
    BY <1>3, <1>7, <2>1, RefuseTypes DEF Stage, Refuse, StorePart, store
  <2>2. CASE Goto(r, "dedupe") /\ UNCHANGED req
    BY <1>2, <1>3, <1>7, <2>2, GotoTypes, Labels DEF Stage, Refuse, StorePart, store
  <2> QED
    BY <1>7, <2>1, <2>2 DEF Stage
<1>8. CASE Dedupe(r)
  <2>0. pc[r] \in UploadPc
    BY <1>8, Labels DEF Dedupe
  <2>1. CASE Answer(r, videos[req[r].content])
    <3>1. videos[req[r].content] \in Uploader \cup {None}
      BY <1>3, <1>4, <2>0 DEF StorePart
    <3> QED
      BY <1>3, <1>8, <2>1, <3>1, AnswerTypes DEF Dedupe, StorePart, store
  <2>2. CASE Goto(r, "probe") /\ UNCHANGED << req, ephemeral >>
    BY <1>3, <1>8, <2>0, <2>2, GotoTypes, Labels DEF Dedupe, StorePart, store
  <2> QED
    BY <1>8, <2>1, <2>2 DEF Dedupe
<1>9. CASE Probe(r)
  <2>1. CASE Refuse(r)
    BY <1>3, <1>9, <2>1, RefuseTypes DEF Probe, Refuse, StorePart, store
  <2>2. CASE Goto(r, "promote") /\ UNCHANGED << req, ephemeral, store >>
    BY <1>3, <1>9, <2>2, GotoTypes, Labels DEF Probe, StorePart, store
  <2> QED
    BY <1>9, <2>1, <2>2 DEF Probe
<1>10. CASE Promote(r)
  <2>1. CASE Refuse(r)
    BY <1>3, <1>10, <2>1, RefuseTypes DEF Promote, Refuse, StorePart, store
  <2>2. CASE /\ Goto(r, "put_probe")
             /\ canonical' = [canonical EXCEPT !.original = @ \cup {req[r].content}]
             /\ ephemeral' = ephemeral \ {<< "tmp", r >>}
             /\ UNCHANGED << req, artifacts, videos >>
    <3>1. pc[r] \in UploadPc
      BY <1>10, Labels DEF Promote
    <3>2. RequestPart'
      BY <2>2, <3>1, GotoTypes, Labels
    <3>3. canonical' \in Blobs
      BY <1>3, <1>4, <2>2, <3>1 DEF StorePart, Blobs
    <3> QED
      BY <1>3, <1>10, <2>2, <3>2, <3>3 DEF Promote, StorePart
  <2> QED
    BY <1>10, <2>1, <2>2 DEF Promote
<1>11. CASE PutProbe(r)
  <2>1. RequestPart'
    BY <1>11, GotoTypes, Labels DEF PutProbe
  <2> QED
    BY <1>2, <1>3, <1>11, <2>1 DEF PutProbe, StorePart, store
<1>17. CASE CommitProbe(r)
  <2>1. CASE Refuse(r)
    BY <1>3, <1>17, <2>1, RefuseTypes DEF CommitProbe, Refuse, StorePart, store
  <2>2. CASE /\ Goto(r, "insert_original")
             /\ canonical' = [canonical EXCEPT !.probe = @ \cup {r}]
             /\ ephemeral' = ephemeral \ {<< "tmp_probe", r >>}
             /\ UNCHANGED << req, artifacts, videos >>
    <3>1. pc[r] \in UploadPc
      BY <1>17, Labels DEF CommitProbe
    <3>2. RequestPart'
      BY <2>2, <3>1, GotoTypes, Labels
    <3>3. canonical' \in Blobs
      BY <1>2, <1>3, <2>2 DEF StorePart, Blobs
    <3> QED
      BY <1>3, <1>17, <2>2, <3>2, <3>3 DEF CommitProbe, StorePart
  <2> QED
    BY <1>17, <2>1, <2>2 DEF CommitProbe
<1>18. CASE CommitProbeRaises(r)
  <2>1. "refused" \in Pc /\ Carries("refused", req[r])
    BY Labels, EndedCarries
  <2>2. RequestPart'
    BY <1>18, <2>1, RequestOnlyMoves DEF CommitProbeRaises, Goto, RequestPart
  <2> QED
    BY <1>3, <1>18, <2>2 DEF CommitProbeRaises, StorePart, store
<1>12. CASE InsertOriginal(r)
  <2>1. RequestPart'
    BY <1>12, GotoTypes, Labels DEF InsertOriginal
  <2>2. artifacts' \in Blobs
    BY <1>3, <1>4, <1>12, Labels DEF InsertOriginal, StorePart, Blobs
  <2> QED
    BY <1>3, <1>12, <2>1, <2>2 DEF InsertOriginal, StorePart
<1>13. CASE InsertProbe(r)
  <2>1. RequestPart'
    BY <1>13, GotoTypes, Labels DEF InsertProbe
  <2>2. artifacts' \in Blobs
    BY <1>2, <1>3, <1>13 DEF InsertProbe, StorePart, Blobs
  <2> QED
    BY <1>3, <1>13, <2>1, <2>2 DEF InsertProbe, StorePart
<1>14. CASE InsertVideo(r)
  <2>1. req[r].content \in Content /\ videos[req[r].content] \in Uploader \cup {None}
    BY <1>3, <1>4, <1>14, Labels DEF InsertVideo, StorePart
  <2>2. CASE videos' = [videos EXCEPT ![req[r].content] = r] /\ Answer(r, r)
    BY <1>2, <1>3, <1>14, <2>1, <2>2, AnswerTypes DEF InsertVideo, StorePart
  <2>3. CASE UNCHANGED videos /\ Answer(r, videos[req[r].content])
    BY <1>3, <1>14, <2>1, <2>3, AnswerTypes DEF InsertVideo, StorePart
  <2> QED
    BY <1>14, <2>2, <2>3 DEF InsertVideo
<1>15. CASE UploadFails(r)
  BY <1>3, <1>15, RefuseTypes DEF UploadFails, Refuse, StorePart, store
<1>16. CASE UploadDies(r)
  <2>1. "dead" \in Pc /\ Carries("dead", req[r])
    BY Labels, EndedCarries
  <2>2. RequestPart'
    BY <1>16, <2>1, RequestOnlyMoves DEF UploadDies, Goto, RequestPart
  <2> QED
    BY <1>3, <1>16, <2>2 DEF UploadDies, StorePart, store
<1> QED
  BY <1>6, <1>7, <1>8, <1>9, <1>10, <1>11, <1>12, <1>13, <1>14, <1>15, <1>16, <1>17, <1>18
  DEF UploadStep

LEMMA IngestTypes ==
  ASSUME TypeInv, IngestNext, UNCHANGED apiVars
  PROVE  TypeInv'
<1>1. ASSUME NEW f \in ephemeral, Purge(f)
      PROVE  TypeInv'
  BY <1>1 DEF Purge, TypeInv, ApiTypeOK, store, apiVars
<1> QED
  BY <1>1, UploadTypes DEF IngestNext

\* A step of another request that moves and leaves its frame.
LEMMA EndsTypes ==
  ASSUME TypeInv, NEW r \in Request, pc[r] \in ApiPc, NEW label \in ApiPc \cup EndPc,
         Ends(r, label)
  PROVE  RequestPart' /\ StorePart'
<1>1. label \in Pc /\ Carries(label, req[r])
  BY Labels DEF Carries, TypeInv
<1> QED
  BY <1>1, RequestOnlyMoves, Parts DEF Ends, Goto, RequestPart, StorePart, store

\* Every step of another request keeps the types.
LEMMA RequestTypes ==
  ASSUME TypeInv, NEW r \in Request, RequestStep(r)
  PROVE  TypeInv'
<1>0. RequestPart /\ StorePart /\ AnalysisPart
  BY Parts
<1>1. req[r] \in Frame /\ (pc[r] \in ApiPc => KeyOf(r) \in Key)
  BY <1>0 DEF RequestPart, Carries, KeyOf
<1>2. \A k \in Key : analyses[k] \in Row /\ analyses[k].state \in AnalysisState \cup {"none"}
  BY <1>0 DEF AnalysisPart, Row
<1>3. \A k \in Key : k = << k[1], k[2] >> /\ k[1] \in Content /\ k[2] \in Config
  BY DEF Key
<1>4. SUFFICES RequestPart' /\ StorePart' /\ AnalysisPart'
  BY PartsPrimed
<1>5. ASSUME NEW k \in Key, PostAnalysis(r, k)
      PROVE  RequestPart' /\ StorePart' /\ AnalysisPart'
  <2> DEFINE q == [req[r] EXCEPT !.content = k[1], !.config = k[2]]
  <2>1. pc' = [pc EXCEPT ![r] = "quota"] /\ req' = [req EXCEPT ![r] = q]
    BY <1>5 DEF PostAnalysis, Goto
  <2>2. q \in Frame /\ << q.content, q.config >> \in Key
    BY <1>1, <1>3 DEF Frame, Key
  <2> HIDE DEF q
  <2>3. "quota" \in Pc /\ Carries("quota", q)
    BY <2>2, Labels DEF Carries
  <2>4. RequestPart'
    BY <2>1, <2>2, <2>3, RequestMoves DEF RequestPart
  <2> QED
    BY <1>0, <1>5, <2>4 DEF PostAnalysis, StorePart, AnalysisPart, store, apiVars
<1>6. ASSUME NEW k \in Key, CancelRead(r, k)
      PROVE  RequestPart' /\ StorePart' /\ AnalysisPart'
  <2> DEFINE q == [req[r] EXCEPT !.content = k[1], !.config = k[2], !.seen = analyses[k].state]
  <2>1. pc' = [pc EXCEPT ![r] = "cancel"] /\ req' = [req EXCEPT ![r] = q]
    BY <1>6 DEF CancelRead, Goto
  <2>2. q \in Frame /\ << q.content, q.config >> \in Key
    BY <1>1, <1>2, <1>3 DEF Frame, Key
  <2> HIDE DEF q
  <2>3. "cancel" \in Pc /\ Carries("cancel", q)
    BY <2>2, Labels DEF Carries
  <2>4. RequestPart'
    BY <2>1, <2>2, <2>3, RequestMoves DEF RequestPart
  <2> QED
    BY <1>0, <1>6, <2>4 DEF CancelRead, StorePart, AnalysisPart, store, apiVars
<1>7. ASSUME NEW k \in Key, GetReport(r, k)
      PROVE  RequestPart' /\ StorePart' /\ AnalysisPart'
  <2> DEFINE q == [req[r] EXCEPT !.content = k[1], !.config = k[2]]
             label == IF analyses[k].state \in {"SUCCEEDED", "PARTIAL"} THEN "read_report"
                      ELSE "refused"
  <2>1. pc' = [pc EXCEPT ![r] = label] /\ req' = [req EXCEPT ![r] = q]
    BY <1>7 DEF GetReport, Goto
  <2>2. q \in Frame /\ << q.content, q.config >> \in Key
    BY <1>1, <1>3 DEF Frame, Key
  <2> HIDE DEF q
  <2>3. label \in Pc /\ Carries(label, q)
    BY <2>2, Labels DEF Carries
  <2> HIDE DEF label
  <2>4. RequestPart'
    BY <2>1, <2>2, <2>3, RequestMoves DEF RequestPart
  <2> QED
    BY <1>0, <1>7, <2>4 DEF GetReport, StorePart, AnalysisPart, store, apiVars
<1>8. CASE QuotaKey(r) \/ QuotaCount(r) \/ ReadReport(r)
  <2>1. UNCHANGED apiVars
    BY <1>8 DEF QuotaKey, QuotaCount, ReadReport
  <2>2. pc[r] \in ApiPc /\ \E label \in ApiPc \cup EndPc : Ends(r, label)
    BY <1>8, Labels DEF QuotaKey, QuotaCount, ReadReport
  <2> QED
    BY <1>0, <2>1, <2>2, EndsTypes DEF AnalysisPart, apiVars
<1>9. CASE Lookup(r)
  <2> DEFINE s == analyses[KeyOf(r)].state
             b == s # "none"
             q == [req[r] EXCEPT !.seen = s, !.reused = b]
             label == IF b THEN "record" ELSE "insert"
  <2>0. pc[r] \in ApiPc /\ KeyOf(r) \in Key
    BY <1>1, <1>9, Labels DEF Lookup
  <2>1. pc' = [pc EXCEPT ![r] = label] /\ req' = [req EXCEPT ![r] = q]
    BY <1>9 DEF Lookup, Goto
  <2>2. q \in Frame /\ << q.content, q.config >> = KeyOf(r)
    <3>1. s \in AnalysisState \cup {"none"} /\ b \in BOOLEAN
      BY <1>2, <2>0
    <3> HIDE DEF s, b
    <3> QED
      BY <1>1, <3>1 DEF KeyOf, Frame
  <2> HIDE DEF q
  <2>3. label \in Pc /\ Carries(label, q)
    BY <2>0, <2>2, Labels DEF Carries
  <2> HIDE DEF label
  <2>4. RequestPart'
    BY <2>1, <2>2, <2>3, RequestMoves DEF RequestPart
  <2> QED
    BY <1>0, <1>9, <2>4 DEF Lookup, StorePart, AnalysisPart, store, apiVars
<1>10. CASE InsertAnalysis(r)
  <2> DEFINE free == analyses[KeyOf(r)].state = "none"
             b == ~free
             row == IF free THEN [NoRow EXCEPT !.state = "QUEUED"] ELSE analyses[KeyOf(r)]
             s == row.state
             q == [req[r] EXCEPT !.seen = s, !.reused = b]
  <2>0. pc[r] \in ApiPc /\ KeyOf(r) \in Key
    BY <1>1, <1>10, Labels DEF InsertAnalysis
  <2>1. /\ pc' = [pc EXCEPT ![r] = "record"] /\ req' = [req EXCEPT ![r] = q]
        /\ analyses' = [analyses EXCEPT ![KeyOf(r)] = row]
    <3>1. /\ analyses' = [analyses EXCEPT ![KeyOf(r)] = row]
          /\ req' = [req EXCEPT ![r].seen = row.state, ![r].reused = b]
          /\ Goto(r, "record")
      BY <1>10, Zenon DEF InsertAnalysis
    <3> HIDE DEF row, b
    <3> QED
      BY <3>1 DEF Goto
  <2>2. row \in Row
    BY <1>2, <2>0, NewRow, RowState DEF AnalysisState
  <2>3. s \in AnalysisState \cup {"none"} /\ b \in BOOLEAN
    BY <2>2 DEF Row
  <2> HIDE DEF row, b, free
  <2>4. q \in Frame /\ << q.content, q.config >> = KeyOf(r)
    <3> HIDE DEF s
    <3> QED
      BY <1>1, <2>3 DEF KeyOf, Frame
  <2> HIDE DEF q
  <2>5. "record" \in Pc /\ Carries("record", q)
    BY <2>0, <2>4, Labels DEF Carries
  <2>6. RequestPart'
    BY <2>1, <2>4, <2>5, RequestMoves DEF RequestPart
  <2> QED
    BY <1>0, <1>10, <2>0, <2>1, <2>2, <2>6 DEF InsertAnalysis, StorePart, AnalysisPart, store
<1>11. CASE RecordConfig(r) \/ EnsureStages(r) \/ Enqueue(r) \/ CancelWrite(r)
  <2>1. pc[r] \in ApiPc /\ KeyOf(r) \in Key
    BY <1>1, <1>11, Labels DEF RecordConfig, EnsureStages, Enqueue, CancelWrite
  <2>2. RequestPart' /\ StorePart'
    <3>1. \E label \in ApiPc \cup EndPc : Ends(r, label)
      BY <1>11, Labels DEF RecordConfig, EnsureStages, Enqueue, CancelWrite
    <3> QED
      BY <2>1, <3>1, EndsTypes
  <2>3. req[r].config \in Config
    BY <2>1 DEF KeyOf, Key
  <2>4. CASE RecordConfig(r)
    BY <1>0, <1>2, <2>1, <2>2, <2>3, <2>4, RowConfig DEF RecordConfig, AnalysisPart
  <2>5. CASE EnsureStages(r)
    BY <1>0, <1>2, <2>1, <2>2, <2>5, RowStages DEF EnsureStages, AnalysisPart
  <2>6. CASE Enqueue(r)
    BY <1>0, <2>1, <2>2, <2>6 DEF Enqueue, Send, AnalysisPart
  <2>7. CASE CancelWrite(r)
    <3> DEFINE target == CancelTarget(req[r].seen)
    <3>1. target = "KEEP" \/ target \in AnalysisState
      BY DEF CancelTarget, AnalysisState
    <3>2. analyses' = [analyses EXCEPT ![KeyOf(r)].state = IF target = "KEEP" THEN @ ELSE target]
          /\ UNCHANGED << worker, reports, commands, dropped >>
      BY <2>7 DEF CancelWrite
    <3> HIDE DEF target
    <3>3. analyses' \in [Key -> Row]
      <4>1. CASE target = "KEEP"
        BY <1>0, <1>2, <2>1, <3>2, <4>1 DEF AnalysisPart, Row
      <4>2. CASE target \in AnalysisState /\ target # "KEEP"
        BY <1>0, <1>2, <2>1, <3>2, <4>2, RowState DEF AnalysisPart
      <4> QED
        BY <3>1, <4>1, <4>2
    <3> QED
      BY <1>0, <2>2, <3>2, <3>3 DEF AnalysisPart
  <2> QED
    BY <1>11, <2>4, <2>5, <2>6, <2>7
<1>12. CASE RequestFails(r)
  <2>1. "refused" \in Pc /\ Carries("refused", req[r])
    BY Labels, EndedCarries
  <2>2. RequestPart'
    BY <1>12, <2>1, RequestOnlyMoves DEF RequestFails, Goto, RequestPart
  <2> QED
    BY <1>0, <1>12, <2>2 DEF RequestFails, StorePart, AnalysisPart, store, apiVars
<1> QED
  BY <1>5, <1>6, <1>7, <1>8, <1>9, <1>10, <1>11, <1>12 DEF RequestStep

\* Every step of a worker keeps the types.
LEMMA WorkerTypes ==
  ASSUME TypeInv, NEW k \in Key, WorkerStep(k)
  PROVE  TypeInv'
<1>0. RequestPart /\ StorePart /\ AnalysisPart
  BY Parts
<1>1. RequestPart' /\ StorePart'
  <2>1. CASE OrchestrateRaises(k)
    BY <1>0, <2>1 DEF OrchestrateRaises, RequestPart, StorePart, store
  <2>2. CASE UNCHANGED ingestVars
    BY <1>0, <2>2 DEF ingestVars, RequestPart, StorePart
  <2> QED
    BY <2>1, <2>2 DEF WorkerStep, Claim, Discard, LoadJob, RunStages, WriteReport, Retake,
      SaveSummary, FailRun, HonorCancel, Settle
<1>2. /\ analyses[k] \in Row /\ worker[k] \in Run
      /\ \A at \in Progress : [worker[k] EXCEPT !.at = at] \in Run
  BY <1>0 DEF AnalysisPart, Run
<1>3. ASSUME NEW at \in Progress, At(k, at) PROVE worker' \in [Key -> Run]
  <2> DEFINE q == [worker[k] EXCEPT !.at = at]
  <2>1. worker' = [worker EXCEPT ![k] = q] /\ q \in Run
    BY <1>2, <1>3 DEF At
  <2> HIDE DEF q
  <2> QED
    BY <1>0, <2>1 DEF AnalysisPart
<1>4. ASSUME NEW s \in AnalysisState, analyses' = [analyses EXCEPT ![k].state = s]
      PROVE  analyses' \in [Key -> Row]
  BY <1>0, <1>2, <1>4, RowState DEF AnalysisPart
<1>5. ASSUME NEW target \in AnalysisState, Moves(k, target) PROVE analyses' \in [Key -> Row]
  <2>1. CASE SetAnalysisState(analyses[k].state, "RUNNING", target) = target
    BY <1>4, <1>5, <2>1 DEF Moves
  <2>2. CASE SetAnalysisState(analyses[k].state, "RUNNING", target) = analyses[k].state
    <3>1. [analyses[k] EXCEPT !.state = analyses[k].state] = analyses[k]
      BY <1>2 DEF Row
    <3> QED
      BY <1>0, <1>2, <1>5, <2>2, <3>1 DEF Moves, AnalysisPart
  <2> QED
    BY <2>1, <2>2 DEF SetAnalysisState
<1>6. {"none", "claimed", "loaded", "writing", "written", "summarized", "done"} = Progress
      /\ {"RUNNING", "CANCELED", "FAILED", "SUCCEEDED", "PARTIAL"} \subseteq AnalysisState
  BY DEF Progress, AnalysisState
<1>7. SUFFICES AnalysisPart'
  BY <1>1, PartsPrimed
<1>8. CASE Claim(k)
  BY <1>0, <1>3, <1>4, <1>6, <1>8 DEF Claim, AnalysisPart
<1>9. CASE Discard(k)
  BY <1>0, <1>9 DEF Discard, AnalysisPart
<1>10. CASE LoadJob(k)
  <2>1. (IF analyses[k].config = NoConfig THEN Default ELSE analyses[k].config) \in Config
    BY <1>2, ApiAssumption DEF Row
  <2> QED
    BY <1>0, <1>6, <1>10, <2>1 DEF LoadJob, AnalysisPart, Run
<1>11. CASE RunStages(k)
  BY <1>0, <1>3, <1>5, <1>6, <1>11 DEF RunStages, AnalysisPart
<1>12. CASE WriteReport(k)
  BY <1>0, <1>3, <1>6, <1>12 DEF WriteReport, AnalysisPart
<1>13. CASE Retake(k)
  BY <1>0, <1>3, <1>6, <1>13 DEF Retake, AnalysisPart
<1>14. CASE SaveSummary(k)
  <2>1. analyses' \in [Key -> Row]
    BY <1>0, <1>2, <1>14, RowSummary DEF SaveSummary, AnalysisPart
  <2> QED
    BY <1>0, <1>3, <1>6, <1>14, <2>1 DEF SaveSummary, AnalysisPart
<1>15. CASE FailRun(k)
  BY <1>0, <1>3, <1>5, <1>6, <1>15 DEF FailRun, AnalysisPart
<1>16. CASE HonorCancel(k)
  BY <1>0, <1>4, <1>6, <1>16 DEF HonorCancel, AnalysisPart
<1>17. ASSUME NEW outcome \in {"SUCCEEDED", "PARTIAL", "FAILED"}, Settle(k, outcome)
       PROVE  AnalysisPart'
  BY <1>0, <1>3, <1>5, <1>6, <1>17 DEF Settle, AnalysisPart
<1>18. CASE OrchestrateRaises(k)
  BY <1>0, <1>18 DEF OrchestrateRaises, AnalysisPart
<1> QED
  BY <1>8, <1>9, <1>10, <1>11, <1>12, <1>13, <1>14, <1>15, <1>16, <1>17, <1>18 DEF WorkerStep

LEMMA TypeInit == Init => TypeInv
<1> SUFFICES ASSUME Init PROVE RequestPart /\ StorePart /\ AnalysisPart
  BY Parts
<1>1. RequestPart
  BY Labels DEF Init, RequestPart, Carries, Frame, Pc
<1>2. StorePart
  BY IngestAssumption DEF Init, StorePart, Blobs, Uploader
<1>3. AnalysisPart
  BY NewRow DEF Init, AnalysisPart, Run, Progress, NoRow, Row
<1> QED
  BY <1>1, <1>2, <1>3

LEMMA TypeStep == TypeInv /\ [Next]_allVars => TypeInv'
<1> SUFFICES ASSUME TypeInv, [Next]_allVars PROVE TypeInv'
  OBVIOUS
<1>1. CASE UNCHANGED allVars
  BY <1>1 DEF allVars, ingestVars, apiVars, TypeInv, ApiTypeOK
<1> QED
  BY <1>1, IngestTypes, RequestTypes, WorkerTypes DEF Next

\* Whatever the requests, media and configurations, every table, file set and
\* queue holds values of its type (postgres.py, filesystem.py, routes.py).
THEOREM ApiTypeCorrect == ApiSpec => []ApiTypeOK
<1>1. TypeInv => ApiTypeOK
  BY DEF TypeInv
<1> QED
  BY <1>1, TypeInit, TypeStep, PTL DEF ApiSpec

-----------------------------------------------------------------------------
(* Who changes what.                                                       *)

\* Only the request that takes a step moves, and its content is set by its first.
Alone(r) ==
  /\ \A p \in Request \ {r} : pc'[p] = pc[p] /\ req'[p] = req[p]
  /\ pc[r] # "new" => req'[r].content = req[r].content /\ req'[r].config = req[r].config

LEMMA UploadEffect ==
  ASSUME TypeInv, NEW r \in Request, UploadStep(r)
  PROVE  /\ Alone(r)
         /\ pc[r] \in {"new"} \cup UploadPc
         /\ pc'[r] \in UploadPc \cup {"answered", "refused", "dead"}
<1>1. pc \in [Request -> Pc] /\ req \in [Request -> Frame]
  BY DEF TypeInv, ApiTypeOK
<1>2. \A v : req' = [req EXCEPT ![r].video = v] =>
         /\ \A p \in Request \ {r} : req'[p] = req[p]
         /\ req'[r].content = req[r].content /\ req'[r].config = req[r].config
  BY <1>1 DEF Frame
<1>3. ASSUME Refuse(r) PROVE Alone(r) /\ pc'[r] = "refused"
  BY <1>1, <1>3 DEF Refuse, Goto, Alone
<1>4. ASSUME NEW v, Answer(r, v) PROVE Alone(r) /\ pc'[r] = "answered"
  BY <1>1, <1>2, <1>4 DEF Answer, Goto, Alone
<1>5. ASSUME NEW label, Goto(r, label), UNCHANGED req PROVE Alone(r) /\ pc'[r] = label
  BY <1>1, <1>5 DEF Goto, Alone
<1>6. ASSUME NEW c \in Content, ReceiveUpload(r, c)
      PROVE  Alone(r) /\ pc[r] = "new" /\ pc'[r] = "stage"
  BY <1>1, <1>6 DEF ReceiveUpload, Goto, Alone
<1>7. CASE Stage(r) \/ Probe(r) \/ Promote(r)
  BY <1>3, <1>5, <1>7, Labels DEF Stage, Probe, Promote
<1>8. CASE Dedupe(r)
  BY <1>4, <1>5, <1>8, Labels DEF Dedupe
<1>9. CASE PutProbe(r) \/ InsertOriginal(r) \/ InsertProbe(r)
  BY <1>5, <1>9, Labels DEF PutProbe, InsertOriginal, InsertProbe
<1>10. CASE InsertVideo(r)
  BY <1>4, <1>10, Labels DEF InsertVideo
<1>11. CASE UploadFails(r) \/ UploadDies(r)
  BY <1>3, <1>5, <1>11 DEF UploadFails, UploadDies
<1>12. CASE CommitProbe(r)
  BY <1>3, <1>5, <1>12, Labels DEF CommitProbe
<1>13. CASE CommitProbeRaises(r)
  BY <1>5, <1>13, Labels DEF CommitProbeRaises
<1> QED
  BY <1>6, <1>7, <1>8, <1>9, <1>10, <1>11, <1>12, <1>13, Labels DEF UploadStep

LEMMA RequestEffect ==
  ASSUME TypeInv, NEW r \in Request, RequestStep(r)
  PROVE  /\ Alone(r) /\ UNCHANGED << ephemeral, store >>
         /\ pc[r] \in {"new"} \cup ApiPc
         /\ pc'[r] \in ApiPc \cup (EndPc \ {"answered", "dead"})
<1>1. pc \in [Request -> Pc] /\ req \in [Request -> Frame]
  BY DEF TypeInv, ApiTypeOK
<1>2. ASSUME NEW label, Ends(r, label)
      PROVE  Alone(r) /\ pc'[r] = label /\ UNCHANGED << ephemeral, store >>
  BY <1>1, <1>2 DEF Ends, Goto, Alone
<1>3. ASSUME NEW k \in Key, PostAnalysis(r, k) \/ CancelRead(r, k) \/ GetReport(r, k)
      PROVE  /\ Alone(r) /\ pc[r] = "new" /\ UNCHANGED << ephemeral, store >>
             /\ pc'[r] \in {"quota", "cancel", "read_report", "refused"}
  BY <1>1, <1>3 DEF PostAnalysis, CancelRead, GetReport, Goto, Alone
<1>4. CASE QuotaKey(r) \/ QuotaCount(r) \/ ReadReport(r)
  BY <1>2, <1>4, Labels DEF QuotaKey, QuotaCount, ReadReport
<1>5. CASE RecordConfig(r) \/ EnsureStages(r) \/ Enqueue(r) \/ CancelWrite(r)
  BY <1>2, <1>5, Labels DEF RecordConfig, EnsureStages, Enqueue, CancelWrite
<1>6. CASE Lookup(r)
  <2> DEFINE label == IF analyses[KeyOf(r)].state # "none" THEN "record" ELSE "insert"
  <2>1. /\ pc[r] = "lookup" /\ pc' = [pc EXCEPT ![r] = label]
        /\ \E s, b : req' = [req EXCEPT ![r].seen = s, ![r].reused = b]
        /\ UNCHANGED << ephemeral, store >>
    BY <1>6, Zenon DEF Lookup, Goto
  <2>2. label \in {"record", "insert"}
    OBVIOUS
  <2> HIDE DEF label
  <2>3. PICK s, b : req' = [req EXCEPT ![r].seen = s, ![r].reused = b]
    BY <2>1
  <2>4. /\ \A p \in Request \ {r} : req'[p] = req[p]
        /\ req'[r].content = req[r].content /\ req'[r].config = req[r].config
    BY <1>1, <2>3 DEF Frame
  <2> QED
    BY <1>1, <2>1, <2>2, <2>4, Labels DEF Alone
<1>7. CASE InsertAnalysis(r)
  <2>1. /\ pc[r] = "insert" /\ pc' = [pc EXCEPT ![r] = "record"]
        /\ \E s, b : req' = [req EXCEPT ![r].seen = s, ![r].reused = b]
        /\ UNCHANGED << ephemeral, store >>
    BY <1>7, Zenon DEF InsertAnalysis, Goto
  <2>2. PICK s, b : req' = [req EXCEPT ![r].seen = s, ![r].reused = b]
    BY <2>1
  <2>3. /\ \A p \in Request \ {r} : req'[p] = req[p]
        /\ req'[r].content = req[r].content /\ req'[r].config = req[r].config
    BY <1>1, <2>2 DEF Frame
  <2> QED
    BY <1>1, <2>1, <2>3, Labels DEF Alone
<1>8. CASE RequestFails(r)
  BY <1>1, <1>8, Labels DEF RequestFails, Goto, Alone
<1> QED
  BY <1>3, <1>4, <1>5, <1>6, <1>7, <1>8, Labels DEF RequestStep

LEMMA WorkerEffect ==
  ASSUME NEW k \in Key, WorkerStep(k)
  PROVE  UNCHANGED << pc, req, ephemeral, store >>
<1>1. CASE OrchestrateRaises(k)
  BY <1>1 DEF OrchestrateRaises
<1>2. CASE UNCHANGED ingestVars
  BY <1>2 DEF ingestVars, store
<1> QED
  BY <1>1, <1>2 DEF WorkerStep, Claim, Discard, LoadJob, RunStages, WriteReport, Retake,
    SaveSummary, FailRun, HonorCancel, Settle

-----------------------------------------------------------------------------
(* Files, rows and answers.                                                *)

\* What an upload has checked and stored by each of its steps.
Stored(r) ==
  /\ pc[r] = "promote" => req[r].content \in Valid
  /\ pc[r] \in {"put_probe", "commit_probe", "insert_original", "insert_probe", "insert_video"} =>
       req[r].content \in canonical.original
  /\ pc[r] \in {"insert_original", "insert_probe", "insert_video"} => r \in canonical.probe
  /\ pc[r] \in {"insert_probe", "insert_video"} => req[r].content \in artifacts.original
  /\ pc[r] = "insert_video" => r \in artifacts.probe

FileInv == RowsHaveFiles /\ \A r \in Request : Stored(r)

\* Nothing that is stored goes.
Grows ==
  /\ canonical.original \subseteq canonical'.original
  /\ canonical.probe \subseteq canonical'.probe
  /\ artifacts.original \subseteq artifacts'.original
  /\ artifacts.probe \subseteq artifacts'.probe

LEMMA OthersStored ==
  ASSUME FileInv, NEW r \in Request, Alone(r), Grows
  PROVE  \A p \in Request \ {r} : Stored(p)'
BY DEF FileInv, Alone, Grows, Stored

LEMMA FilesInit == Init => FileInv
<1> SUFFICES ASSUME Init PROVE FileInv
  OBVIOUS
<1>1. \A r \in Request : pc[r] = "new"
  BY DEF Init
<1>2. PICK known \in SUBSET Valid :
        /\ canonical = [original |-> known, probe |-> IF known = {} THEN {} ELSE {Earlier}]
        /\ videos = [c \in Content |-> IF c \in known THEN Earlier ELSE None]
  BY DEF Init
<1>3. /\ canonical.original = known /\ (known # {} => Earlier \in canonical.probe)
      /\ artifacts = canonical
      /\ \A c \in Content : videos[c] # None => c \in known /\ videos[c] = Earlier
  <2> DEFINE probes == IF known = {} THEN {} ELSE {Earlier}
  <2>1. canonical = [original |-> known, probe |-> probes] /\ (known # {} => Earlier \in probes)
    BY <1>2
  <2> HIDE DEF probes
  <2>2. canonical.original = known /\ canonical.probe = probes
    BY <2>1
  <2>3. \A c \in Content : videos[c] # None => c \in known /\ videos[c] = Earlier
    BY <1>2
  <2>4. artifacts = canonical
    BY DEF Init
  <2> QED
    BY <2>1, <2>2, <2>3, <2>4
<1>4. RowsHaveFiles
  BY <1>3 DEF RowsHaveFiles
<1> QED
  BY <1>1, <1>4 DEF FileInv, Stored

\* A step of an upload that leaves the stored files and rows alone.
LEMMA StoreKept ==
  ASSUME TypeInv, FileInv, NEW r \in Request, Alone(r), UNCHANGED store, Stored(r)'
  PROVE  FileInv'
<1>1. UNCHANGED << canonical, artifacts, videos >>
  BY DEF store
<1>2. RowsHaveFiles'
  BY <1>1 DEF FileInv, RowsHaveFiles
<1>3. Grows
  BY <1>1 DEF Grows
<1> QED
  BY <1>2, <1>3, OthersStored DEF FileInv

LEMMA UploadFiles ==
  ASSUME TypeInv, FileInv, NEW r \in Request, UploadStep(r)
  PROVE  FileInv'
<1>1. /\ Alone(r) /\ pc[r] \in {"new"} \cup UploadPc
      /\ pc \in [Request -> Pc] /\ req[r] \in Frame
      /\ canonical \in Blobs /\ artifacts \in Blobs /\ videos \in [Content -> Uploader \cup {None}]
      /\ pc[r] \in UploadPc => req[r].content \in Content /\ req'[r].content = req[r].content
  BY UploadEffect, Labels DEF TypeInv, ApiTypeOK, Carries, Alone
<1>2. \A label : Goto(r, label) => pc'[r] = label
  BY <1>1 DEF Goto
<1>3. ASSUME Refuse(r) PROVE FileInv'
  <2>1. pc'[r] = "refused" /\ UNCHANGED store
    BY <1>2, <1>3 DEF Refuse
  <2> QED
    BY <1>1, <2>1, StoreKept DEF Stored
<1>4. ASSUME NEW v, Answer(r, v) PROVE Stored(r)'
  BY <1>2, <1>4 DEF Answer, Stored
<1>5. ASSUME NEW c \in Content, ReceiveUpload(r, c) PROVE FileInv'
  BY <1>1, <1>2, <1>5, StoreKept DEF ReceiveUpload, Stored
<1>6. CASE Stage(r)
  <2>1. CASE Goto(r, "dedupe") /\ UNCHANGED store
    BY <1>1, <1>2, <2>1, StoreKept DEF Stored
  <2> QED
    BY <1>3, <1>6, <2>1 DEF Stage
<1>7. CASE Dedupe(r)
  <2>1. CASE Goto(r, "probe")
    BY <1>1, <1>2, <1>7, <2>1, StoreKept DEF Dedupe, Stored
  <2>2. CASE Answer(r, videos[req[r].content])
    BY <1>1, <1>4, <1>7, <2>2, StoreKept DEF Dedupe
  <2> QED
    BY <1>7, <2>1, <2>2 DEF Dedupe
<1>8. CASE Probe(r)
  <2>1. CASE req[r].content \in Valid /\ Goto(r, "promote") /\ UNCHANGED << req, store >>
    BY <1>1, <1>2, <2>1, StoreKept DEF Stored
  <2> QED
    BY <1>3, <1>8, <2>1 DEF Probe
<1>9. CASE Promote(r)
  <2>1. CASE /\ Goto(r, "put_probe")
             /\ canonical' = [canonical EXCEPT !.original = @ \cup {req[r].content}]
             /\ UNCHANGED << req, artifacts, videos >>
    <3>1. req[r].content \in Valid
      BY <1>9 DEF Promote, FileInv, Stored
    <3>2. /\ canonical'.original = canonical.original \cup {req[r].content}
          /\ canonical'.probe = canonical.probe
      BY <1>1, <2>1 DEF Blobs
    <3>3. RowsHaveFiles'
      BY <2>1, <3>1, <3>2 DEF FileInv, RowsHaveFiles
    <3>4. Stored(r)'
      BY <1>2, <2>1, <3>2 DEF Stored
    <3>5. Grows
      BY <2>1, <3>2 DEF Grows
    <3> QED
      BY <1>1, <3>3, <3>4, <3>5, OthersStored DEF FileInv
  <2> QED
    BY <1>3, <1>9, <2>1 DEF Promote
<1>10. CASE PutProbe(r)
  <2>1. UNCHANGED << req, store >>
    BY <1>10 DEF PutProbe
  <2>2. Stored(r)'
    BY <1>2, <1>10, <2>1 DEF PutProbe, Stored, FileInv, store
  <2> QED
    BY <1>1, <2>1, <2>2, StoreKept
<1>16. CASE CommitProbe(r)
  <2>1. CASE /\ Goto(r, "insert_original")
             /\ canonical' = [canonical EXCEPT !.probe = @ \cup {r}]
             /\ UNCHANGED << req, artifacts, videos >>
    <3>1. /\ canonical'.original = canonical.original
          /\ canonical'.probe = canonical.probe \cup {r}
      BY <1>1, <2>1 DEF Blobs
    <3>2. RowsHaveFiles'
      BY <2>1, <3>1 DEF FileInv, RowsHaveFiles
    <3>3. Stored(r)'
      BY <1>2, <1>16, <2>1, <3>1 DEF CommitProbe, Stored, FileInv
    <3>4. Grows
      BY <2>1, <3>1 DEF Grows
    <3> QED
      BY <1>1, <3>2, <3>3, <3>4, OthersStored DEF FileInv
  <2> QED
    BY <1>3, <1>16, <2>1 DEF CommitProbe
<1>17. CASE CommitProbeRaises(r)
  BY <1>1, <1>2, <1>17, StoreKept DEF CommitProbeRaises, Stored
<1>11. CASE InsertOriginal(r)
  <2>1. /\ artifacts'.original = artifacts.original \cup {req[r].content}
        /\ artifacts'.probe = artifacts.probe
        /\ UNCHANGED << req, canonical, videos >>
    BY <1>1, <1>11 DEF InsertOriginal, Blobs
  <2>2. RowsHaveFiles'
    BY <1>11, <2>1 DEF InsertOriginal, FileInv, Stored, RowsHaveFiles
  <2>3. Stored(r)'
    BY <1>2, <1>11, <2>1 DEF InsertOriginal, Stored, FileInv
  <2>4. Grows
    BY <2>1 DEF Grows
  <2> QED
    BY <1>1, <2>2, <2>3, <2>4, OthersStored DEF FileInv
<1>12. CASE InsertProbe(r)
  <2>1. /\ artifacts'.original = artifacts.original
        /\ artifacts'.probe = artifacts.probe \cup {r}
        /\ UNCHANGED << req, canonical, videos >>
    BY <1>1, <1>12 DEF InsertProbe, Blobs
  <2>2. RowsHaveFiles'
    BY <1>12, <2>1 DEF InsertProbe, FileInv, Stored, RowsHaveFiles
  <2>3. Stored(r)'
    BY <1>2, <1>12, <2>1 DEF InsertProbe, Stored, FileInv
  <2>4. Grows
    BY <2>1 DEF Grows
  <2> QED
    BY <1>1, <2>2, <2>3, <2>4, OthersStored DEF FileInv
<1>13. CASE InsertVideo(r)
  <2>1. UNCHANGED << canonical, artifacts >> /\ Stored(r)'
    BY <1>4, <1>13 DEF InsertVideo
  <2>2. \A c \in Content : videos'[c] = videos[c] \/ (c = req[r].content /\ videos'[c] = r)
    BY <1>1, <1>13 DEF InsertVideo
  <2>3. req[r].content \in artifacts.original /\ r \in artifacts.probe
    BY <1>13 DEF InsertVideo, FileInv, Stored
  <2>4. RowsHaveFiles'
    BY <2>1, <2>2, <2>3 DEF FileInv, RowsHaveFiles
  <2>5. Grows
    BY <2>1 DEF Grows
  <2> QED
    BY <1>1, <2>1, <2>4, <2>5, OthersStored DEF FileInv
<1>14. CASE UploadFails(r)
  BY <1>3, <1>14 DEF UploadFails
<1>15. CASE UploadDies(r)
  BY <1>1, <1>2, <1>15, StoreKept DEF UploadDies, Stored
<1> QED
  BY <1>5, <1>6, <1>7, <1>8, <1>9, <1>10, <1>11, <1>12, <1>13, <1>14, <1>15, <1>16, <1>17
  DEF UploadStep

LEMMA FilesStep == TypeInv /\ FileInv /\ [Next]_allVars => FileInv'
<1> SUFFICES ASSUME TypeInv, FileInv, [Next]_allVars PROVE FileInv'
  OBVIOUS
<1>1. ASSUME UNCHANGED << pc, req, store >> PROVE FileInv'
  BY <1>1 DEF FileInv, RowsHaveFiles, Stored, store
<1>2. ASSUME NEW r \in Request, RequestStep(r) PROVE FileInv'
  <2>1. Alone(r) /\ UNCHANGED store /\ pc'[r] \in ApiPc \cup EndPc
    BY <1>2, RequestEffect
  <2>2. Stored(r)'
    BY <2>1, Labels DEF Stored
  <2> QED
    BY <2>1, <2>2, StoreKept
<1>3. ASSUME NEW k \in Key, WorkerStep(k) PROVE FileInv'
  BY <1>1, <1>3, WorkerEffect
<1>4. ASSUME NEW f \in ephemeral, Purge(f) PROVE FileInv'
  BY <1>1, <1>4 DEF Purge
<1>5. CASE UNCHANGED allVars
  BY <1>1, <1>5 DEF allVars, ingestVars, store
<1> QED
  BY <1>2, <1>3, <1>4, <1>5, UploadFiles DEF Next, IngestNext

\* Whatever fails, dies or is purged during whatever uploads, rows are inserted
\* after the files they name (ingest.py:115-137, 169-225).
THEOREM FilesPrecedeRows == ApiSpec => []RowsHaveFiles
<1>1. FileInv => RowsHaveFiles
  BY DEF FileInv
<1> QED
  BY <1>1, TypeInit, TypeStep, FilesInit, FilesStep, PTL DEF ApiSpec

\* The video an upload is answered with is in the table.
Answered(r) ==
  pc[r] = "answered" =>
    req[r].video = videos[req[r].content] /\ req[r].video # None /\ req[r].content \in Content

AnswerInv == \A r \in Request : Answered(r)

LEMMA AnswersInit == Init => AnswerInv
BY DEF Init, AnswerInv, Answered

\* Other requests keep their answer while rows of the table stay.
LEMMA OthersAnswered ==
  ASSUME AnswerInv, NEW r \in Request, Alone(r),
         \A c \in Content : videos[c] # None => videos'[c] = videos[c]
  PROVE  \A p \in Request \ {r} : Answered(p)'
BY DEF AnswerInv, Alone, Answered

LEMMA UploadAnswers ==
  ASSUME TypeInv, AnswerInv, NEW r \in Request, UploadStep(r)
  PROVE  AnswerInv'
<1>1. /\ Alone(r) /\ pc \in [Request -> Pc] /\ req \in [Request -> Frame]
      /\ videos \in [Content -> Uploader \cup {None}]
      /\ pc[r] \in UploadPc => req[r].content \in Content
  BY UploadEffect DEF TypeInv, ApiTypeOK, Carries
<1>2. ASSUME NEW v \in Uploader \cup {None}, Answer(r, v)
      PROVE  pc'[r] = "answered" /\ req'[r].video = v /\ req'[r].content = req[r].content
  <2>1. req[r] \in Frame /\ pc' = [pc EXCEPT ![r] = "answered"]
        /\ req' = [req EXCEPT ![r].video = v]
    BY <1>1, <1>2 DEF Answer, Goto
  <2> QED
    BY <1>1, <2>1, FrameVideo
<1>3. \A label : Goto(r, label) => pc'[r] = label
  BY <1>1 DEF Goto
<1>4. ASSUME pc'[r] # "answered", UNCHANGED videos PROVE AnswerInv'
  BY <1>1, <1>4, OthersAnswered DEF AnswerInv, Answered
<1>5. ASSUME Refuse(r) PROVE AnswerInv'
  BY <1>3, <1>4, <1>5 DEF Refuse, store
<1>6. ASSUME NEW c \in Content, ReceiveUpload(r, c) PROVE AnswerInv'
  BY <1>3, <1>4, <1>6 DEF ReceiveUpload, store
<1>7. CASE Stage(r) \/ Probe(r) \/ Promote(r)
  BY <1>3, <1>4, <1>5, <1>7 DEF Stage, Probe, Promote, store
<1>8. CASE Dedupe(r)
  <2>1. CASE Goto(r, "probe")
    BY <1>3, <1>4, <1>8, <2>1 DEF Dedupe, store
  <2>2. CASE videos[req[r].content] # None /\ Answer(r, videos[req[r].content])
    <3>1. req[r].content \in Content /\ UNCHANGED videos
      BY <1>1, <1>8, Labels DEF Dedupe, store
    <3>2. Answered(r)'
      BY <1>1, <1>2, <2>2, <3>1 DEF Answered
    <3> QED
      BY <1>1, <3>1, <3>2, OthersAnswered DEF AnswerInv
  <2> QED
    BY <1>8, <2>1, <2>2 DEF Dedupe
<1>9. CASE PutProbe(r) \/ InsertOriginal(r) \/ InsertProbe(r)
  BY <1>3, <1>4, <1>9 DEF PutProbe, InsertOriginal, InsertProbe, store
<1>10. CASE InsertVideo(r)
  <2>1. req[r].content \in Content /\ r \in Uploader /\ r # None
    BY <1>1, <1>10, Labels, IngestAssumption DEF InsertVideo, Uploader
  <2>2. CASE /\ videos[req[r].content] = None
             /\ videos' = [videos EXCEPT ![req[r].content] = r] /\ Answer(r, r)
    <3>1. Answered(r)'
      BY <1>1, <1>2, <2>1, <2>2 DEF Answered
    <3> QED
      BY <1>1, <2>2, <3>1, OthersAnswered DEF AnswerInv
  <2>3. CASE /\ videos[req[r].content] # None
             /\ UNCHANGED videos /\ Answer(r, videos[req[r].content])
    <3>1. Answered(r)'
      BY <1>1, <1>2, <2>1, <2>3 DEF Answered
    <3> QED
      BY <1>1, <2>3, <3>1, OthersAnswered DEF AnswerInv
  <2> QED
    BY <1>10, <2>2, <2>3 DEF InsertVideo
<1>11. CASE UploadFails(r) \/ UploadDies(r)
  BY <1>3, <1>4, <1>5, <1>11 DEF UploadFails, UploadDies, store
<1>12. CASE CommitProbe(r) \/ CommitProbeRaises(r)
  BY <1>3, <1>4, <1>5, <1>12 DEF CommitProbe, CommitProbeRaises, store
<1> QED
  BY <1>6, <1>7, <1>8, <1>9, <1>10, <1>11, <1>12 DEF UploadStep

LEMMA AnswersStep == TypeInv /\ AnswerInv /\ [Next]_allVars => AnswerInv'
<1> SUFFICES ASSUME TypeInv, AnswerInv, [Next]_allVars PROVE AnswerInv'
  OBVIOUS
<1>1. ASSUME UNCHANGED << pc, req, videos >> PROVE AnswerInv'
  BY <1>1 DEF AnswerInv, Answered
<1>2. ASSUME NEW r \in Request, RequestStep(r) PROVE AnswerInv'
  <2>1. Alone(r) /\ UNCHANGED videos /\ pc'[r] # "answered"
    BY <1>2, RequestEffect, Labels DEF store
  <2> QED
    BY <2>1, OthersAnswered DEF AnswerInv, Answered
<1>3. ASSUME NEW k \in Key, WorkerStep(k) PROVE AnswerInv'
  BY <1>1, <1>3, WorkerEffect DEF store
<1>4. ASSUME NEW f \in ephemeral, Purge(f) PROVE AnswerInv'
  BY <1>1, <1>4 DEF Purge, store
<1>5. CASE UNCHANGED allVars
  BY <1>1, <1>5 DEF allVars, ingestVars
<1> QED
  BY <1>2, <1>3, <1>4, <1>5, UploadAnswers DEF Next, IngestNext

\* Any number of uploads of the same bytes, racing or not, are answered with the
\* one video of the table (ingest.py:79-95, 223, postgres.py:131-135).
THEOREM OneVideoPerContent == ApiSpec => []AnswersAgree
<1>1. AnswerInv => AnswersAgree
  BY DEF AnswerInv, Answered, AnswersAgree
<1> QED
  BY <1>1, TypeInit, TypeStep, AnswersInit, AnswersStep, PTL DEF ApiSpec

\* Temporary file f belongs to an upload that runs or died, or it is the probe output of
\* one that an OSError has refused after its original was committed.
Excused(f) ==
  \/ pc[f[2]] \in UploadPc \cup {"dead"}
  \/ f[1] = "tmp_probe" /\ pc[f[2]] = "refused" /\ req[f[2]].content \in canonical.original

LEMMA NothingLeftStep ==
  TypeInv /\ FileInv /\ NothingLeftBehind /\ [Next]_allVars => NothingLeftBehind'
<1> SUFFICES ASSUME TypeInv, FileInv, NothingLeftBehind, [Next]_allVars PROVE NothingLeftBehind'
  OBVIOUS
<1>1. /\ ephemeral \subseteq Prefix \X Request /\ pc \in [Request -> Pc] /\ canonical \in Blobs
      /\ \A f \in ephemeral : Excused(f)
  BY DEF TypeInv, ApiTypeOK, NothingLeftBehind, Excused
<1>2. ASSUME NEW r \in Request, Alone(r), canonical.original \subseteq canonical'.original,
             \A f \in ephemeral' : f \in ephemeral \/ f[2] = r,
             \A f \in ephemeral' : f[2] = r => Excused(f)'
      PROVE  NothingLeftBehind'
  <2>1. SUFFICES ASSUME NEW f \in ephemeral' PROVE Excused(f)'
    BY DEF NothingLeftBehind, Excused
  <2>2. CASE f[2] = r
    BY <1>2, <2>2
  <2>3. CASE f[2] # r
    <3>1. f \in ephemeral /\ f[2] \in Request \ {r}
      BY <1>1, <1>2, <2>3
    <3> QED
      BY <1>1, <1>2, <3>1 DEF Excused, Alone
  <2> QED
    BY <2>2, <2>3
<1>3. ASSUME NEW r \in Request, UploadStep(r) PROVE NothingLeftBehind'
  <2>1. Alone(r)
    BY <1>3, UploadEffect
  <2>2. \A label : Goto(r, label) => pc'[r] = label
    BY <1>1 DEF Goto
  <2>3. ASSUME ephemeral' = ephemeral \ Own(r), UNCHANGED canonical PROVE NothingLeftBehind'
    <3>1. \A f \in ephemeral' : f \in ephemeral /\ f[2] # r
      BY <1>1, <2>3 DEF Own
    <3> QED
      BY <1>2, <2>1, <2>3, <3>1
  <2>4. ASSUME \A f \in ephemeral' : f \in ephemeral \/ f[2] = r,
               canonical.original \subseteq canonical'.original,
               pc'[r] \in UploadPc \cup {"dead"}
        PROVE  NothingLeftBehind'
    <3>1. \A f \in ephemeral' : f[2] = r => Excused(f)'
      BY <2>4 DEF Excused
    <3> QED
      BY <1>2, <2>1, <2>4, <3>1
  <2>5. ASSUME Refuse(r) PROVE NothingLeftBehind'
    BY <2>3, <2>5 DEF Refuse, store
  <2>6. ASSUME NEW v, Answer(r, v), UNCHANGED canonical PROVE NothingLeftBehind'
    BY <2>3, <2>6 DEF Answer
  <2>7. ASSUME NEW c \in Content, ReceiveUpload(r, c) PROVE NothingLeftBehind'
    BY <2>2, <2>4, <2>7, Labels DEF ReceiveUpload, store
  <2>8. CASE Stage(r)
    <3>1. CASE /\ Goto(r, "dedupe") /\ ephemeral' = ephemeral \cup {<< "tmp", r >>}
               /\ UNCHANGED store
      BY <2>2, <2>4, <3>1, Labels DEF store
    <3> QED
      BY <2>5, <2>8, <3>1 DEF Stage
  <2>9. CASE Dedupe(r) \/ Probe(r)
    <3>1. ASSUME NEW label \in UploadPc, Goto(r, label), UNCHANGED << ephemeral, store >>
          PROVE  NothingLeftBehind'
      BY <2>2, <2>4, <3>1 DEF store
    <3>2. CASE Dedupe(r)
      BY <2>6, <3>1, <3>2, Labels DEF Dedupe, store
    <3>3. CASE Probe(r)
      BY <2>5, <3>1, <3>3, Labels DEF Probe
    <3> QED
      BY <2>9, <3>2, <3>3
  <2>10. CASE Promote(r)
    <3>1. CASE /\ Goto(r, "put_probe") /\ ephemeral' = ephemeral \ {<< "tmp", r >>}
               /\ canonical' = [canonical EXCEPT !.original = @ \cup {req[r].content}]
      <4>1. canonical.original \subseteq canonical'.original
        BY <1>1, <3>1 DEF Blobs
      <4> QED
        BY <2>2, <2>4, <3>1, <4>1, Labels
    <3> QED
      BY <2>5, <2>10, <3>1 DEF Promote
  <2>11. CASE PutProbe(r) \/ InsertOriginal(r) \/ InsertProbe(r)
    BY <2>2, <2>4, <2>11, Labels DEF PutProbe, InsertOriginal, InsertProbe, store
  <2>12. CASE InsertVideo(r)
    BY <2>6, <2>12 DEF InsertVideo
  <2>13. CASE UploadFails(r) \/ UploadDies(r)
    BY <2>2, <2>4, <2>5, <2>13 DEF UploadFails, UploadDies, store
  <2>14. CASE CommitProbe(r)
    <3>1. CASE /\ Goto(r, "insert_original") /\ ephemeral' = ephemeral \ {<< "tmp_probe", r >>}
               /\ canonical' = [canonical EXCEPT !.probe = @ \cup {r}]
      <4>1. canonical.original \subseteq canonical'.original
        BY <1>1, <3>1 DEF Blobs
      <4> QED
        BY <2>2, <2>4, <3>1, <4>1, Labels
    <3> QED
      BY <2>5, <2>14, <3>1 DEF CommitProbe
  <2>15. CASE CommitProbeRaises(r)
    <3>1. /\ pc'[r] = "refused" /\ UNCHANGED << req, canonical >>
          /\ ephemeral' = ephemeral \ {<< "quarantine", r >>, << "tmp", r >>}
      BY <2>2, <2>15 DEF CommitProbeRaises, store
    <3>2. req[r].content \in canonical.original
      BY <2>15 DEF CommitProbeRaises, FileInv, Stored
    <3>3. ASSUME NEW f \in ephemeral', f[2] = r PROVE f[1] = "tmp_probe"
      BY <1>1, <3>1, <3>3 DEF Prefix
    <3>4. \A f \in ephemeral' : f[2] = r => Excused(f)'
      BY <3>1, <3>2, <3>3 DEF Excused
    <3> QED
      BY <1>2, <2>1, <3>1, <3>4
  <2> QED
    BY <1>3, <2>7, <2>8, <2>9, <2>10, <2>11, <2>12, <2>13, <2>14, <2>15 DEF UploadStep
<1>4. ASSUME NEW r \in Request, RequestStep(r) PROVE NothingLeftBehind'
  <2>1. /\ Alone(r) /\ UNCHANGED << ephemeral, canonical >>
        /\ pc[r] \notin UploadPc \cup {"dead", "refused"}
    BY <1>4, RequestEffect, Labels DEF store
  <2>2. \A f \in ephemeral : f[2] # r
    BY <1>1, <2>1 DEF Excused
  <2> QED
    BY <1>2, <2>1, <2>2
<1>5. ASSUME UNCHANGED << pc, req, canonical >>, ephemeral' \subseteq ephemeral
      PROVE  NothingLeftBehind'
  BY <1>5 DEF NothingLeftBehind
<1>6. ASSUME NEW k \in Key, WorkerStep(k) PROVE NothingLeftBehind'
  BY <1>5, <1>6, WorkerEffect DEF store
<1>7. ASSUME NEW f \in ephemeral, Purge(f) PROVE NothingLeftBehind'
  BY <1>5, <1>7 DEF Purge, store
<1>8. CASE UNCHANGED allVars
  BY <1>5, <1>8 DEF allVars, ingestVars
<1> QED
  BY <1>3, <1>4, <1>6, <1>7, <1>8 DEF Next, IngestNext

\* No upload that is over, however it ended short of the death of its process,
\* leaves a quarantined body or a staged copy.  A staged probe output stays only when a
\* plain OSError has refused the upload after its original was committed
\* (ingest.py:134-136, 172-175, routes.py:125-127, filesystem.py:207-219).
THEOREM UploadsCleanUp == ApiSpec => []NothingLeftBehind
<1>1. Init => NothingLeftBehind
  BY DEF Init, NothingLeftBehind
<1> QED
  BY <1>1, TypeInit, TypeStep, FilesInit, FilesStep, NothingLeftStep, PTL DEF ApiSpec

-----------------------------------------------------------------------------
(* Rows of analyses.                                                       *)

\* What a step may do to a row.
Better(k, old, new) ==
  /\ new.config \in {NoConfig, old.config, k[2]}
  /\ old.state # "none" =>
       /\ new.state # "none" /\ (new.state = "QUEUED" => old.state = "QUEUED")
       /\ new.config \in {old.config, k[2]}
       /\ old.stages => new.stages
       /\ old.summary => new.summary

LEMMA RowUpdate ==
  ASSUME analyses \in [Key -> Row], NEW j \in Key, NEW q \in Row,
         analyses' = [analyses EXCEPT ![j] = q], Better(j, analyses[j], q)
  PROVE  \A k \in Key : Better(k, analyses[k], analyses'[k])
BY DEF Better

LEMMA RowsKept ==
  ASSUME analyses \in [Key -> Row], UNCHANGED analyses
  PROVE  \A k \in Key : Better(k, analyses[k], analyses'[k])
BY DEF Better

LEMMA StateUpdate ==
  ASSUME analyses \in [Key -> Row], NEW j \in Key, NEW s \in AnalysisState \ {"QUEUED"},
         analyses' = [analyses EXCEPT ![j].state = s]
  PROVE  \A k \in Key : Better(k, analyses[k], analyses'[k])
<1> DEFINE q == [analyses[j] EXCEPT !.state = s]
<1>1. /\ q \in Row /\ q.state = s
      /\ q.config = analyses[j].config /\ q.stages = analyses[j].stages
      /\ q.summary = analyses[j].summary
  BY DEF Row
<1>2. analyses' = [analyses EXCEPT ![j] = q]
  OBVIOUS
<1> HIDE DEF q
<1>3. s # "none" /\ s # "QUEUED"
  BY DEF AnalysisState
<1>4. Better(j, analyses[j], q)
  BY <1>1, <1>3 DEF Better
<1> QED
  BY <1>1, <1>2, <1>4, RowUpdate

LEMMA RequestRows ==
  ASSUME TypeInv, NEW r \in Request, RequestStep(r)
  PROVE  \A k \in Key : Better(k, analyses[k], analyses'[k])
<1>1. analyses \in [Key -> Row] /\ (pc[r] \in ApiPc => KeyOf(r) \in Key)
      /\ KeyOf(r)[2] = req[r].config
  BY DEF TypeInv, ApiTypeOK, Carries, KeyOf
<1>2. ASSUME UNCHANGED analyses PROVE \A k \in Key : Better(k, analyses[k], analyses'[k])
  BY <1>1, <1>2, RowsKept
<1>3. CASE \/ \E k \in Key : PostAnalysis(r, k) \/ CancelRead(r, k) \/ GetReport(r, k)
           \/ QuotaKey(r) \/ QuotaCount(r) \/ Lookup(r) \/ Enqueue(r)
           \/ ReadReport(r) \/ RequestFails(r)
  BY <1>2, <1>3 DEF PostAnalysis, CancelRead, GetReport, QuotaKey, QuotaCount, Lookup, Enqueue,
    ReadReport, RequestFails, apiVars
<1>4. CASE InsertAnalysis(r)
  <2> DEFINE free == analyses[KeyOf(r)].state = "none"
             row == IF free THEN [NoRow EXCEPT !.state = "QUEUED"] ELSE analyses[KeyOf(r)]
  <2>1. KeyOf(r) \in Key
    BY <1>1, <1>4, Labels DEF InsertAnalysis
  <2>2. analyses' = [analyses EXCEPT ![KeyOf(r)] = row]
    BY <1>4, Zenon DEF InsertAnalysis
  <2>3. row \in Row /\ (free => row.config = NoConfig) /\ (~free => row = analyses[KeyOf(r)])
    BY <1>1, <2>1, NewRow, RowState DEF AnalysisState
  <2>4. Better(KeyOf(r), analyses[KeyOf(r)], row)
    BY <2>3 DEF Better
  <2> HIDE DEF row
  <2> QED
    BY <1>1, <2>1, <2>2, <2>3, <2>4, RowUpdate
<1>5. CASE RecordConfig(r)
  <2> DEFINE row == [analyses[KeyOf(r)] EXCEPT !.config = req[r].config]
  <2>1. KeyOf(r) \in Key /\ req[r].config \in Config
    BY <1>1, <1>5, Labels DEF RecordConfig, Key, KeyOf
  <2>2. analyses' = [analyses EXCEPT ![KeyOf(r)] = row]
    BY <1>5 DEF RecordConfig
  <2>3. row \in Row /\ Better(KeyOf(r), analyses[KeyOf(r)], row)
    BY <1>1, <2>1, RowConfig DEF Better
  <2> HIDE DEF row
  <2> QED
    BY <1>1, <2>1, <2>2, <2>3, RowUpdate
<1>6. CASE EnsureStages(r)
  <2> DEFINE row == [analyses[KeyOf(r)] EXCEPT !.stages = TRUE]
  <2>1. KeyOf(r) \in Key
    BY <1>1, <1>6, Labels DEF EnsureStages
  <2>2. analyses' = [analyses EXCEPT ![KeyOf(r)] = row]
    BY <1>6 DEF EnsureStages
  <2>3. row \in Row /\ Better(KeyOf(r), analyses[KeyOf(r)], row)
    BY <1>1, <2>1, RowStages DEF Better
  <2> HIDE DEF row
  <2> QED
    BY <1>1, <2>1, <2>2, <2>3, RowUpdate
<1>7. CASE CancelWrite(r)
  <2> DEFINE target == CancelTarget(req[r].seen)
  <2>1. KeyOf(r) \in Key
    BY <1>1, <1>7, Labels DEF CancelWrite
  <2>2. target = "KEEP" \/ target \in AnalysisState \ {"QUEUED"}
    BY DEF CancelTarget, AnalysisState
  <2>3. analyses' = [analyses EXCEPT ![KeyOf(r)].state = IF target = "KEEP" THEN @ ELSE target]
    BY <1>7 DEF CancelWrite
  <2>4. "KEEP" \notin AnalysisState
    BY DEF AnalysisState
  <2> HIDE DEF target
  <2>5. CASE target = "KEEP"
    BY <1>1, <1>2, <2>1, <2>3, <2>5 DEF Row
  <2>6. CASE target \in AnalysisState \ {"QUEUED"}
    BY <1>1, <2>1, <2>3, <2>4, <2>6, StateUpdate
  <2> QED
    BY <2>2, <2>5, <2>6
<1> QED
  BY <1>3, <1>4, <1>5, <1>6, <1>7 DEF RequestStep

LEMMA WorkerRows ==
  ASSUME TypeInv, NEW j \in Key, WorkerStep(j)
  PROVE  \A k \in Key : Better(k, analyses[k], analyses'[k])
<1>1. analyses \in [Key -> Row] /\ analyses[j] \in Row
  BY DEF TypeInv, ApiTypeOK
<1>2. ASSUME UNCHANGED analyses PROVE \A k \in Key : Better(k, analyses[k], analyses'[k])
  BY <1>1, <1>2, RowsKept
<1>3. {"RUNNING", "FAILED", "SUCCEEDED", "PARTIAL", "CANCELED"} \subseteq AnalysisState \ {"QUEUED"}
  BY DEF AnalysisState
<1>4. ASSUME NEW target \in {"FAILED", "SUCCEEDED", "PARTIAL"}, Moves(j, target)
      PROVE  \A k \in Key : Better(k, analyses[k], analyses'[k])
  <2>1. CASE SetAnalysisState(analyses[j].state, "RUNNING", target) = target
    BY <1>1, <1>3, <1>4, <2>1, StateUpdate DEF Moves
  <2>2. CASE SetAnalysisState(analyses[j].state, "RUNNING", target) = analyses[j].state
    BY <1>1, <1>2, <1>4, <2>2 DEF Moves, Row
  <2> QED
    BY <2>1, <2>2 DEF SetAnalysisState
<1>5. CASE Claim(j) \/ HonorCancel(j)
  BY <1>1, <1>3, <1>5, StateUpdate DEF Claim, HonorCancel
<1>6. CASE Discard(j) \/ OrchestrateRaises(j) \/ LoadJob(j) \/ WriteReport(j) \/ Retake(j)
  BY <1>2, <1>6 DEF Discard, OrchestrateRaises, LoadJob, WriteReport, Retake
<1>7. CASE RunStages(j) \/ FailRun(j)
  BY <1>2, <1>4, <1>7 DEF RunStages, FailRun
<1>8. CASE SaveSummary(j)
  <2> DEFINE row == [analyses[j] EXCEPT !.summary = TRUE]
  <2>1. analyses' = [analyses EXCEPT ![j] = row]
    BY <1>8 DEF SaveSummary
  <2>2. row \in Row /\ Better(j, analyses[j], row)
    BY <1>1, RowSummary DEF Better
  <2> HIDE DEF row
  <2> QED
    BY <1>1, <2>1, <2>2, RowUpdate
<1>9. ASSUME NEW outcome \in {"SUCCEEDED", "PARTIAL", "FAILED"}, Settle(j, outcome)
      PROVE  \A k \in Key : Better(k, analyses[k], analyses'[k])
  BY <1>4, <1>9 DEF Settle
<1> QED
  BY <1>5, <1>6, <1>7, <1>8, <1>9 DEF WorkerStep

-----------------------------------------------------------------------------
(* What an accepted analysis may rely on, when workers take commands.      *)

Ready(k) == analyses[k].state # "none" /\ analyses[k].config = k[2] /\ analyses[k].stages

\* Nothing is queued or claimed before its row is ready, and no configuration but
\* that of the identity is recorded or loaded.
KeyReady(k) ==
  /\ analyses[k].config \in {NoConfig, k[2]}
  /\ worker[k].config \in {NoConfig, k[2]}
  /\ k \in commands \/ worker[k].at # "none" => Ready(k)

\* What a request that creates has done by each of its steps.
Created(r) ==
  LET row == analyses[KeyOf(r)] IN
    /\ pc[r] \in {"record", "ensure", "enqueue", "accepted"} => row.state # "none"
    /\ pc[r] \in {"ensure", "enqueue", "accepted"} => row.config = req[r].config
    /\ pc[r] \in {"enqueue", "accepted"} => row.stages
    /\ pc[r] \in {"record", "ensure", "enqueue"} /\ row.state = "QUEUED" =>
         req[r].seen = "QUEUED"
    /\ pc[r] = "accepted" /\ row.state = "QUEUED" =>
         KeyOf(r) \in commands \cup dropped

QueueInv == (\A k \in Key : KeyReady(k)) /\ (\A r \in Request : Created(r))

LEMMA QueueInit == Init => QueueInv
<1> SUFFICES ASSUME Init PROVE QueueInv
  OBVIOUS
<1>1. /\ \A r \in Request : pc[r] = "new"
      /\ \A k \in Key : analyses[k] = NoRow
      /\ \A k \in Key : worker[k] = [at |-> "none", config |-> NoConfig]
      /\ commands = {} /\ dropped = {}
  BY DEF Init
<1> QED
  BY <1>1, NewRow DEF QueueInv, KeyReady, Created

\* A row that is ready stays so.
LEMMA ReadyKept ==
  ASSUME NEW k \in Key, Better(k, analyses[k], analyses'[k]), Ready(k)
  PROVE  Ready(k)'
BY DEF Better, Ready

\* A request that does not move keeps what it has done, while the rows only get
\* better and the command it relies on is there, or has been used up by a task that raised.
LEMMA CreatedKept ==
  ASSUME TypeInv, NEW p \in Request, Created(p), pc'[p] = pc[p], req'[p] = req[p],
         \A k \in Key : Better(k, analyses[k], analyses'[k]),
         \A k \in Key : k \in commands \cup dropped /\ analyses'[k].state = "QUEUED" =>
                          k \in commands' \cup dropped'
  PROVE  Created(p)'
<1>1. CASE pc[p] \notin {"record", "ensure", "enqueue", "accepted"}
  BY <1>1 DEF Created
<1>2. CASE pc[p] \in {"record", "ensure", "enqueue", "accepted"}
  <2>1. KeyOf(p) \in Key /\ KeyOf(p)' = KeyOf(p) /\ KeyOf(p)[2] = req[p].config
    BY <1>2, Labels DEF TypeInv, Carries, KeyOf
  <2>2. Better(KeyOf(p), analyses[KeyOf(p)], analyses'[KeyOf(p)])
    BY <2>1
  <2> QED
    BY <1>2, <2>1, <2>2 DEF Created, Better
<1> QED
  BY <1>1, <1>2

LEMMA RequestQueue ==
  ASSUME Celery, TypeInv, QueueInv, NEW r \in Request, RequestStep(r)
  PROVE  QueueInv'
<1>1. /\ Alone(r) /\ pc'[r] \in ApiPc \cup (EndPc \ {"answered", "dead"})
      /\ \A k \in Key : Better(k, analyses[k], analyses'[k])
      /\ pc \in [Request -> Pc] /\ req \in [Request -> Frame] /\ analyses \in [Key -> Row]
      /\ pc[r] \in ApiPc => KeyOf(r) \in Key
      /\ KeyOf(r)[2] = req[r].config
  BY RequestEffect, RequestRows DEF TypeInv, ApiTypeOK, Carries, KeyOf
<1>2. /\ pc[r] # "new" => KeyOf(r)' = KeyOf(r)
      /\ UNCHANGED worker /\ commands \subseteq commands'
      /\ commands \cup dropped \subseteq commands' \cup dropped'
  <2>1. /\ UNCHANGED worker /\ commands \subseteq commands'
        /\ commands \cup dropped \subseteq commands' \cup dropped'
    <3>1. CASE Enqueue(r)
      BY <3>1 DEF Enqueue, Send
    <3>2. CASE UNCHANGED << worker, commands, dropped >>
      BY <3>2
    <3> QED
      BY <3>1, <3>2 DEF RequestStep, PostAnalysis, CancelRead, GetReport, QuotaKey, QuotaCount,
        Lookup, InsertAnalysis, RecordConfig, EnsureStages, CancelWrite, ReadReport,
        RequestFails, apiVars
  <2> QED
    BY SMTT(30), <1>1, <2>1 DEF Alone, KeyOf
<1>3. \A label : Goto(r, label) => pc'[r] = label
  BY <1>1 DEF Goto
<1>4. \A p \in Request \ {r} : Created(p)'
  BY <1>1, <1>2, CreatedKept DEF QueueInv, Alone
<1>5. ASSUME \A k \in commands' \ commands : Ready(k) PROVE \A k \in Key : KeyReady(k)'
  <2> SUFFICES ASSUME NEW k \in Key PROVE KeyReady(k)'
    OBVIOUS
  <2>1. KeyReady(k) /\ Better(k, analyses[k], analyses'[k])
    BY <1>1 DEF QueueInv
  <2>2. k \in commands' \/ worker'[k].at # "none" => Ready(k)
    BY <1>2, <1>5, <2>1 DEF KeyReady
  <2>3. k \in commands' \/ worker'[k].at # "none" => Ready(k)'
    BY <2>1, <2>2, ReadyKept
  <2>4. analyses'[k].config \in {NoConfig, k[2]}
    BY <2>1 DEF KeyReady, Better
  <2> QED
    BY <1>2, <2>1, <2>3, <2>4 DEF KeyReady
<1>6. ASSUME UNCHANGED commands, Created(r)' PROVE QueueInv'
  BY <1>4, <1>5, <1>6 DEF QueueInv
<1>7. ASSUME pc'[r] \notin {"record", "ensure", "enqueue", "accepted"}, UNCHANGED commands
      PROVE  QueueInv'
  BY <1>6, <1>7 DEF Created
<1>8. ASSUME NEW k \in Key, PostAnalysis(r, k) \/ CancelRead(r, k) \/ GetReport(r, k)
      PROVE  QueueInv'
  BY <1>3, <1>7, <1>8 DEF PostAnalysis, CancelRead, GetReport, apiVars
<1>9. CASE QuotaKey(r) \/ QuotaCount(r) \/ CancelWrite(r) \/ ReadReport(r) \/ RequestFails(r)
  BY <1>3, <1>7, <1>9 DEF QuotaKey, QuotaCount, CancelWrite, ReadReport, RequestFails, Ends,
    apiVars
<1>10. CASE Lookup(r)
  <2> DEFINE s == analyses[KeyOf(r)].state
  <2>1. /\ pc[r] = "lookup" /\ Goto(r, IF s # "none" THEN "record" ELSE "insert")
        /\ req' = [req EXCEPT ![r].seen = s, ![r].reused = s # "none"]
        /\ UNCHANGED << analyses, commands >>
    BY <1>10 DEF Lookup, apiVars
  <2>2. /\ req'[r].seen = s /\ KeyOf(r)' = KeyOf(r)
        /\ pc'[r] = IF s # "none" THEN "record" ELSE "insert"
    BY <1>1, <1>2, <1>3, <2>1 DEF Frame
  <2>3. Created(r)'
    BY <2>1, <2>2 DEF Created
  <2> QED
    BY <1>6, <2>1, <2>3
<1>11. CASE InsertAnalysis(r)
  <2> DEFINE free == analyses[KeyOf(r)].state = "none"
             row == IF free THEN [NoRow EXCEPT !.state = "QUEUED"] ELSE analyses[KeyOf(r)]
  <2>1. /\ pc[r] = "insert" /\ Goto(r, "record") /\ UNCHANGED commands
        /\ analyses' = [analyses EXCEPT ![KeyOf(r)] = row]
        /\ req' = [req EXCEPT ![r].seen = row.state, ![r].reused = ~free]
    BY <1>11, Zenon DEF InsertAnalysis
  <2>2. KeyOf(r) \in Key
    BY <1>1, <2>1, Labels
  <2>3. row.state # "none"
    BY <1>1, <2>2, NewRow, RowState DEF AnalysisState
  <2> HIDE DEF row, free
  <2>4. /\ analyses'[KeyOf(r)] = row /\ req'[r].seen = row.state
        /\ pc'[r] = "record" /\ KeyOf(r)' = KeyOf(r)
    BY <1>1, <1>2, <1>3, <2>1, <2>2 DEF Frame
  <2>5. Created(r)'
    BY <2>3, <2>4 DEF Created
  <2> QED
    BY <1>6, <2>1, <2>5
<1>12. CASE RecordConfig(r)
  <2>1. /\ pc[r] = "record" /\ pc'[r] = "ensure" /\ UNCHANGED << req, commands >>
        /\ KeyOf(r) \in Key
        /\ analyses' = [analyses EXCEPT ![KeyOf(r)].config = req[r].config]
    BY <1>1, <1>3, <1>12, Labels DEF RecordConfig, Ends
  <2>2. /\ analyses'[KeyOf(r)].config = req[r].config
        /\ analyses'[KeyOf(r)].state = analyses[KeyOf(r)].state
    BY <1>1, <2>1 DEF Row
  <2>3. Created(r) /\ KeyOf(r)' = KeyOf(r)
    BY <1>2, <2>1 DEF QueueInv
  <2>4. Created(r)'
    BY <2>1, <2>2, <2>3 DEF Created
  <2> QED
    BY <1>6, <2>1, <2>4
<1>13. CASE EnsureStages(r)
  <2>1. /\ pc[r] = "ensure" /\ pc'[r] = "enqueue" /\ UNCHANGED << req, commands >>
        /\ KeyOf(r) \in Key
        /\ analyses' = [analyses EXCEPT ![KeyOf(r)].stages = TRUE]
    BY <1>1, <1>3, <1>13, Labels DEF EnsureStages, Ends
  <2>2. /\ analyses'[KeyOf(r)].stages
        /\ analyses'[KeyOf(r)].config = analyses[KeyOf(r)].config
        /\ analyses'[KeyOf(r)].state = analyses[KeyOf(r)].state
    BY <1>1, <2>1 DEF Row
  <2>3. Created(r) /\ KeyOf(r)' = KeyOf(r)
    BY <1>2, <2>1 DEF QueueInv
  <2>4. Created(r)'
    BY <2>1, <2>2, <2>3 DEF Created
  <2> QED
    BY <1>6, <2>1, <2>4
<1>14. CASE Enqueue(r)
  <2>1. /\ pc[r] = "enqueue" /\ pc'[r] = "accepted" /\ UNCHANGED << req, analyses >>
        /\ KeyOf(r) \in Key
        /\ commands' = IF req[r].seen = "QUEUED" THEN commands \cup {KeyOf(r)} ELSE commands
        /\ req[r].seen # "QUEUED" => UNCHANGED dropped
    BY <1>1, <1>3, <1>14, Labels DEF Enqueue, Send, Ends
  <2>2. Created(r) /\ KeyOf(r)' = KeyOf(r)
    BY <1>2, <2>1 DEF QueueInv
  <2>3. Ready(KeyOf(r))
    BY <1>1, <2>1, <2>2 DEF Created, Ready
  <2>4. \A k \in commands' \ commands : Ready(k)
    BY <2>1, <2>3
  <2>5. Created(r)'
    BY <2>1, <2>2 DEF Created
  <2> QED
    BY <1>4, <1>5, <2>4, <2>5 DEF QueueInv
<1> QED
  BY <1>8, <1>9, <1>10, <1>11, <1>12, <1>13, <1>14 DEF RequestStep

LEMMA WorkerQueue ==
  ASSUME Celery, TypeInv, QueueInv, NEW j \in Key, WorkerStep(j)
  PROVE  QueueInv'
<1>1. /\ \A k \in Key : Better(k, analyses[k], analyses'[k])
      /\ analyses \in [Key -> Row] /\ worker \in [Key -> Run]
      /\ UNCHANGED << pc, req >>
  BY WorkerRows, WorkerEffect DEF TypeInv, ApiTypeOK
<1>2. ASSUME \A k \in Key : k \in commands \cup dropped /\ analyses'[k].state = "QUEUED" =>
                              k \in commands' \cup dropped'
      PROVE  \A r \in Request : Created(r)'
  BY <1>1, <1>2, CreatedKept DEF QueueInv
<1>3. ASSUME \A k \in Key : worker'[k].config \in {worker[k].config, k[2]},
             \A k \in Key : k \in commands' \/ worker'[k].at # "none" =>
                              k \in commands \/ worker[k].at # "none"
      PROVE  \A k \in Key : KeyReady(k)'
  <2> SUFFICES ASSUME NEW k \in Key PROVE KeyReady(k)'
    OBVIOUS
  <2>1. KeyReady(k) /\ Better(k, analyses[k], analyses'[k])
    BY <1>1 DEF QueueInv
  <2>2. k \in commands' \/ worker'[k].at # "none" => Ready(k)'
    BY <1>3, <2>1, ReadyKept DEF KeyReady
  <2>3. analyses'[k].config \in {NoConfig, k[2]} /\ worker'[k].config \in {NoConfig, k[2]}
    BY <1>3, <2>1 DEF KeyReady, Better
  <2> QED
    BY <2>2, <2>3 DEF KeyReady
<1>4. \A at : At(j, at) =>
        /\ \A k \in Key : worker'[k].config = worker[k].config
        /\ \A k \in Key \ {j} : worker'[k].at = worker[k].at
  BY <1>1 DEF At, Run
<1>5. ASSUME UNCHANGED << commands, dropped >>, worker[j].at # "none", NEW at, At(j, at)
      PROVE  QueueInv'
  BY <1>2, <1>3, <1>4, <1>5 DEF QueueInv
<1>6. CASE Claim(j)
  <2>1. /\ j \in commands /\ commands' = commands \ {j}
        /\ analyses' = [analyses EXCEPT ![j].state = "RUNNING"] /\ At(j, "claimed")
        /\ UNCHANGED dropped
    BY <1>6 DEF Claim
  <2>2. analyses'[j].state = "RUNNING"
    BY <1>1, <2>1 DEF Row
  <2> QED
    BY <1>2, <1>3, <1>4, <2>1, <2>2 DEF QueueInv
<1>7. CASE Discard(j)
  BY <1>2, <1>3, <1>7 DEF Discard, QueueInv
<1>8. CASE LoadJob(j)
  <2> DEFINE g == IF analyses[j].config = NoConfig THEN Default ELSE analyses[j].config
  <2>1. worker' = [worker EXCEPT ![j] = [at |-> "loaded", config |-> g]]
        /\ UNCHANGED << commands, dropped >> /\ worker[j].at = "claimed"
    BY <1>8 DEF LoadJob
  <2>2. g = j[2]
    <3>1. Ready(j)
      BY <2>1 DEF QueueInv, KeyReady
    <3>2. j[2] # NoConfig
      BY ApiAssumption DEF Key
    <3> QED
      BY <3>1, <3>2 DEF Ready
  <2> HIDE DEF g
  <2>3. \A k \in Key : IF k = j THEN worker'[k].config = g ELSE worker'[k] = worker[k]
    BY <1>1, <2>1
  <2> QED
    BY <1>2, <1>3, <2>1, <2>2, <2>3 DEF QueueInv
<1>9. CASE RunStages(j) \/ WriteReport(j) \/ Retake(j) \/ SaveSummary(j) \/ FailRun(j)
  BY <1>5, <1>9 DEF RunStages, WriteReport, Retake, SaveSummary, FailRun
<1>10. ASSUME NEW outcome, Settle(j, outcome) PROVE QueueInv'
  BY <1>5, <1>10 DEF Settle
<1>11. CASE HonorCancel(j)
  BY <1>2, <1>3, <1>11 DEF HonorCancel, QueueInv
<1>12. CASE OrchestrateRaises(j)
  BY <1>2, <1>3, <1>12 DEF OrchestrateRaises, QueueInv
<1> QED
  BY <1>6, <1>7, <1>8, <1>9, <1>10, <1>11, <1>12 DEF WorkerStep

LEMMA QueueStep == Celery /\ TypeInv /\ QueueInv /\ [Next]_allVars => QueueInv'
<1> SUFFICES ASSUME Celery, TypeInv, QueueInv, [Next]_allVars PROVE QueueInv'
  OBVIOUS
<1>1. ASSUME UNCHANGED << pc, req, apiVars >> PROVE QueueInv'
  BY <1>1 DEF QueueInv, KeyReady, Ready, Created, KeyOf, apiVars
<1>2. ASSUME NEW r \in Request, UploadStep(r), UNCHANGED apiVars PROVE QueueInv'
  <2>1. /\ Alone(r) /\ pc'[r] \notin {"record", "ensure", "enqueue", "accepted"}
        /\ UNCHANGED << analyses, worker, commands, dropped >> /\ analyses \in [Key -> Row]
    BY <1>2, UploadEffect, Labels DEF apiVars, TypeInv, ApiTypeOK
  <2>2. \A p \in Request \ {r} : Created(p)'
    BY <2>1, RowsKept, CreatedKept DEF QueueInv, Alone
  <2>3. Created(r)'
    BY <2>1 DEF Created
  <2>4. \A k \in Key : KeyReady(k)'
    BY <2>1 DEF QueueInv, KeyReady, Ready
  <2> QED
    BY <2>2, <2>3, <2>4 DEF QueueInv
<1>3. ASSUME NEW f \in ephemeral, Purge(f), UNCHANGED apiVars PROVE QueueInv'
  BY <1>1, <1>3 DEF Purge
<1>4. CASE UNCHANGED allVars
  BY <1>1, <1>4 DEF allVars, ingestVars
<1> QED
  BY <1>2, <1>3, <1>4, RequestQueue, WorkerQueue DEF Next, IngestNext

LEMMA QueueAlways == Celery /\ ApiSpec => []QueueInv
<1>1. Celery => (TypeInv /\ QueueInv /\ [Next]_allVars => QueueInv')
  BY QueueStep
<1>2. CASE Celery
  <2>1. TypeInv /\ QueueInv /\ [Next]_allVars => QueueInv'
    BY <1>1, <1>2
  <2> QED
    BY <2>1, QueueInit, TypeInit, TypeStep, PTL DEF ApiSpec
<1>3. CASE ~Celery
  BY <1>3
<1> QED
  BY <1>2, <1>3

\* When commands start the runs, a client that got 202 has an analysis with its
\* configuration and stage rows, whatever request inserted the row and wherever that one
\* failed.  While it is QUEUED it has a command, unless a task has raised and been
\* acknowledged since the last one was sent (routes.py:151-172, celery_app.py:42-44).
THEOREM AcceptedRuns == Celery /\ ApiSpec => []AcceptedCanRun
<1>1. QueueInv => AcceptedCanRun
  BY DEF QueueInv, Created, AcceptedCanRun
<1> QED
  BY <1>1, QueueAlways, PTL

\* When commands start the runs, no worker computes with another configuration
\* (routes.py:162, postgres.py:810-812); with the poll worker one can.
THEOREM ConfigKept == Celery /\ ApiSpec => []RunsItsConfig
<1>1. QueueInv => RunsItsConfig
  BY DEF QueueInv, KeyReady, RunsItsConfig
<1> QED
  BY <1>1, QueueAlways, PTL

\* When commands start the runs, stage rows precede them (routes.py:163).
THEOREM StagesPrecedeRuns == Celery /\ ApiSpec => []FindsStageRows
<1>1. QueueInv => FindsStageRows
  BY DEF QueueInv, KeyReady, Ready, FindsStageRows
<1> QED
  BY <1>1, QueueAlways, PTL

-----------------------------------------------------------------------------
(* What a reader of a report may rely on.                                  *)

\* A run that is over stays over; its report and summary precede its outcome.
KeyReport(k) ==
  /\ analyses[k].state \in {"none", "QUEUED"} => worker[k].at = "none"
  /\ analyses[k].state \in {"SUCCEEDED", "PARTIAL"} =>
       worker[k].at = "done" /\ analyses[k].summary /\ k \in reports
  /\ worker[k].at \in {"written", "summarized"} => k \in reports
  /\ worker[k].at = "summarized" => analyses[k].summary

\* The reader has seen such a run.
Reads(r) ==
  /\ pc[r] = "read_report" =>
       /\ analyses[KeyOf(r)].state # "none" /\ analyses[KeyOf(r)].summary
       /\ worker[KeyOf(r)].at = "done" /\ KeyOf(r) \in reports
  /\ pc[r] # "missing"

ReportInv == (\A k \in Key : KeyReport(k)) /\ (\A r \in Request : Reads(r))

LEMMA ReportInit == Init => ReportInv
<1> SUFFICES ASSUME Init PROVE ReportInv
  OBVIOUS
<1>1. /\ \A r \in Request : pc[r] = "new"
      /\ \A k \in Key : analyses[k] = NoRow
      /\ \A k \in Key : worker[k] = [at |-> "none", config |-> NoConfig]
  BY DEF Init
<1> QED
  BY <1>1, NewRow DEF ReportInv, KeyReport, Reads

LEMMA ReadsKept ==
  ASSUME TypeInv, NEW p \in Request, Reads(p), pc'[p] = pc[p], req'[p] = req[p],
         \A k \in Key : Better(k, analyses[k], analyses'[k]),
         \A k \in Key : worker[k].at = "done" =>
                          worker'[k].at = "done" /\ (k \in reports => k \in reports')
  PROVE  Reads(p)'
<1>1. pc[p] = "read_report" => KeyOf(p) \in Key
  BY Labels DEF TypeInv, Carries, KeyOf
<1>2. KeyOf(p)' = KeyOf(p)
  BY DEF KeyOf
<1> QED
  BY <1>1, <1>2 DEF Reads, Better

LEMMA RequestReport ==
  ASSUME TypeInv, ReportInv, NEW r \in Request, RequestStep(r)
  PROVE  ReportInv'
<1>1. /\ Alone(r) /\ \A k \in Key : Better(k, analyses[k], analyses'[k])
      /\ pc \in [Request -> Pc] /\ req \in [Request -> Frame] /\ analyses \in [Key -> Row]
      /\ pc[r] \in ApiPc => KeyOf(r) \in Key
  BY SMTT(30), RequestEffect, RequestRows DEF TypeInv, ApiTypeOK, Carries, KeyOf
<1>2. UNCHANGED << worker, reports >>
  BY DEF RequestStep, PostAnalysis, CancelRead, GetReport, QuotaKey, QuotaCount, Lookup,
    InsertAnalysis, RecordConfig, EnsureStages, Enqueue, CancelWrite, ReadReport,
    RequestFails, apiVars
<1>3. \A label : Goto(r, label) => pc'[r] = label
  BY <1>1 DEF Goto
<1>4. \A p \in Request \ {r} : Reads(p)'
  BY <1>1, <1>2, ReadsKept DEF ReportInv, Alone
<1>5. ASSUME NEW k \in Key, analyses'[k].state = analyses[k].state PROVE KeyReport(k)'
  BY <1>1, <1>2, <1>5 DEF ReportInv, KeyReport, Better
<1>6. ASSUME pc'[r] \notin {"read_report", "missing"},
             \A k \in Key : analyses'[k].state = analyses[k].state
      PROVE  ReportInv'
  BY <1>4, <1>5, <1>6 DEF ReportInv, Reads
<1>7. ASSUME NEW k \in Key, PostAnalysis(r, k) \/ CancelRead(r, k)
      PROVE  ReportInv'
  BY <1>3, <1>6, <1>7 DEF PostAnalysis, CancelRead, apiVars
<1>8. ASSUME NEW k \in Key, GetReport(r, k) PROVE ReportInv'
  <2> DEFINE ended == analyses[k].state \in {"SUCCEEDED", "PARTIAL"}
  <2>1. /\ Goto(r, IF ended THEN "read_report" ELSE "refused") /\ analyses[k].state # "none"
        /\ req' = [req EXCEPT ![r].content = k[1], ![r].config = k[2]]
        /\ UNCHANGED analyses
    BY <1>8 DEF GetReport, apiVars
  <2>2. KeyOf(r)' = k
    BY <1>1, <2>1 DEF Frame, KeyOf, Key
  <2>3. ended => analyses[k].summary /\ worker[k].at = "done" /\ k \in reports
    BY DEF ReportInv, KeyReport
  <2>4. pc'[r] # "missing" /\ (pc'[r] = "read_report" => ended)
    BY <1>3, <2>1
  <2> HIDE DEF ended
  <2>5. Reads(r)'
    BY <1>2, <2>1, <2>2, <2>3, <2>4 DEF Reads
  <2> QED
    BY <1>4, <1>5, <2>1, <2>5 DEF ReportInv
<1>9. CASE QuotaKey(r) \/ QuotaCount(r) \/ Lookup(r) \/ Enqueue(r) \/ RequestFails(r)
  BY <1>3, <1>6, <1>9 DEF QuotaKey, QuotaCount, Lookup, Enqueue, RequestFails, Ends, apiVars
<1>10. CASE InsertAnalysis(r)
  <2> DEFINE free == analyses[KeyOf(r)].state = "none"
             row == IF free THEN [NoRow EXCEPT !.state = "QUEUED"] ELSE analyses[KeyOf(r)]
  <2>1. /\ pc[r] = "insert" /\ Goto(r, "record")
        /\ analyses' = [analyses EXCEPT ![KeyOf(r)] = row]
    BY <1>10, Zenon DEF InsertAnalysis
  <2>2. KeyOf(r) \in Key
    BY <1>1, <2>1, Labels
  <2>3. row = analyses[KeyOf(r)] \/ (free /\ row.state = "QUEUED")
    BY NewRow, RowState DEF AnalysisState
  <2> HIDE DEF row
  <2>4. \A k \in Key : \/ analyses'[k].state = analyses[k].state
                       \/ analyses[k].state = "none" /\ analyses'[k].state = "QUEUED"
    BY <1>1, <2>1, <2>2, <2>3
  <2>5. ASSUME NEW k \in Key, analyses[k].state = "none", analyses'[k].state = "QUEUED"
        PROVE  KeyReport(k)'
    BY <1>2, <2>5 DEF ReportInv, KeyReport
  <2>6. Reads(r)'
    BY <1>3, <2>1 DEF Reads
  <2> QED
    BY <1>4, <1>5, <2>4, <2>5, <2>6 DEF ReportInv
<1>11. CASE RecordConfig(r) \/ EnsureStages(r)
  <2>1. KeyOf(r) \in Key
    BY <1>1, <1>11, Labels DEF RecordConfig, EnsureStages
  <2>2. \A k \in Key : analyses'[k].state = analyses[k].state
    BY <1>1, <1>11, <2>1 DEF RecordConfig, EnsureStages, Row
  <2> QED
    BY <1>3, <1>6, <1>11, <2>2 DEF RecordConfig, EnsureStages, Ends
<1>12. CASE CancelWrite(r)
  <2> DEFINE target == CancelTarget(req[r].seen)
  <2>1. /\ analyses' = [analyses EXCEPT ![KeyOf(r)].state = IF target = "KEEP" THEN @ ELSE target]
        /\ pc[r] = "cancel" /\ Ends(r, "canceled")
    BY <1>12 DEF CancelWrite
  <2>2. KeyOf(r) \in Key
    BY <1>1, <2>1, Labels
  <2>3. target \in {"KEEP", "CANCELED", "CANCEL_REQUESTED"}
    BY DEF CancelTarget
  <2> HIDE DEF target
  <2>4. \A k \in Key : \/ analyses'[k].state = analyses[k].state
                       \/ analyses'[k].state \in {"CANCELED", "CANCEL_REQUESTED"}
    BY <1>1, <2>1, <2>2, <2>3 DEF Row
  <2>5. ASSUME NEW k \in Key, analyses'[k].state \in {"CANCELED", "CANCEL_REQUESTED"}
        PROVE  KeyReport(k)'
    <3>1. worker[k].at = "summarized" => analyses'[k].summary
      BY <1>1 DEF ReportInv, KeyReport, Better
    <3> QED
      BY <1>2, <2>5, <3>1 DEF ReportInv, KeyReport
  <2>6. Reads(r)'
    BY <1>3, <2>1 DEF Reads, Ends
  <2> QED
    BY <1>4, <1>5, <2>4, <2>5, <2>6 DEF ReportInv
<1>13. CASE ReadReport(r)
  <2>1. analyses[KeyOf(r)].summary /\ KeyOf(r) \in reports
    BY <1>13 DEF ReadReport, ReportInv, Reads
  <2>2. pc'[r] = "served" /\ UNCHANGED analyses
    BY <1>3, <1>13, <2>1 DEF ReadReport, Ends, apiVars
  <2> QED
    BY <1>6, <2>2
<1> QED
  BY <1>7, <1>8, <1>9, <1>10, <1>11, <1>12, <1>13 DEF RequestStep

LEMMA WorkerReport ==
  ASSUME TypeInv, ReportInv, NEW j \in Key, WorkerStep(j)
  PROVE  ReportInv'
<1>1. /\ \A k \in Key : Better(k, analyses[k], analyses'[k])
      /\ analyses \in [Key -> Row] /\ worker \in [Key -> Run] /\ UNCHANGED << pc, req >>
  BY WorkerRows, WorkerEffect DEF TypeInv, ApiTypeOK
<1>2. KeyReport(j)
  BY DEF ReportInv
<1>3. ASSUME \A k \in Key \ {j} : /\ analyses'[k].state = analyses[k].state
                                  /\ worker'[k].at = worker[k].at
                                  /\ k \in reports <=> k \in reports',
             KeyReport(j)',
             worker[j].at = "done" =>
               worker'[j].at = "done" /\ (j \in reports => j \in reports')
      PROVE  ReportInv'
  <2>1. \A k \in Key \ {j} : KeyReport(k)'
    BY <1>1, <1>3 DEF ReportInv, KeyReport, Better
  <2>2. \A k \in Key : worker[k].at = "done" =>
                          worker'[k].at = "done" /\ (k \in reports => k \in reports')
    BY <1>3
  <2>3. \A r \in Request : Reads(r)'
    BY <1>1, <2>2, ReadsKept DEF ReportInv
  <2> QED
    BY <1>3, <2>1, <2>3 DEF ReportInv
<1>4. \A at : At(j, at) => /\ worker'[j].at = at
                           /\ \A k \in Key \ {j} : worker'[k].at = worker[k].at
  BY <1>1 DEF At, Run
<1>5. \A s : analyses' = [analyses EXCEPT ![j].state = s] =>
        /\ analyses'[j].state = s /\ analyses'[j].summary = analyses[j].summary
        /\ \A k \in Key \ {j} : analyses'[k].state = analyses[k].state
  BY <1>1 DEF Row
<1>6. \A target : Moves(j, target) =>
        /\ \/ analyses[j].state = "RUNNING" /\ analyses'[j].state = target
           \/ analyses'[j].state = analyses[j].state
        /\ analyses'[j].summary = analyses[j].summary
        /\ \A k \in Key \ {j} : analyses'[k].state = analyses[k].state
  BY <1>5 DEF Moves, SetAnalysisState
<1>7. CASE Claim(j)
  <2>1. /\ analyses[j].state = "QUEUED" /\ analyses'[j].state = "RUNNING"
        /\ worker'[j].at = "claimed" /\ UNCHANGED reports
        /\ \A k \in Key \ {j} : /\ analyses'[k].state = analyses[k].state
                                /\ worker'[k].at = worker[k].at
    BY <1>4, <1>5, <1>7 DEF Claim
  <2>2. worker[j].at # "done"
    BY <1>2, <2>1 DEF KeyReport
  <2>3. KeyReport(j)'
    BY <2>1 DEF KeyReport
  <2> QED
    BY <1>3, <2>1, <2>2, <2>3
<1>8. CASE Discard(j) \/ OrchestrateRaises(j)
  <2>1. UNCHANGED << analyses, worker, reports >>
    BY <1>8 DEF Discard, OrchestrateRaises
  <2>2. KeyReport(j)'
    BY <1>2, <2>1 DEF KeyReport
  <2> QED
    BY <1>3, <2>1, <2>2
<1>9. CASE LoadJob(j)
  <2>1. /\ UNCHANGED << analyses, reports >> /\ worker[j].at = "claimed"
        /\ worker'[j].at = "loaded"
        /\ \A k \in Key \ {j} : worker'[k].at = worker[k].at
    BY <1>1, <1>9 DEF LoadJob
  <2>2. KeyReport(j)'
    BY <1>2, <2>1 DEF KeyReport
  <2> QED
    BY <1>3, <2>1, <2>2
<1>10. CASE RunStages(j)
  <2>1. worker[j].at = "loaded"
        /\ analyses[j].state \notin {"none", "QUEUED", "SUCCEEDED", "PARTIAL"}
    BY <1>2, <1>10 DEF RunStages, KeyReport
  <2>2. CASE reports' = reports \ {j} /\ At(j, "writing") /\ UNCHANGED analyses
    <3>1. KeyReport(j)'
      BY <1>4, <2>1, <2>2 DEF KeyReport
    <3> QED
      BY <1>3, <1>4, <2>1, <2>2, <3>1
  <2>3. CASE Moves(j, "FAILED") /\ At(j, "done") /\ UNCHANGED reports
    <3>1. KeyReport(j)'
      BY <1>4, <1>6, <2>1, <2>3 DEF KeyReport
    <3> QED
      BY <1>3, <1>4, <1>6, <2>1, <2>3, <3>1
  <2> QED
    BY <1>10, <2>2, <2>3 DEF RunStages
<1>11. CASE WriteReport(j)
  <2>1. /\ worker[j].at = "writing" /\ reports' = reports \cup {j} /\ At(j, "written")
        /\ UNCHANGED analyses
    BY <1>11 DEF WriteReport
  <2>2. KeyReport(j)'
    BY <1>2, <1>4, <2>1 DEF KeyReport
  <2> QED
    BY <1>3, <1>4, <2>1, <2>2
<1>12. CASE Retake(j)
  <2>1. UNCHANGED << analyses, reports >> /\ worker[j].at \notin {"none", "done"}
        /\ (\/ worker'[j].at = "claimed"
            \/ worker[j].at = "summarized" /\ worker'[j].at = "written")
        /\ \A k \in Key \ {j} : worker'[k].at = worker[k].at
    <3>1. CASE worker[j].at \in {"loaded", "writing", "written"} /\ At(j, "claimed")
      BY <1>4, <1>12, <3>1 DEF Retake
    <3>2. CASE worker[j].at = "summarized" /\ At(j, "written")
      BY <1>4, <1>12, <3>2 DEF Retake
    <3> QED
      BY <1>12, <3>1, <3>2 DEF Retake
  <2>2. KeyReport(j)'
    BY <1>2, <2>1 DEF KeyReport
  <2> QED
    BY <1>3, <2>1, <2>2
<1>13. CASE SaveSummary(j)
  <2>1. /\ worker[j].at = "written" /\ worker'[j].at = "summarized" /\ UNCHANGED reports
        /\ analyses' = [analyses EXCEPT ![j].summary = TRUE]
        /\ \A k \in Key \ {j} : worker'[k].at = worker[k].at
    BY <1>4, <1>13 DEF SaveSummary
  <2>2. /\ analyses'[j].summary /\ analyses'[j].state = analyses[j].state
        /\ \A k \in Key \ {j} : analyses'[k].state = analyses[k].state
    BY <1>1, <2>1 DEF Row
  <2>3. KeyReport(j)'
    BY <1>2, <2>1, <2>2 DEF KeyReport
  <2> QED
    BY <1>3, <2>1, <2>2, <2>3
<1>14. ASSUME NEW outcome \in {"SUCCEEDED", "PARTIAL", "FAILED"}, Settle(j, outcome)
       PROVE  ReportInv'
  <2>1. /\ worker[j].at = "summarized" /\ worker'[j].at = "done" /\ UNCHANGED reports
        /\ \A k \in Key \ {j} : worker'[k].at = worker[k].at
        /\ Moves(j, outcome)
    BY <1>4, <1>14 DEF Settle
  <2>2. KeyReport(j)'
    BY <1>2, <1>6, <2>1 DEF KeyReport
  <2> QED
    BY <1>3, <1>6, <2>1, <2>2
<1>15. CASE FailRun(j)
  <2>1. /\ worker[j].at \notin {"none", "done"} /\ worker'[j].at = "done" /\ UNCHANGED reports
        /\ \A k \in Key \ {j} : worker'[k].at = worker[k].at
        /\ Moves(j, "FAILED")
    BY <1>4, <1>15 DEF FailRun
  <2>2. KeyReport(j)'
    BY <1>2, <1>6, <2>1 DEF KeyReport
  <2> QED
    BY <1>3, <1>6, <2>1, <2>2
<1>16. CASE HonorCancel(j)
  <2>1. /\ analyses'[j].state = "CANCELED" /\ analyses'[j].summary = analyses[j].summary
        /\ \A k \in Key \ {j} : analyses'[k].state = analyses[k].state
        /\ UNCHANGED << worker, reports >>
    BY <1>5, <1>16 DEF HonorCancel
  <2>2. KeyReport(j)'
    BY <1>2, <2>1 DEF KeyReport
  <2> QED
    BY <1>3, <2>1, <2>2
<1> QED
  BY <1>7, <1>8, <1>9, <1>10, <1>11, <1>12, <1>13, <1>14, <1>15, <1>16 DEF WorkerStep

LEMMA ReportStep == TypeInv /\ ReportInv /\ [Next]_allVars => ReportInv'
<1> SUFFICES ASSUME TypeInv, ReportInv, [Next]_allVars PROVE ReportInv'
  OBVIOUS
<1>1. ASSUME UNCHANGED << pc, req, apiVars >> PROVE ReportInv'
  BY <1>1 DEF ReportInv, KeyReport, Reads, KeyOf, apiVars
<1>2. ASSUME NEW r \in Request, UploadStep(r), UNCHANGED apiVars PROVE ReportInv'
  <2>1. /\ Alone(r) /\ pc'[r] \notin {"read_report", "missing"}
        /\ UNCHANGED << analyses, worker, reports >> /\ analyses \in [Key -> Row]
    BY <1>2, UploadEffect, Labels DEF apiVars, TypeInv, ApiTypeOK
  <2>2. \A p \in Request \ {r} : Reads(p)'
    BY <2>1, RowsKept, ReadsKept DEF ReportInv, Alone
  <2> QED
    BY <2>1, <2>2 DEF ReportInv, KeyReport, Reads
<1>3. ASSUME NEW f \in ephemeral, Purge(f), UNCHANGED apiVars PROVE ReportInv'
  BY <1>1, <1>3 DEF Purge
<1>4. CASE UNCHANGED allVars
  BY <1>1, <1>4 DEF allVars, ingestVars
<1> QED
  BY <1>2, <1>3, <1>4, RequestReport, WorkerReport DEF Next, IngestNext

\* A client that has seen SUCCEEDED or PARTIAL finds the summary and the file of
\* the report, also when a cancel or a retry comes between its reads, as long as
\* no worker outlasts its lease (routes.py:230-242, aggregation.py:147-200).
THEOREM ReportsServed == ApiSpec => []ReportServed
<1>1. ReportInv => ReportServed
  BY DEF ReportInv, Reads, ReportServed
<1> QED
  BY <1>1, TypeInit, TypeStep, ReportInit, ReportStep, PTL DEF ApiSpec

=============================================================================
