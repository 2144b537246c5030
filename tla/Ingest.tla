------------------------------- MODULE Ingest -------------------------------
(***************************************************************************)
(* POST /videos (api/routes.py) over IngestVideo (application/ingest.py),  *)
(* the filesystem artifact store and the videos and artifacts tables.      *)
(* Each request is handled once; requests interleave at every file or row  *)
(* they touch, as those of two API processes on one store and one database *)
(* do.  The clean-up command removes temporary files beside them.          *)
(***************************************************************************)
EXTENDS Naturals

CONSTANTS
  Request,    \* the requests of clients
  Content,    \* media, by the digest of their bytes
  Valid,      \* the media that probe and validate_probe_facts accept
  Earlier,    \* an upload that ended before the requests
  None,       \* no value
  MaxFaults   \* bound on adapter errors and deaths of a handler

ASSUME IngestAssumption ==
  /\ Valid \subseteq Content
  /\ Earlier \notin Request
  /\ None \notin Request \cup {Earlier}
  /\ MaxFaults \in Nat

VARIABLES
  pc,         \* the step each request is at
  req,        \* what each request carries and has read
  ephemeral,  \* the files under tmp/ and quarantine/
  canonical,  \* the files under canonical/
  artifacts,  \* the artifacts rows, by the file they name
  videos,     \* the videos row of each content: who inserted it
  faults      \* failures of the environment so far

ingestVars == << pc, req, ephemeral, canonical, artifacts, videos, faults >>
store == << canonical, artifacts, videos >>

\* A video row has the id, and names the probe file, of the upload that wrote it.
Uploader == Request \cup {Earlier}

\* Canonical files.  An original is stored under the digest of its bytes.  Probe
\* output names the temporary file it read, so that every upload has its own.
Blobs == [original : SUBSET Content, probe : SUBSET Uploader]

\* What an upload keeps under the two generated prefixes: the quarantined body, the
\* staged copy of it and, while it is stored, the staged probe output.
Prefix == {"quarantine", "tmp", "tmp_probe"}

UploadPc == {"stage", "dedupe", "probe", "promote", "put_probe", "commit_probe",
             "insert_original", "insert_probe", "insert_video"}

-----------------------------------------------------------------------------
\* The temporary files of a request.
Own(r) == Prefix \X {r}

Goto(r, label) == pc' = [pc EXCEPT ![r] = label]

\* IngestError: staging is aborted, the quarantined file unlinked.
Refuse(r) ==
  /\ Goto(r, "refused")
  /\ ephemeral' = ephemeral \ Own(r)
  /\ UNCHANGED << req, store >>

\* VideoAccepted: the same clean-up, and the client gets the video's id.
Answer(r, video) ==
  /\ Goto(r, "answered")
  /\ req' = [req EXCEPT ![r].video = video]
  /\ ephemeral' = ephemeral \ Own(r)

-----------------------------------------------------------------------------
\* upload_video: the body is streamed to a generated quarantine path.
ReceiveUpload(r, c) ==
  /\ pc[r] = "new"
  /\ Goto(r, "stage")
  /\ req' = [req EXCEPT ![r].content = c]
  /\ ephemeral' = ephemeral \cup {<< "quarantine", r >>}
  /\ UNCHANGED << store, faults >>

\* begin_write and _stream: the quarantined file is copied to staging.
Stage(r) ==
  /\ pc[r] = "stage"
  /\ IF << "quarantine", r >> \in ephemeral
     THEN /\ Goto(r, "dedupe")
          /\ ephemeral' = ephemeral \cup {<< "tmp", r >>}
          /\ UNCHANGED << req, store >>
     ELSE Refuse(r)
  /\ UNCHANGED faults

\* Deviation: the early return does not abort staging.
DedupeKeepsStaging(r) ==
  /\ pc[r] = "dedupe"
  /\ IF videos[req[r].content] # None
     THEN /\ Goto(r, "answered")
          /\ req' = [req EXCEPT ![r].video = videos[req[r].content]]
          /\ ephemeral' = ephemeral \ {<< "quarantine", r >>}
     ELSE Goto(r, "probe") /\ UNCHANGED << req, ephemeral >>
  /\ UNCHANGED << store, faults >>

\* get_video_by_hash: a known digest ends the upload.
Dedupe(r) ==
  /\ pc[r] = "dedupe"
  /\ IF videos[req[r].content] # None
     THEN Answer(r, videos[req[r].content])
     ELSE Goto(r, "probe") /\ UNCHANGED << req, ephemeral >>
  /\ UNCHANGED << store, faults >>

\* ffprobe reads the staging file; validate_probe_facts.
Probe(r) ==
  /\ pc[r] = "probe"
  /\ IF << "tmp", r >> \in ephemeral /\ req[r].content \in Valid
     THEN Goto(r, "promote") /\ UNCHANGED << req, ephemeral, store >>
     ELSE Refuse(r)
  /\ UNCHANGED faults

\* Deviation: a rename that fails is taken for one that another upload has done.
PromoteMissing(r) ==
  /\ pc[r] = "promote"
  /\ Goto(r, "put_probe")
  /\ canonical' = IF << "tmp", r >> \in ephemeral
                  THEN [canonical EXCEPT !.original = @ \cup {req[r].content}]
                  ELSE canonical
  /\ ephemeral' = ephemeral \ {<< "tmp", r >>}
  /\ UNCHANGED << req, artifacts, videos, faults >>

\* staging.commit: a stored original is kept, else the staging file is renamed to
\* it.  Two renames to one key leave the same bytes, so one step stands for the
\* check and the rename.
Promote(r) ==
  /\ pc[r] = "promote"
  /\ IF req[r].content \in canonical.original \/ << "tmp", r >> \in ephemeral
     THEN /\ Goto(r, "put_probe")
          /\ canonical' = [canonical EXCEPT !.original = @ \cup {req[r].content}]
          /\ ephemeral' = ephemeral \ {<< "tmp", r >>}
          /\ UNCHANGED << req, artifacts, videos >>
     ELSE Refuse(r)
  /\ UNCHANGED faults

\* _persist_new: put_bytes stages the probe output ...
PutProbe(r) ==
  /\ pc[r] = "put_probe"
  /\ Goto(r, "commit_probe")
  /\ ephemeral' = ephemeral \cup {<< "tmp_probe", r >>}
  /\ UNCHANGED << req, store, faults >>

\* ... and commits it, if no clean-up has been faster.
CommitProbe(r) ==
  /\ pc[r] = "commit_probe"
  /\ IF << "tmp_probe", r >> \in ephemeral
     THEN /\ Goto(r, "insert_original")
          /\ canonical' = [canonical EXCEPT !.probe = @ \cup {r}]
          /\ ephemeral' = ephemeral \ {<< "tmp_probe", r >>}
          /\ UNCHANGED << req, artifacts, videos >>
     ELSE Refuse(r)
  /\ UNCHANGED faults

\* A plain OSError of that commit (its mkdir, its look at the destination): put_bytes
\* aborts on an AdapterError only, so that its own temporary file stays.
CommitProbeRaises(r) ==
  /\ pc[r] = "commit_probe"
  /\ faults < MaxFaults
  /\ faults' = faults + 1
  /\ Goto(r, "refused")
  /\ ephemeral' = ephemeral \ {<< "quarantine", r >>, << "tmp", r >>}
  /\ UNCHANGED << req, store >>

\* _persist_new: insert_artifact twice; a row for the same file is kept.
InsertOriginal(r) ==
  /\ pc[r] = "insert_original"
  /\ Goto(r, "insert_probe")
  /\ artifacts' = [artifacts EXCEPT !.original = @ \cup {req[r].content}]
  /\ UNCHANGED << req, ephemeral, canonical, videos, faults >>

InsertProbe(r) ==
  /\ pc[r] = "insert_probe"
  /\ Goto(r, "insert_video")
  /\ artifacts' = [artifacts EXCEPT !.probe = @ \cup {r}]
  /\ UNCHANGED << req, ephemeral, canonical, videos, faults >>

\* Deviation: the loser answers with the record it tried to insert.
InsertVideoOwn(r) ==
  /\ pc[r] = "insert_video"
  /\ videos' = [videos EXCEPT ![req[r].content] = IF @ = None THEN r ELSE @]
  /\ Answer(r, r)
  /\ UNCHANGED << canonical, artifacts, faults >>

\* insert_video: the unique digest keeps the first row; the loser reads it.
InsertVideo(r) ==
  /\ pc[r] = "insert_video"
  /\ LET c == req[r].content IN
       IF videos[c] = None
       THEN videos' = [videos EXCEPT ![c] = r] /\ Answer(r, r)
       ELSE UNCHANGED videos /\ Answer(r, videos[c])
  /\ UNCHANGED << canonical, artifacts, faults >>

-----------------------------------------------------------------------------
\* A file or database call raises an AdapterError, or the client disconnects.
UploadFails(r) ==
  /\ pc[r] \in UploadPc
  /\ faults < MaxFaults
  /\ faults' = faults + 1
  /\ Refuse(r)

\* The process dies with the request: nothing is cleaned up.
UploadDies(r) ==
  /\ pc[r] \in UploadPc
  /\ faults < MaxFaults
  /\ faults' = faults + 1
  /\ Goto(r, "dead")
  /\ UNCHANGED << req, ephemeral, store >>

\* purge_ephemeral: the clean-up command unlinks a file that is old enough, be
\* its upload running or not.
Purge(f) ==
  /\ f \in ephemeral
  /\ ephemeral' = ephemeral \ {f}
  /\ UNCHANGED << pc, req, store, faults >>

UploadStep(r) ==
  \/ \E c \in Content : ReceiveUpload(r, c)
  \/ Stage(r) \/ Dedupe(r) \/ Probe(r) \/ Promote(r) \/ PutProbe(r)
  \/ CommitProbe(r) \/ CommitProbeRaises(r) \/ InsertOriginal(r) \/ InsertProbe(r) \/ InsertVideo(r)
  \/ UploadFails(r) \/ UploadDies(r)

IngestNext == (\E r \in Request : UploadStep(r)) \/ (\E f \in ephemeral : Purge(f))

-----------------------------------------------------------------------------
\* Files precede rows: every artifacts row names a stored file, every videos row
\* names two of them that have artifacts rows, and no medium that the probe
\* refuses is stored (ingest.py:115-137, 169-225), whatever dies, fails or is
\* purged on the way.
RowsHaveFiles ==
  /\ artifacts.original \subseteq canonical.original
  /\ artifacts.probe \subseteq canonical.probe
  /\ canonical.original \subseteq Valid
  /\ \A c \in Content : videos[c] # None =>
       c \in artifacts.original /\ videos[c] \in artifacts.probe

\* Uploads of the same bytes are answered with the same video, the one in the
\* table, also when they race (ingest.py:223, postgres.py:131-135).
AnswersAgree ==
  \A r \in Request : pc[r] = "answered" => req[r].video = videos[req[r].content]

\* A request that has ended leaves no temporary file, unless its process died.  The
\* one exception is a probe output whose commit raised an OSError: the request is
\* refused, the file is left to the clean-up command, and the original, already
\* committed, is left without a row of this request (ingest.py:134-136, 172-175,
\* routes.py:125-127, filesystem.py:207-219).
NothingLeftBehind ==
  \A f \in ephemeral :
    \/ pc[f[2]] \in UploadPc \cup {"dead"}
    \/ /\ f[1] = "tmp_probe" /\ pc[f[2]] = "refused"
       /\ req[f[2]].content \in canonical.original

=============================================================================
