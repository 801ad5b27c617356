-------------------------- MODULE Processor_proofs --------------------------
(***************************************************************************)
(* The pipeline, for any jobs and notes: what a job's record, Process's    *)
(* copy of it and the destination's rows are at each stage, and from it    *)
(* the safety properties of Processor.                                     *)
(***************************************************************************)
EXTENDS Processor, Lists_proofs

Started     == Start(NewJob)
Failures    == {Fail(Started, r) : r \in Reason \ {"", "enqueue"}}
Completions == {Complete(Started, n) : n \in Notes}
Stored      == {Clone(rec) : rec \in Completions}

Undelivered(j) == rows[j] = <<>>
Delivered(j)   == note[j] \in Notes /\ rows[j] = <<Row(note[j])>>

\* Before Process: the handler has its record to itself.
AtLoad(j) ==
  /\ store[j] \in {Absent, NewJob, Fail(NewJob, "enqueue")}
  /\ j \in running => store[j] = NewJob
  /\ Undelivered(j)

\* Until the delivery ends, the stored record is the started one.
Working(j) ==
  /\ job[j] = Started
  /\ store[j] = IF stage[j] = "mark" THEN NewJob ELSE Started
  /\ stage[j] = "deliver" => note[j] \in Notes
  /\ Undelivered(j)

\* What is being completed is the note that was delivered.
Completing(j) ==
  /\ job[j] = Complete(Started, note[j])
  /\ store[j] = Started
  /\ Delivered(j)

\* The stored record is a copy of it.
Completed(j) ==
  /\ store[j] = Clone(Complete(Started, note[j]))
  /\ Delivered(j)

\* A failure other than the delivery's has left no row.
Failing(j, rec) ==
  /\ rec \in Failures
  /\ rec.err # "delivery" => Undelivered(j)
  /\ Delivered(j) \/ Undelivered(j)

\* An error return: the record is failed, or was left behind by a done context.
Broken(j) ==
  \/ Failing(j, store[j])
  \/ /\ j \in ctxDone
     /\ store[j] \in {NewJob, Started}
     /\ Delivered(j) \/ Undelivered(j)

\* The pipeline of one job.
Pipeline(j) ==
  /\ stage[j] = "load" => AtLoad(j)
  /\ stage[j] \in {"mark", "transcribe", "analyze", "deliver"} => Working(j)
  /\ stage[j] = "complete" => Completing(j)
  /\ stage[j] = "fail" => Failing(j, job[j]) /\ store[j] = Started
  /\ stage[j] = "ok" => Completed(j)
  /\ stage[j] = "error" => Broken(j)

PipelineInv == TypeOK /\ \A j \in Job : Pipeline(j)

-----------------------------------------------------------------------------
\* The reasons of a failure.
LEMMA Reasons ==
  /\ "enqueue" \in Reason \ {""}
  /\ StageError \subseteq Reason \ {"", "enqueue"}
  /\ "transcription" \in StageError /\ "analysis" \in StageError /\ "delivery" \in StageError
BY DEF Reason, StageError

\* The records of a job, and what tells them apart.
LEMMA Records ==
  /\ NewJob \in JobType /\ NewJob.status = "queued" /\ NewJob.err = ""
  /\ NewJob.result = Absent
  /\ Started \in JobType /\ Started.status = "processing" /\ Started.err = ""
  /\ Started.result = Absent
  /\ \A r \in Reason : /\ Fail(NewJob, r) = Fail(Started, r)
                        /\ Fail(NewJob, r) \in JobType
                        /\ Fail(NewJob, r).status = "failed"
                        /\ Fail(NewJob, r).err = r
                        /\ Fail(NewJob, r).result = Absent
  /\ \A n \in Notes :
       LET rec == Complete(Started, n) IN
       /\ rec \in JobType /\ rec.status = "completed" /\ rec.err = ""
       /\ rec.result = n
BY DEF NewJob, Started, Start, Fail, Complete, JobType, Status, Reason, StageError, NoteType

\* What a record the pipeline failed looks like.
LEMMA Failed ==
  /\ \A r \in Reason \ {"", "enqueue"} : Fail(Started, r) \in Failures
  /\ \A rec \in Failures :
       /\ rec \in JobType /\ rec.status = "failed" /\ rec.result = Absent
       /\ rec.err \in Reason \ {"", "enqueue"}
<1>1. ASSUME NEW r \in Reason \ {"", "enqueue"}
      PROVE  LET rec == Fail(Started, r) IN
             /\ rec \in JobType /\ rec.status = "failed" /\ rec.result = Absent
             /\ rec.err = r
  <2>1. r \in Reason /\ Fail(NewJob, r) = Fail(Started, r)
    BY Records
  <2>2. QED
    BY <2>1, Records, ZenonT(40)
<1>2. ASSUME NEW rec \in Failures
      PROVE  /\ rec \in JobType /\ rec.status = "failed" /\ rec.result = Absent
             /\ rec.err \in Reason \ {"", "enqueue"}
  <2>1. PICK r \in Reason \ {"", "enqueue"} : rec = Fail(Started, r)
    BY DEF Failures
  <2>2. QED
    BY <1>1, <2>1
<1>3. \A r \in Reason \ {"", "enqueue"} : Fail(Started, r) \in Failures
  BY DEF Failures
<1>4. QED
  BY <1>2, <1>3

\* A copy differs from its original in the note alone.
LEMMA ClonesOf ==
  /\ \A rec : rec.result = Absent => Clone(rec) = rec
  /\ \A rec \in Completions :
       LET copy == Clone(rec) IN
       /\ copy \in JobType /\ copy.status = "completed" /\ copy.err = ""
       /\ copy.result \in NoteType
<1>1. \A rec : rec.result = Absent => Clone(rec) = rec
  BY DEF Clone
<1>2. ASSUME NEW n \in Notes
      PROVE  LET copy == Clone(Complete(Started, n)) IN
             /\ copy \in JobType /\ copy.status = "completed" /\ copy.err = ""
             /\ copy.result \in NoteType
  <2>1. n # Absent /\ CloneNote(n) \in NoteType /\ n \in NoteType
    BY AbsentAssumption DEF NoteType
  <2>2. /\ Complete(Started, n) \in [status : Status, err : Reason, result : NoteType \cup {Absent}]
        /\ Complete(Started, n).result = n
    BY Records DEF JobType
  <2>3. Clone(Complete(Started, n)) = [Complete(Started, n) EXCEPT !.result = CloneNote(n)]
    BY <2>1, <2>2 DEF Clone
  <2>4. QED
    BY <2>1, <2>2, <2>3, Records, ZenonT(40) DEF JobType
<1>3. QED
  BY <1>1, <1>2 DEF Completions

\* What is being completed has one row.
LEMMA CompletingAre ==
  ASSUME NEW j, Completing(j)
  PROVE  job[j] \in Completions /\ Len(rows[j]) = 1
<1>1. Len(<<Row(note[j])>>) = 1
  OBVIOUS
<1>2. QED
  BY <1>1 DEF Completing, Delivered, Completions

\* So has what is completed, and its record is a stored copy.
LEMMA CompletedAre ==
  ASSUME NEW j, Completed(j)
  PROVE  store[j] \in Stored /\ Delivered(j) /\ Len(rows[j]) = 1
<1>1. Len(<<Row(note[j])>>) = 1
  OBVIOUS
<1>2. QED
  BY <1>1 DEF Completed, Delivered, Stored, Completions

-----------------------------------------------------------------------------
\* What another job's step leaves of job k.
Untouched(k) ==
  /\ store'[k] = store[k] /\ stage'[k] = stage[k] /\ job'[k] = job[k]
  /\ note'[k] = note[k] /\ rows'[k] = rows[k]
  /\ (k \in running') = (k \in running)
  /\ k \in ctxDone => k \in ctxDone'

\* A context that ends disturbs no job's pipeline.
LEMMA Elsewhere ==
  ASSUME NEW k, Pipeline(k), Untouched(k)
  PROVE  Pipeline(k)'
BY DEF Pipeline, Untouched, AtLoad, Working, Completing, Completed, Failing, Broken,
       Delivered, Undelivered

\* The first state.
LEMMA PipelineInit == Init => PipelineInv
<1> SUFFICES ASSUME Init PROVE PipelineInv
  OBVIOUS
<1>1. TypeOK
  <2>1. <<>> \in Seq({Row(n) : n \in Notes})
    OBVIOUS
  <2>2. QED
    BY <2>1 DEF Init, TypeOK, Stage
<1>2. ASSUME NEW j \in Job PROVE Pipeline(j)
  BY DEF Init, Pipeline, AtLoad, Undelivered
<1>3. QED
  BY <1>1, <1>2 DEF PipelineInv

\* A row is what Append makes of a note.
LEMMA Rows ==
  ASSUME NEW r, NEW s \in Seq({Row(n) : n \in Notes}), r \in {Row(n) : n \in Notes}
  PROVE  /\ Append(s, r) \in Seq({Row(n) : n \in Notes})
         /\ s = <<>> => Append(s, r) = <<r>>
<1>1. Append(s, r) \in Seq({Row(n) : n \in Notes})
  OBVIOUS
<1>2. Append(<<>>, r) = <<r>>
  OBVIOUS
<1>3. QED
  BY <1>1, <1>2

\* Of a text, trimming leaves nothing or words.
LEMMA TrimmedTexts ==
  ASSUME NEW t \in Text
  PROVE  Trim(t) \in {"", "words"}
BY DEF Text, Trim

\* What the answer leads to: a note whose lists are lists, without a blank
\* entry, and with a transcript.
LEMMA NotesAre ==
  ASSUME NEW n \in Notes
  PROVE  /\ n = [title |-> n.title, keys |-> n.keys, items |-> n.items,
                 transcript |-> n.transcript]
         /\ n.transcript = "words"
         /\ n.keys \in Seq(Text) /\ n.items \in Seq(Item)
         /\ \A i \in DOMAIN n.keys : n.keys[i] = "words"
         /\ \A i \in DOMAIN n.items : n.items[i].task = "words"
<1>1. PICK p \in Payloads : n = Analysis(p, "words")
  BY DEF Notes
<1>2. p \in [title : Text, keys : Seq(Text), items : Seq(Item)]
  BY NoteAssumption
<1> DEFINE cut  == [i \in DOMAIN p.items |->
                      [task |-> Trim(p.items[i].task), owner |-> Trim(p.items[i].owner)]]
           kept == {item \in Item : item.task # ""}
           text == {"", "words"}
           each == [task : text, owner : text]
<1>3. /\ n = [title |-> Trim(p.title), keys |-> Only(Trimmed(p.keys), Text \ {""}),
              items |-> Only(cut, kept), transcript |-> "words"]
  BY <1>1 DEF Analysis, ToDomain
<1>4. n.keys \in Seq(text \cap (Text \ {""}))
  <2>1. \A i \in 1..Len(p.keys) : p.keys[i] \in Text
    BY <1>2
  <2>2. Trimmed(p.keys) = [i \in 1..Len(p.keys) |-> Trim(p.keys[i])] /\ Len(p.keys) \in Nat
    BY <1>2 DEF Trimmed
  <2>3. Trimmed(p.keys) \in Seq(text)
    <3>1. Trimmed(p.keys) \in [1..Len(p.keys) -> text]
      BY <2>1, <2>2, TrimmedTexts
    <3>2. QED
      BY <2>2, <3>1, ListFrom
  <2>4. QED
    BY <1>3, <2>3, OnlyKeeps
<1>5. n.items \in Seq(each \cap kept)
  <2>1. \A i \in 1..Len(p.items) : p.items[i].task \in Text /\ p.items[i].owner \in Text
    <3>1. p.items \in Seq(Item)
      BY <1>2
    <3>2. DOMAIN p.items = 1..Len(p.items)
      BY <3>1
    <3>3. \A i \in DOMAIN p.items : p.items[i] \in Item
      BY <3>1, ListHas
    <3>4. QED
      BY <3>2, <3>3 DEF Item
  <2>2. cut = [i \in 1..Len(p.items) |->
                 [task |-> Trim(p.items[i].task), owner |-> Trim(p.items[i].owner)]]
        /\ Len(p.items) \in Nat
    BY <1>2
  <2>3. \A i \in 1..Len(p.items) :
          [task |-> Trim(p.items[i].task), owner |-> Trim(p.items[i].owner)] \in each
    BY <2>1, TrimmedTexts
  <2>4. cut \in Seq(each)
    <3>1. cut \in [1..Len(p.items) -> each]
      BY <2>2, <2>3
    <3>2. QED
      BY <2>2, <3>1, ListFrom
  <2> HIDE DEF cut
  <2>5. QED
    BY <1>3, <2>4, OnlyKeeps
<1>6. text \cap (Text \ {""}) = {"words"}
  BY DEF Text
<1>7. \A item \in each \cap kept : item \in Item /\ item.task = "words"
  OBVIOUS
<1> HIDE DEF text, each, kept
<1>8. \A i \in DOMAIN n.keys : n.keys[i] = "words"
  BY <1>4, <1>6, ListHas
<1>9. \A i \in DOMAIN n.items : n.items[i] \in Item /\ n.items[i].task = "words"
  BY <1>5, <1>7, ListHas
<1>10. n.keys \in Seq(Text) /\ n.items \in Seq(Item)
  <2>1. {"words"} \subseteq Text /\ each \cap kept \subseteq Item
    BY <1>7 DEF Text
  <2>2. n.keys \in Seq({"words"})
    BY <1>4, <1>6
  <2>3. QED
    BY <1>5, <2>1, <2>2, ListOfMore
<1>11. QED
  BY <1>3, <1>8, <1>9, <1>10

\* Rendering undoes what the store's copy does to an empty list.
LEMMA RenderedNote ==
  ASSUME NEW n \in Notes
  PROVE  StatusResponse(Clone(Complete(Started, n))).result = n
<1>1. /\ n = [title |-> n.title, keys |-> n.keys, items |-> n.items,
              transcript |-> n.transcript]
      /\ n.keys # Absent /\ n.items # Absent
  BY NotesAre, NoteAssumption
<1>2. DTO(CloneNote(n)) = n
  BY <1>1 DEF DTO, CloneNote, NilIfEmpty
<1>3. n # Absent /\ CloneNote(n) # Absent
  BY AbsentAssumption DEF NoteType
<1>4. /\ Complete(Started, n) \in [status : Status, err : Reason, result : NoteType \cup {Absent}]
      /\ Complete(Started, n).result = n
  BY Records DEF JobType
<1>5. Clone(Complete(Started, n)) = [Complete(Started, n) EXCEPT !.result = CloneNote(n)]
  BY <1>3, <1>4 DEF Clone
<1>6. Clone(Complete(Started, n)).result = CloneNote(n)
  BY <1>4, <1>5
<1>7. QED
  BY <1>2, <1>3, <1>6 DEF StatusResponse

\* What an analysis is of.
LEMMA AnalysisIsNote ==
  ASSUME NEW p \in Payloads, NEW heard \in Text, Transcript(heard) # ""
  PROVE  Analysis(p, Transcript(heard)) \in Notes
<1>1. Transcript(heard) = "words"
  BY DEF Text, Transcript, Trim
<1>2. QED
  BY <1>1 DEF Notes

-----------------------------------------------------------------------------
\* Types and the pipeline are kept by Process: each lemma says what one call
\* makes of its own job, and that it leaves the others alone.
Advances(j) ==
  /\ TypeOK'
  /\ Pipeline(j)'
  /\ \A k \in Job \ {j} : Untouched(k)

\* A record that is stored takes its place in the table.
LEMMA Storing ==
  ASSUME NEW j \in Job, NEW rec, Clone(rec) \in JobType, TypeOK,
         store' = Put(store, j, rec)
  PROVE  /\ store' \in [Job -> JobType \cup {Absent}]
         /\ store'[j] = Clone(rec)
         /\ \A k \in Job \ {j} : store'[k] = store[k]
BY DEF Put, TypeOK

\* The load and the mark.
LEMMA LoadSteps ==
  ASSUME PipelineInv, NEW j \in Job,
         Load(j) \/ LoadFails(j) \/ Mark(j) \/ MarkFails(j)
  PROVE  Advances(j)
<1> USE DEF PipelineInv
<1> stage[j] \in Stage /\ j \in running /\ Pipeline(j) /\ NewJob # Absent /\ Started # Absent
  BY Records, AbsentAssumption DEF Load, LoadFails, Mark, MarkFails, Goes, TypeOK
<1>1. CASE Load(j)
  <2>1. store[j] = NewJob /\ rows[j] = <<>>
    BY <1>1 DEF Load, Goes, Pipeline, AtLoad, Undelivered
  <2>2. job' = [job EXCEPT ![j] = Started]
    BY <1>1, <2>1 DEF Load, Copies, Started
  <2>3. TypeOK'
    BY <1>1, <2>2, Records DEF Load, Goes, TypeOK, Stage
  <2>4. Pipeline(j)'
    BY <1>1, <2>1, <2>2 DEF Load, Goes, TypeOK, Pipeline, Working, Undelivered
  <2>5. QED
    BY <1>1, <2>2, <2>3, <2>4 DEF Load, Goes, TypeOK, Advances, Untouched
<1>2. CASE LoadFails(j)
  <2>1. store[j] = NewJob /\ rows[j] = <<>> /\ j \in ctxDone
    BY <1>2 DEF LoadFails, Goes, GetOK, Pipeline, AtLoad, Undelivered
  <2>2. TypeOK'
    BY <1>2 DEF LoadFails, Goes, TypeOK, Stage
  <2>3. Pipeline(j)'
    BY <1>2, <2>1 DEF LoadFails, Goes, TypeOK, Pipeline, Broken, Undelivered
  <2>4. QED
    BY <1>2, <2>2, <2>3 DEF LoadFails, Goes, TypeOK, Advances, Untouched
<1>3. CASE Mark(j)
  <2>1. job[j] = Started /\ rows[j] = <<>>
    BY <1>3 DEF Mark, Goes, Pipeline, Working, Undelivered
  <2>2. Clone(job[j]) = Started /\ Started \in JobType
    BY <2>1, Records, ClonesOf
  <2>3. /\ store' \in [Job -> JobType \cup {Absent}] /\ store'[j] = Started
        /\ \A k \in Job \ {j} : store'[k] = store[k]
    BY <1>3, <2>2, Storing DEF Mark
  <2>4. TypeOK'
    BY <1>3, <2>1, <2>3 DEF Mark, Goes, TypeOK, Stage
  <2>5. Pipeline(j)'
    BY <1>3, <2>1, <2>3 DEF Mark, Goes, TypeOK, Pipeline, Working, Undelivered
  <2>6. QED
    BY <1>3, <2>3, <2>4, <2>5 DEF Mark, Goes, TypeOK, Advances, Untouched
<1>4. CASE MarkFails(j)
  <2>1. store[j] = NewJob /\ rows[j] = <<>> /\ j \in ctxDone
    BY <1>4 DEF MarkFails, Goes, UpdateOK, Pipeline, Working, Undelivered
  <2>2. TypeOK'
    BY <1>4 DEF MarkFails, Goes, TypeOK, Stage
  <2>3. Pipeline(j)'
    BY <1>4, <2>1 DEF MarkFails, Goes, TypeOK, Pipeline, Broken, Undelivered
  <2>4. QED
    BY <1>4, <2>2, <2>3 DEF MarkFails, Goes, TypeOK, Advances, Untouched
<1>5. QED
  BY <1>1, <1>2, <1>3, <1>4

\* The two calls of the provider.
LEMMA ProviderSteps ==
  ASSUME PipelineInv, NEW j \in Job,
         \/ Transcribe(j) \/ TranscribeFails(j)
         \/ Analyze(j) \/ AnalyzeFails(j)
  PROVE  Advances(j)
<1> USE DEF PipelineInv
<1>0. /\ job[j] = Started /\ store[j] = Started /\ rows[j] = <<>>
      /\ j \in running /\ Pipeline(j)
  BY DEF Transcribe, TranscribeFails, Analyze, AnalyzeFails, Succeeds, Fails,
         Goes, Pipeline, Working, Undelivered
<1>1. CASE Transcribe(j)
  <2>1. TypeOK'
    BY <1>0, <1>1 DEF Transcribe, Succeeds, Goes, TypeOK, Stage
  <2>2. Pipeline(j)'
    BY <1>0, <1>1 DEF Transcribe, Succeeds, Goes, TypeOK, Pipeline, Working, Undelivered
  <2>3. QED
    BY <1>1, <2>1, <2>2 DEF Transcribe, Succeeds, Goes, TypeOK, Advances, Untouched
<1>2. CASE Analyze(j)
  <2>1. PICK n \in Notes : note' = [note EXCEPT ![j] = n]
    BY <1>2, AnalysisIsNote DEF Analyze
  <2>2. TypeOK'
    BY <1>0, <1>2, <2>1 DEF Analyze, Succeeds, Goes, TypeOK, Stage
  <2>3. Pipeline(j)'
    BY <1>0, <1>2, <2>1 DEF Analyze, Succeeds, Goes, TypeOK, Pipeline, Working, Undelivered
  <2>4. QED
    BY <1>2, <2>1, <2>2, <2>3 DEF Analyze, Succeeds, Goes, TypeOK, Advances, Untouched
<1>3. ASSUME NEW at, NEW r \in {"transcription", "analysis"}, Fails(j, at, r),
             UNCHANGED <<store, note, rows, running, ctxDone>>
      PROVE  Advances(j)
  <2>1. /\ r \in Reason \ {"", "enqueue"} /\ Fail(Started, r) \in Failures
        /\ Fail(Started, r) \in JobType /\ Fail(Started, r) # Absent
    BY Failed, AbsentAssumption DEF Reason, StageError
  <2>2. job' = [job EXCEPT ![j] = Fail(Started, r)]
    BY <1>0, <1>3 DEF Fails, Copies
  <2>3. TypeOK'
    BY <1>0, <1>3, <2>1, <2>2 DEF Fails, Goes, TypeOK, Stage
  <2>4. Pipeline(j)'
    BY <1>0, <1>3, <2>1, <2>2 DEF Fails, Goes, TypeOK, Pipeline, Failing, Undelivered
  <2>5. QED
    BY <1>3, <2>2, <2>3, <2>4 DEF Fails, Goes, TypeOK, Advances, Untouched
<1>4. QED
  BY <1>1, <1>2, <1>3 DEF TranscribeFails, AnalyzeFails

\* The delivery, with and without an error, each perhaps with its row.
LEMMA DeliverySteps ==
  ASSUME PipelineInv, NEW j \in Job, Deliver(j) \/ DeliverFails(j)
  PROVE  Advances(j)
<1> USE DEF PipelineInv
<1>0. /\ job[j] = Started /\ store[j] = Started /\ rows[j] = <<>>
      /\ j \in running /\ Pipeline(j) /\ note[j] \in Notes
  BY DEF Deliver, DeliverFails, Fails, Goes, Pipeline, Working, Undelivered
<1>1. ASSUME rows' = [rows EXCEPT ![j] = Append(@, Row(note[j]))]
      PROVE  /\ rows' \in [Job -> Seq({Row(n) : n \in Notes})]
             /\ rows'[j] = <<Row(note[j])>>
             /\ \A k \in Job \ {j} : rows'[k] = rows[k]
  <2>1. /\ rows \in [Job -> Seq({Row(n) : n \in Notes})]
        /\ Row(note[j]) \in {Row(n) : n \in Notes}
    BY <1>0 DEF TypeOK
  <2>2. /\ Append(rows[j], Row(note[j])) \in Seq({Row(n) : n \in Notes})
        /\ Append(rows[j], Row(note[j])) = <<Row(note[j])>>
    BY <1>0, <2>1, Rows
  <2>3. QED
    BY <1>1, <2>1, <2>2
<1>2. CASE Deliver(j)
  <2>1. /\ job' = [job EXCEPT ![j] = Complete(Started, note[j])]
        /\ Complete(Started, note[j]) \in Completions
        /\ Complete(Started, note[j]) \in JobType
        /\ Complete(Started, note[j]) # Absent
    BY <1>0, <1>2, Records, AbsentAssumption DEF Deliver, Copies, Completions
  <2>2. TypeOK'
    BY <1>0, <1>1, <1>2, <2>1 DEF Deliver, Goes, TypeOK, Stage
  <2>3. Pipeline(j)'
    BY <1>0, <1>1, <1>2, <2>1 DEF Deliver, Goes, TypeOK, Pipeline, Completing, Delivered
  <2>4. QED
    BY <1>1, <1>2, <2>1, <2>2, <2>3 DEF Deliver, Goes, TypeOK, Advances, Untouched
<1>3. CASE DeliverFails(j)
  <2> DEFINE failed == Fail(Started, "delivery")
  <2>1. /\ job' = [job EXCEPT ![j] = failed] /\ failed \in Failures
        /\ failed \in JobType /\ failed # Absent /\ failed.err = "delivery"
    <3>1. "delivery" \in Reason \ {"", "enqueue"}
      BY Reasons
    <3>2. failed \in Failures
      BY <3>1, Failed
    <3>3. failed \in JobType /\ failed # Absent
      BY <3>2, Failed, AbsentAssumption
    <3>4. failed.err = "delivery"
      BY DEF Fail, Started, Start, NewJob
    <3>5. job' = [job EXCEPT ![j] = failed]
      BY <1>0, <1>3 DEF DeliverFails, Fails, Copies
    <3>6. QED
      BY <3>2, <3>3, <3>4, <3>5
  <2>2. /\ rows' \in [Job -> Seq({Row(n) : n \in Notes})]
        /\ rows'[j] = <<Row(note[j])>> \/ rows'[j] = <<>>
        /\ \A k \in Job \ {j} : rows'[k] = rows[k]
    BY <1>0, <1>1, <1>3 DEF DeliverFails, TypeOK
  <2> HIDE DEF failed
  <2>3. TypeOK'
    BY <1>0, <1>3, <2>1, <2>2 DEF DeliverFails, Fails, Goes, TypeOK, Stage
  <2>4. Pipeline(j)'
    BY <1>0, <1>3, <2>1, <2>2
    DEF DeliverFails, Fails, Goes, TypeOK, Pipeline, Failing, Delivered, Undelivered
  <2>5. QED
    BY <1>3, <2>1, <2>2, <2>3, <2>4
    DEF DeliverFails, Fails, Goes, TypeOK, Advances, Untouched
<1>4. QED
  BY <1>2, <1>3

\* The last update, or its failure under a done context.
LEMMA PersistSteps ==
  ASSUME PipelineInv, NEW j \in Job,
         CompletePersists(j) \/ FailPersists(j) \/ PersistFails(j)
  PROVE  Advances(j)
<1> USE DEF PipelineInv
<1>0. Pipeline(j) /\ j \in running /\ store[j] = Started
  BY DEF CompletePersists, FailPersists, PersistFails, Persist, Goes,
         Pipeline, Completing
<1>1. CASE CompletePersists(j)
  <2>1. job[j] = Complete(Started, note[j]) /\ Delivered(j)
    BY <1>0, <1>1 DEF CompletePersists, Persist, Goes, Pipeline, Completing
  <2>2. Clone(job[j]) \in JobType
    BY <2>1, ClonesOf DEF Completions, Delivered
  <2>3. /\ store' \in [Job -> JobType \cup {Absent}] /\ store'[j] = Clone(job[j])
        /\ \A k \in Job \ {j} : store'[k] = store[k]
    BY <1>1, <2>2, Storing DEF CompletePersists, Persist
  <2>4. TypeOK'
    BY <1>1, <2>3 DEF CompletePersists, Persist, Goes, TypeOK, Stage
  <2>5. Pipeline(j)'
    BY <1>0, <1>1, <2>1, <2>3
    DEF CompletePersists, Persist, Goes, TypeOK, Pipeline, Completed, Delivered
  <2>6. QED
    BY <1>1, <2>3, <2>4, <2>5 DEF CompletePersists, Persist, Goes, TypeOK, Advances, Untouched
<1>2. CASE FailPersists(j)
  <2>1. Failing(j, job[j])
    BY <1>0, <1>2 DEF FailPersists, Persist, Goes, Pipeline
  <2>2. Clone(job[j]) = job[j] /\ job[j] \in JobType
    BY <2>1, Failed, ClonesOf DEF Failing
  <2>3. /\ store' \in [Job -> JobType \cup {Absent}] /\ store'[j] = job[j]
        /\ \A k \in Job \ {j} : store'[k] = store[k]
    BY <1>2, <2>2, Storing DEF FailPersists, Persist
  <2>4. TypeOK'
    BY <1>2, <2>3 DEF FailPersists, Persist, Goes, TypeOK, Stage
  <2>5. Pipeline(j)'
    BY <1>0, <1>2, <2>1, <2>3
    DEF FailPersists, Persist, Goes, TypeOK, Pipeline, Broken, Failing, Delivered, Undelivered
  <2>6. QED
    BY <1>2, <2>3, <2>4, <2>5 DEF FailPersists, Persist, Goes, TypeOK, Advances, Untouched
<1>3. CASE PersistFails(j)
  <2>1. j \in ctxDone /\ (Delivered(j) \/ Undelivered(j))
    <3>1. Started # Absent
      BY Records, AbsentAssumption
    <3>2. QED
      BY <1>0, <1>3, <3>1 DEF PersistFails, UpdateOK, Goes, Pipeline, Completing, Failing
  <2>2. TypeOK'
    BY <1>3 DEF PersistFails, Goes, TypeOK, Stage
  <2>3. Pipeline(j)'
    BY <1>0, <1>3, <2>1 DEF PersistFails, Goes, TypeOK, Pipeline, Broken, Delivered, Undelivered
  <2>4. QED
    BY <1>3, <2>2, <2>3 DEF PersistFails, Goes, TypeOK, Advances, Untouched
<1>4. QED
  BY <1>1, <1>2, <1>3

\* The handler and the worker around Process.
LEMMA EnvironmentSteps ==
  ASSUME PipelineInv, NEW j \in Job, Environment(j)
  PROVE  Advances(j)
<1> USE DEF PipelineInv
<1>0. Pipeline(j) /\ stage[j] \in Stage /\ NewJob # Absent
  BY Records, AbsentAssumption DEF TypeOK
<1>1. CASE Enqueue(j)
  <2>1. stage[j] = "load" /\ rows[j] = <<>> /\ j \notin running
    <3>1. \A r \in Failures \cup Stored \cup {NewJob, Started} : r # Absent
      <4>1. \A r \in Stored : r \in JobType
        BY ClonesOf DEF Stored
      <4>2. QED
        BY <4>1, Records, Failed, AbsentAssumption, ZenonT(40)
    <3>2. QED
      BY <1>0, <1>1, <3>1, CompletedAre DEF Enqueue, Pipeline, AtLoad, Working, Completing, Failing,
         Broken, Stage, Undelivered
  <2>2. Clone(NewJob) = NewJob /\ NewJob \in JobType
    BY Records, ClonesOf
  <2>3. /\ store' \in [Job -> JobType \cup {Absent}] /\ store'[j] = NewJob
        /\ \A k \in Job \ {j} : store'[k] = store[k]
    BY <1>1, <2>2, Storing DEF Enqueue
  <2>4. TypeOK'
    BY <1>1, <2>3 DEF Enqueue, TypeOK
  <2>5. Pipeline(j)'
    BY <1>1, <2>1, <2>3 DEF Enqueue, Pipeline, AtLoad, Undelivered
  <2>6. QED
    BY <1>1, <2>3, <2>4, <2>5 DEF Enqueue, Advances, Untouched
<1>2. CASE Withdraw(j)
  <2>1. rows[j] = <<>>
    BY <1>0, <1>2 DEF Withdraw, Pipeline, AtLoad, Undelivered
  <2>2. /\ Clone(Fail(NewJob, "enqueue")) = Fail(NewJob, "enqueue")
        /\ Fail(NewJob, "enqueue") \in JobType
    BY Records, ClonesOf, Reasons
  <2>3. /\ store' \in [Job -> JobType \cup {Absent}]
        /\ store'[j] = Fail(NewJob, "enqueue")
        /\ \A k \in Job \ {j} : store'[k] = store[k]
    <3>1. store' = Put(store, j, Fail(NewJob, "enqueue"))
      BY <1>2 DEF Withdraw
    <3>2. QED
      BY <2>2, <3>1, Storing
  <2>4. TypeOK'
    BY <1>2, <2>3 DEF Withdraw, TypeOK
  <2>5. Pipeline(j)'
    BY <1>2, <2>1, <2>3 DEF Withdraw, Pipeline, AtLoad, Undelivered
  <2>6. QED
    BY <1>2, <2>3, <2>4, <2>5 DEF Withdraw, Advances, Untouched
<1>3. CASE Run(j)
  <2>1. TypeOK'
    BY <1>3 DEF Run, TypeOK
  <2>2. Pipeline(j)'
    BY <1>0, <1>3 DEF Run, Pipeline, AtLoad, Undelivered
  <2>3. QED
    BY <1>3, <2>1, <2>2 DEF Run, Advances, Untouched
<1>4. CASE Return(j)
  <2>1. TypeOK'
    BY <1>4 DEF Return, TypeOK
  <2>2. Pipeline(j)'
    BY <1>0, <1>4 DEF Return, Pipeline, Completed, Broken, Failing, Delivered, Undelivered
  <2>3. QED
    BY <1>4, <2>1, <2>2 DEF Return, Advances, Untouched
<1>5. QED
  BY <1>1, <1>2, <1>3, <1>4 DEF Environment

-----------------------------------------------------------------------------
\* A step of one job keeps the pipelines of all.
LEMMA AdvancesAll ==
  ASSUME PipelineInv, NEW j \in Job, Advances(j)
  PROVE  PipelineInv'
<1>1. ASSUME NEW k \in Job PROVE Pipeline(k)'
  <2>1. CASE k = j
    BY <2>1 DEF Advances
  <2>2. CASE k # j
    <3>1. Pipeline(k) /\ Untouched(k)
      BY <2>2 DEF PipelineInv, Advances
    <3>2. QED
      BY <3>1, Elsewhere
  <2>3. QED
    BY <2>1, <2>2
<1>2. QED
  BY <1>1 DEF PipelineInv, Advances

\* Every step keeps the pipeline.
LEMMA PipelineStep == PipelineInv /\ [Next]_procVars => PipelineInv'
<1> SUFFICES ASSUME PipelineInv, [Next]_procVars PROVE PipelineInv'
  OBVIOUS
<1>1. ASSUME NEW j \in Job, Process(j) \/ Environment(j) PROVE PipelineInv'
  <2>1. Advances(j)
    BY <1>1, LoadSteps, ProviderSteps, DeliverySteps, PersistSteps, EnvironmentSteps
    DEF Process
  <2>2. QED
    BY <2>1, AdvancesAll
<1>2. CASE Expire
  <2>1. TypeOK'
    BY <1>2 DEF Expire, PipelineInv, TypeOK
  <2>2. ASSUME NEW k \in Job PROVE Pipeline(k)'
    <3>1. Pipeline(k) /\ Untouched(k)
      BY <1>2 DEF Expire, PipelineInv, Untouched
    <3>2. QED
      BY <3>1, Elsewhere
  <2>3. QED
    BY <2>1, <2>2 DEF PipelineInv
<1>3. CASE UNCHANGED procVars
  <2>1. TypeOK'
    BY <1>3 DEF procVars, PipelineInv, TypeOK
  <2>2. ASSUME NEW k \in Job PROVE Pipeline(k)'
    <3>1. Pipeline(k) /\ Untouched(k)
      BY <1>3 DEF procVars, PipelineInv, Untouched
    <3>2. QED
      BY <3>1, Elsewhere
  <2>3. QED
    BY <2>1, <2>2 DEF PipelineInv
<1>4. QED
  BY <1>1, <1>2, <1>3 DEF Next, Terminated

\* The pipeline invariant holds in every state of Processor.
LEMMA PipelineHolds == Spec => []PipelineInv
BY PipelineInit, PipelineStep, PTL DEF Spec

\* What the pipeline says of a job's stored record, for any stage.
LEMMA StoredRecord ==
  ASSUME PipelineInv, NEW j \in Job
  PROVE  \/ store[j] = Absent
         \/ store[j] \in {NewJob, Started, Fail(NewJob, "enqueue")}
         \/ store[j] \in Failures /\ Failing(j, store[j])
         \/ Completed(j)
<1>1. Pipeline(j) /\ stage[j] \in Stage
  BY DEF PipelineInv, TypeOK
<1>2. QED
  BY <1>1 DEF Stage, Pipeline, AtLoad, Working, Completing, Failing, Broken

\* A completed record is one the pipeline completed.
LEMMA CompletedIsStored ==
  ASSUME PipelineInv, NEW j \in Job, store[j] # Absent, store[j].status = "completed"
  PROVE  Completed(j)
BY StoredRecord, Records, Failed DEF Reason, StageError

-----------------------------------------------------------------------------
\* The control state and the copies of Process are well typed, and past its
\* load Process holds a record.
THEOREM PipelineTyped == Spec => []TypeOK
<1>1. PipelineInv => TypeOK
  BY DEF PipelineInv
<1>2. QED
  BY <1>1, PipelineHolds, PTL

\* Whatever fails in Process, the store only ever has records that mix no
\* result with a failure.
THEOREM RecordsWellFormed == Spec => []StoreWellFormed
<1>1. ASSUME PipelineInv PROVE StoreWellFormed
  <2> SUFFICES ASSUME NEW j \in Job, store[j] # Absent PROVE WellFormed(store[j])
    BY DEF StoreWellFormed
  <2>1. CASE store[j] \in {NewJob, Started, Fail(NewJob, "enqueue")}
    <3>1. "enqueue" \in Reason /\ "enqueue" # ""
      BY Reasons
    <3>2. QED
      BY <2>1, <3>1, Records, ZenonT(40) DEF WellFormed
  <2>2. CASE store[j] \in Failures
    BY <2>2, Failed DEF WellFormed
  <2>3. CASE store[j] \in Stored
    <3>1. /\ store[j].status = "completed" /\ store[j].err = ""
          /\ store[j].result \in NoteType
      BY <2>3, ClonesOf DEF Stored
    <3>2. QED
      BY <3>1, AbsentAssumption DEF WellFormed
  <2>4. QED
    BY <1>1, <2>1, <2>2, <2>3, StoredRecord, CompletedAre
<1>2. QED
  BY <1>1, PipelineHolds, PTL

\* The destination is given at most one row for a job, and exactly one for a
\* job that reads completed.
THEOREM NoteDeliveredOnce == Spec => []DeliveredOnce
<1>1. ASSUME PipelineInv PROVE DeliveredOnce
  <2> SUFFICES ASSUME NEW j \in Job
               PROVE  /\ Len(rows[j]) <= 1
                      /\ Rank(store[j]) = 3 /\ store[j].status = "completed"
                           => Len(rows[j]) = 1
    BY DEF DeliveredOnce
  <2>1. Delivered(j) \/ Undelivered(j)
    BY <1>1 DEF PipelineInv, TypeOK, Stage, Pipeline, AtLoad, Working, Completing,
       Completed, Failing, Broken
  <2>2. Len(rows[j]) <= 1
    <3>1. CASE rows[j] = <<>>
      <4>1. Len(<<>>) = 0
        OBVIOUS
      <4>2. QED
        BY <3>1, <4>1
    <3>2. CASE rows[j] = <<Row(note[j])>>
      <4>1. Len(<<Row(note[j])>>) = 1
        OBVIOUS
      <4>2. QED
        BY <3>2, <4>1
    <3>3. QED
      BY <2>1, <3>1, <3>2 DEF Delivered, Undelivered
  <2>3. Rank(store[j]) = 3 /\ store[j].status = "completed" => Len(rows[j]) = 1
    BY <1>1, CompletedIsStored, CompletedAre DEF Rank
  <2>4. QED
    BY <2>2, <2>3
<1>2. QED
  BY <1>1, PipelineHolds, PTL

\* What a client polls of a completed job is the note in the destination's one
\* row: the store's copy in between, in which an empty list is nil, shows in
\* nothing, and no filter was passed by.
THEOREM PolledIsDelivered == Spec => []PolledAsDelivered
<1>1. ASSUME PipelineInv PROVE PolledAsDelivered
  <2> DEFINE Polled(polled, j) ==
               /\ rows[j] = <<Row(polled)>>
               /\ polled.transcript # ""
               /\ \A i \in DOMAIN polled.keys : polled.keys[i] \notin {"", "spaces"}
               /\ \A i \in DOMAIN polled.items : polled.items[i].task \notin {"", "spaces"}
  <2>1. ASSUME NEW j \in Job, Rank(store[j]) = 3, store[j].status = "completed"
        PROVE  Polled(StatusResponse(store[j]).result, j)
    <3>1. store[j] # Absent
      BY <2>1 DEF Rank
    <3>2. /\ note[j] \in Notes /\ rows[j] = <<Row(note[j])>>
          /\ StatusResponse(store[j]).result = note[j]
      BY <1>1, <2>1, <3>1, CompletedIsStored, RenderedNote DEF Completed, Delivered
    <3>3. QED
      BY <3>2, NotesAre
  <2>2. QED
    BY <2>1 DEF PolledAsDelivered
<1>2. QED
  BY <1>1, PipelineHolds, PTL

\* A reason that does not name the delivery means that no row was written.
THEOREM ReasonsTell == Spec => []ReasonTellsDelivery
<1>1. ASSUME PipelineInv PROVE ReasonTellsDelivery
  <2> SUFFICES ASSUME NEW j \in Job, store[j] # Absent,
                      store[j].err \in {"enqueue", "transcription", "analysis"}
               PROVE  rows[j] = <<>>
    BY DEF ReasonTellsDelivery
  <2>1. CASE stage[j] = "load"
    BY <1>1, <2>1 DEF PipelineInv, Pipeline, AtLoad, Undelivered
  <2>2. CASE stage[j] # "load"
    <3>1. store[j] \in {NewJob, Started} \/ Failing(j, store[j]) \/ store[j] \in Stored
      BY <1>1, <2>2, CompletedAre
      DEF PipelineInv, TypeOK, Stage, Pipeline, Working, Completing, Broken
    <3>2. \A rec \in {NewJob, Started} \cup Stored : rec.err = ""
      BY Records, ClonesOf, ZenonT(40) DEF Stored
    <3>3. QED
      BY <3>1, <3>2 DEF Failing, Undelivered
  <2>3. QED
    BY <2>1, <2>2
<1>2. QED
  BY <1>1, PipelineHolds, PTL

\* A job left behind by a Process that has returned was left by a done context.
THEOREM ReturnedIsSettled == Spec => []SettledUnlessExpired
<1>1. ASSUME PipelineInv PROVE SettledUnlessExpired
  <2> SUFFICES ASSUME NEW j \in Job
               PROVE  /\ stage[j] = "ok" => store[j].status = "completed"
                      /\ stage[j] = "error" /\ j \notin ctxDone
                           => store[j].status = "failed"
    BY DEF SettledUnlessExpired
  <2>1. ASSUME stage[j] = "ok" PROVE store[j].status = "completed"
    <3>1. store[j] \in Stored
      BY <1>1, <2>1, CompletedAre DEF PipelineInv, Pipeline
    <3>2. QED
      BY <3>1, ClonesOf DEF Stored
  <2>2. ASSUME stage[j] = "error", j \notin ctxDone PROVE store[j].status = "failed"
    BY <1>1, <2>2, Failed DEF PipelineInv, Pipeline, Broken, Failing
  <2>3. QED
    BY <2>1, <2>2
<1>2. QED
  BY <1>1, PipelineHolds, PTL

\* How far a record is.
LEMMA Ranks ==
  /\ Rank(Absent) = 0 /\ Rank(NewJob) = 1 /\ Rank(Started) = 2
  /\ \A rec \in Failures \cup Stored \cup {Fail(NewJob, "enqueue")} : Rank(rec) = 3
<1>1. Rank(Absent) = 0
  BY DEF Rank
<1>2. Rank(NewJob) = 1 /\ Rank(Started) = 2
  BY Records, AbsentAssumption DEF Rank
<1>3. \A rec \in Stored : rec \in JobType /\ rec.status = "completed"
  BY ClonesOf DEF Stored
<1>4. Fail(NewJob, "enqueue") \in JobType /\ Fail(NewJob, "enqueue").status = "failed"
  BY Records, Reasons
<1>5. QED
  BY <1>1, <1>2, <1>3, <1>4, Failed, AbsentAssumption DEF Rank

\* Whichever of handler and pipeline writes a record, a poller never sees it
\* go back, nor a terminal record replaced.
THEOREM NeverBackwards == Spec => StatusMonotone
<1>1. ASSUME PipelineInv, [Next]_procVars
      PROVE  [\A j \in Job : NeverGoesBack(store[j], store'[j])]_procVars
  <2> SUFFICES ASSUME NEW j \in Job, store'[j] # store[j]
               PROVE  NeverGoesBack(store[j], store'[j])
    BY DEF NeverGoesBack
  <2>1. PICK k \in Job : Process(k) \/ Environment(k)
    BY <1>1 DEF Next, Expire, Terminated, procVars
  <2>2. Advances(k)
    BY <1>1, <2>1, LoadSteps, ProviderSteps, DeliverySteps, PersistSteps, EnvironmentSteps
    DEF Process
  <2>3. k = j /\ Pipeline(j)
    BY <1>1, <2>2 DEF Advances, Untouched, PipelineInv
  <2>4. Pipeline(j)'
    BY <2>2, <2>3 DEF Advances
  <2>5. CASE Mark(j)
    <3>1. store[j] = NewJob
      BY <2>3, <2>5 DEF Mark, Goes, Pipeline, Working
    <3>2. store'[j] = Started
      BY <1>1, <2>4, <2>5 DEF Mark, Goes, Pipeline, Working, PipelineInv, TypeOK
    <3>3. QED
      BY <3>1, <3>2, Ranks DEF NeverGoesBack
  <2>6. CASE CompletePersists(j)
    <3>1. store[j] = Started
      BY <2>3, <2>6 DEF CompletePersists, Persist, Goes, Pipeline, Completing
    <3>2. store'[j] \in Stored
      <4>1. Completed(j)'
        BY <1>1, <2>4, <2>6
        DEF CompletePersists, Persist, Goes, Pipeline, PipelineInv, TypeOK
      <4>2. QED
        BY <4>1 DEF Completed, Delivered, Stored, Completions
    <3>3. QED
      BY <3>1, <3>2, Ranks DEF NeverGoesBack
  <2>7. CASE FailPersists(j)
    <3>1. store[j] = Started /\ job[j] \in Failures
      BY <2>3, <2>7 DEF FailPersists, Persist, Goes, Pipeline, Failing
    <3>2. store'[j] \in Failures
      <4>1. Clone(job[j]) = job[j]
        BY <3>1, Failed, ClonesOf
      <4>2. QED
        BY <1>1, <2>7, <3>1, <4>1 DEF FailPersists, Persist, Put, PipelineInv, TypeOK
    <3>3. QED
      BY <3>1, <3>2, Ranks DEF NeverGoesBack
  <2>8. CASE Enqueue(j)
    <3>1. store'[j] = NewJob
      BY <1>1, <2>8, Records, ClonesOf DEF Enqueue, Put, PipelineInv, TypeOK
    <3>2. QED
      BY <2>8, <3>1, Ranks DEF Enqueue, NeverGoesBack
  <2>9. CASE Withdraw(j)
    <3>1. store'[j] = Fail(NewJob, "enqueue")
      <4>1. Clone(Fail(NewJob, "enqueue")) = Fail(NewJob, "enqueue")
        BY Records, ClonesOf, Reasons
      <4>2. QED
        BY <1>1, <2>9, <4>1 DEF Withdraw, Put, PipelineInv, TypeOK
    <3>2. QED
      BY <2>9, <3>1, Ranks DEF Withdraw, NeverGoesBack
  <2>10. QED
    BY <2>1, <2>3, <2>5, <2>6, <2>7, <2>8, <2>9
    DEF Process, Environment, Load, LoadFails, MarkFails, Transcribe, TranscribeFails,
        Analyze, AnalyzeFails, Succeeds, Fails, Deliver, DeliverFails, PersistFails,
        Run, Return
<1>2. QED
  BY <1>1, PipelineHolds, PTL DEF Spec, StatusMonotone
=============================================================================
