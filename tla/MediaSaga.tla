------------------------------- MODULE MediaSaga -------------------------------
(***************************************************************************)
(* ReplaceMedia of internal/application/service.go: it uploads the files   *)
(* to the file service, checks that every file got an id, stores the ids   *)
(* in the rows of the gig (the first is the cover, the others the gallery) *)
(* and, when the repository returns an error, deletes the files again, the *)
(* last one first.  There is no transaction across the two services, the   *)
(* repository can return an error after its commit, and concurrent         *)
(* requests for one gig interleave.                                        *)
(*                                                                         *)
(* The rows are those that the transactions of ReplaceTx leave: a request  *)
(* with an empty gallery keeps a gallery committed after its DELETE.       *)
(***************************************************************************)
EXTENDS Naturals

CONSTANTS Workers,
          MaxFiles,    \* bound: files of a request
          MaxRequests, \* bound: requests begun
          NoFile       \* the cover of a gig without media

ASSUME MediaSagaAssumption ==
    /\ MaxFiles \in Nat \ {0}
    /\ MaxRequests \in Nat
    /\ NoFile \notin (1 .. MaxRequests) \X (1 .. MaxFiles)

VARIABLES files,     \* ids in the file service
          cover,     \* picture_file_id of the gig
          gallery,   \* file ids of its gig_media rows
          req,       \* req[w]: the request of worker w
          begun,     \* requests begun
          sent,      \* history: sent[r]: number of files request r brought
          refused,   \* history: requests to which the repository gave an error
          stored,    \* history: files that some row has referred to
          abandoned  \* history: files that a failure has left without owner

vars == <<files, cover, gallery, req, begun, sent, refused, stored, abandoned>>

rows == <<cover, gallery>>
history == <<sent, refused, stored, abandoned>>

Requests == 1 .. MaxRequests

File == Requests \X (1 .. MaxFiles)

Stages == {"idle", "upload", "delete", "commit", "reload", "compensate", "project"}

\* size: ids the file service returned; before: the gallery its DELETE saw;
\* left: files it still has to delete.
Request == [stage : Stages, id : Requests \cup {0}, size : 0 .. MaxFiles,
            before : SUBSET File, left : 0 .. MaxFiles]

Idle == [stage |-> "idle", id |-> 0, size |-> 0, before |-> {}, left |-> 0]

-----------------------------------------------------------------------------
At(w, stage) == req[w].stage = stage

Goes(w, stage) == req' = [req EXCEPT ![w].stage = stage]

Ends(w) == req' = [req EXCEPT ![w] = Idle]

FilesOf(r, n) == {r} \X (1 .. n)

GalleryOf(r, n) == {r} \X (2 .. n)

\* The owner and the upload payload were checked.
Begin(w) ==
    /\ At(w, "idle")
    /\ begun < MaxRequests
    /\ begun' = begun + 1
    /\ req' = [req EXCEPT ![w] = [Idle EXCEPT !.stage = "upload", !.id = begun + 1]]
    /\ \E n \in 1 .. MaxFiles : sent' = [sent EXCEPT ![begun + 1] = n]
    /\ UNCHANGED <<files, rows, refused, stored, abandoned>>

\* Faulty: the count of the ids is not compared.
SomeIds(n, asked) == n > 0

\* An id for every file, and at least one.
EveryId(n, asked) == n > 0 /\ n = asked

\* UploadFiles returns n ids; with fewer than it was given, the request ends
\* and nothing deletes what was uploaded.
Upload(w) ==
    LET r == req[w].id IN
    /\ At(w, "upload")
    /\ \E n \in 0 .. sent[r] :
        /\ files' = files \cup FilesOf(r, n)
        /\ IF EveryId(n, sent[r])
           THEN /\ req' = [req EXCEPT ![w].stage = "delete", ![w].size = n]
                /\ UNCHANGED abandoned
           ELSE /\ Ends(w)
                /\ abandoned' = abandoned \cup FilesOf(r, n)
    /\ UNCHANGED <<rows, begun, sent, refused, stored>>

\* UploadFiles returns an error; the file service may have taken some files.
UploadFails(w) ==
    LET r == req[w].id IN
    /\ At(w, "upload")
    /\ \E n \in 0 .. sent[r] : /\ files' = files \cup FilesOf(r, n)
                               /\ abandoned' = abandoned \cup FilesOf(r, n)
    /\ Ends(w)
    /\ UNCHANGED <<rows, begun, sent, refused, stored>>

-----------------------------------------------------------------------------
(***************************************************************************)
(* The repository.                                                         *)
(***************************************************************************)
Delete(w) ==
    /\ At(w, "delete")
    /\ req' = [req EXCEPT ![w].stage = "commit", ![w].before = gallery]
    /\ UNCHANGED <<files, rows, begun, history>>

\* The rows after the commit; new gallery rows conflict with rows that were
\* committed after the DELETE.
Commits(w) ==
    LET r == req[w].id
        new == GalleryOf(r, req[w].size)
        unseen == gallery \ req[w].before
    IN
    /\ At(w, "commit")
    /\ new # {} => unseen = {}
    /\ cover' = <<r, 1>>
    /\ gallery' = IF new = {} THEN unseen ELSE new
    /\ stored' = stored \cup FilesOf(r, req[w].size)
    /\ UNCHANGED <<files, begun, sent, abandoned>>

\* The repository returns an error, and all the files are to be deleted.
Compensates(w) ==
    /\ req' = [req EXCEPT ![w].stage = "compensate", ![w].left = req[w].size]
    /\ refused' = refused \cup {req[w].id}

Commit(w) == Commits(w) /\ Goes(w, "reload") /\ UNCHANGED refused

\* The commit has happened, and its answer is lost.
CommitUnanswered(w) == Commits(w) /\ Compensates(w)

\* Rolled back: an index conflict, a lost connection, a cancelled context.
WriteFails(w) ==
    /\ req[w].stage \in {"delete", "commit"}
    /\ Compensates(w)
    /\ UNCHANGED <<files, rows, begun, sent, stored, abandoned>>

\* ReplaceMedia of the repository ends with GetByID.
Reload(w) ==
    /\ At(w, "reload")
    /\ Goes(w, "project")
    /\ UNCHANGED <<files, rows, begun, history>>

ReloadFails(w) ==
    /\ At(w, "reload")
    /\ Compensates(w)
    /\ UNCHANGED <<files, rows, begun, sent, stored, abandoned>>

-----------------------------------------------------------------------------
(***************************************************************************)
(* Compensation, and the end of the request.                               *)
(***************************************************************************)

\* Faulty: the loop runs down to i > 0 and spares the cover.
StopsAtOne(left) == left > 1

\* Faulty: the loop runs one too far.
OnePastFirst(left) == left >= 0

FileLeft(left) == left > 0

\* DeleteFile, whose error is dropped; it fails too when the caller is gone,
\* for it has the context of the request.
DeleteNext(w) ==
    LET f == <<req[w].id, req[w].left>> IN
    /\ At(w, "compensate")
    /\ FileLeft(req[w].left)
    /\ \/ files' = files \ {f} /\ UNCHANGED abandoned
       \/ abandoned' = abandoned \cup {f} /\ UNCHANGED files
    /\ req' = [req EXCEPT ![w].left = @ - 1]
    /\ UNCHANGED <<rows, begun, sent, refused, stored>>

Compensated(w) ==
    /\ At(w, "compensate")
    /\ ~FileLeft(req[w].left)
    /\ Ends(w)
    /\ UNCHANGED <<files, rows, begun, history>>

\* The projections are requested and the call is answered.
Answer(w) ==
    /\ At(w, "project")
    /\ Ends(w)
    /\ UNCHANGED <<files, rows, begun, history>>

\* Faulty: any error of the use case deletes the files.
CompensatesToo(r) == [r EXCEPT !.stage = "compensate", !.left = r.size]

\* A broker error is returned without compensation: the media is stored.
AfterBrokerError(r) == Idle

ProjectFails(w) ==
    /\ At(w, "project")
    /\ req' = [req EXCEPT ![w] = AfterBrokerError(req[w])]
    /\ UNCHANGED <<files, rows, begun, history>>

\* The process stops with every request in flight.
Crash ==
    /\ \E w \in Workers : ~At(w, "idle")
    /\ req' = [w \in Workers |-> Idle]
    /\ abandoned' = abandoned \cup
         {f \in files : \E w \in Workers : f[1] = req[w].id}
    /\ UNCHANGED <<files, rows, begun, sent, refused, stored>>

-----------------------------------------------------------------------------
Init ==
    /\ files = {}
    /\ cover = NoFile
    /\ gallery = {}
    /\ req = [w \in Workers |-> Idle]
    /\ begun = 0
    /\ sent = [r \in Requests |-> 0]
    /\ refused = {}
    /\ stored = {}
    /\ abandoned = {}

Step(w) ==
    \/ Begin(w)
    \/ Upload(w)
    \/ UploadFails(w)
    \/ Delete(w)
    \/ Commit(w)
    \/ CommitUnanswered(w)
    \/ WriteFails(w)
    \/ Reload(w)
    \/ ReloadFails(w)
    \/ DeleteNext(w)
    \/ Compensated(w)
    \/ Answer(w)
    \/ ProjectFails(w)

Next ==
    \/ \E w \in Workers : Step(w)
    \/ Crash

Spec == Init /\ [][Next]_vars

-----------------------------------------------------------------------------
Typed ==
    /\ files \in SUBSET File
    /\ cover \in File \cup {NoFile}
    /\ gallery \in SUBSET File
    /\ req \in [Workers -> Request]
    /\ begun \in 0 .. MaxRequests
    /\ sent \in [Requests -> 0 .. MaxFiles]
    /\ refused \in SUBSET Requests
    /\ stored \in SUBSET File
    /\ abandoned \in SUBSET File

\* Every variable stays in its type; only a request whose write failed has files
\* to delete, and never more than the file service gave it ids for.
TypeOK ==
    /\ Typed
    /\ \A w \in Workers : req[w].left # 0 =>
         At(w, "compensate") /\ req[w].left <= req[w].size

Referenced == gallery \cup ({cover} \ {NoFile})

\* A row refers to a deleted file only when the repository gave its request an
\* error after having committed it; an answered request keeps its files, also
\* when its events could not be sent.
DanglingOnlyAfterError ==
    \A f \in Referenced : f \in files \/ f[1] \in refused

InFlight(r) == \E w \in Workers : req[w].id = r

\* A file in the file service is or was referred to by a row, belongs to a
\* request in flight, or was left by an upload that failed half way, a file
\* deletion that failed or a stop: compensation forgets none.
LeftoversExplained ==
    \A f \in files : f \in stored \/ f \in abandoned \/ InFlight(f[1])

\* A gallery is that of a whole upload: no row of it is missing, and none
\* comes from another request.
WholeGalleries ==
    gallery = {} \/ \E r \in Requests : gallery = GalleryOf(r, sent[r])
=============================================================================
