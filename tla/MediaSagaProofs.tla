---------------------------- MODULE MediaSagaProofs ----------------------------
(***************************************************************************)
(* The safety of the media upload and its compensation, for any number of  *)
(* concurrent requests and of files in them, and any failure or stop.      *)
(***************************************************************************)
EXTENDS MediaSaga, TLAPS

\* The gallery of a whole upload that has begun, or none.
WholeGallery(s) == s = {} \/ \E r \in 1 .. begun : s = GalleryOf(r, sent[r])

\* What a worker knows of its own request, which nobody else disturbs: where its
\* files are at each stage, and that the gallery its DELETE saw was a whole one.
Keeps(w) ==
    /\ req[w].id <= begun
    /\ At(w, "idle") <=> req[w].id = 0
    /\ req[w].stage \notin {"idle", "upload"} => req[w].size = sent[req[w].id]
    /\ At(w, "upload") => \A f \in files : f[1] # req[w].id
    /\ req[w].stage \in {"delete", "commit"} =>
         /\ req[w].size > 0
         /\ FilesOf(req[w].id, req[w].size) \subseteq files
         /\ \A f \in files : f[1] = req[w].id => f[2] <= req[w].size
    /\ At(w, "commit") => WholeGallery(req[w].before)
    /\ req[w].stage \in {"reload", "project"} =>
         \A f \in files : f[1] = req[w].id => f \in stored
    /\ At(w, "compensate") =>
         /\ req[w].id \in refused
         /\ \A f \in files : f[1] = req[w].id /\ f[2] > req[w].left
                               => f \in stored \cup abandoned

\* No two workers have one request.
OwnRequests ==
    \A v, w \in Workers : req[v].id = req[w].id /\ ~At(w, "idle") => v = w

\* An id that was not given out yet has no files.
NothingFromTheFuture == \A f \in files : f[1] <= begun

SagaInvariant ==
    /\ Typed
    /\ OwnRequests
    /\ NothingFromTheFuture
    /\ \A w \in Workers : Keeps(w)
    /\ DanglingOnlyAfterError
    /\ LeftoversExplained
    /\ WholeGallery(gallery)

\* A step of one worker, as the others see it: requests that were begun keep
\* their size, the files of other requests stay as they are, nothing that is
\* recorded is forgotten, and a request that ends leaves no file unexplained.
StepOf(w) ==
    /\ Typed'
    /\ \A v \in Workers \ {w} : req'[v] = req[v]
    /\ \/ req'[w].id \in {0, req[w].id} /\ begun' = begun
       \/ req'[w].id = begun + 1 /\ begun' = begun + 1 /\ req[w].id = 0
    /\ \A r \in 1 .. begun : sent'[r] = sent[r]
    /\ \A f \in File : f[1] # req[w].id => (f \in files' <=> f \in files)
    /\ refused \subseteq refused'
    /\ stored \subseteq stored'
    /\ abandoned \subseteq abandoned'
    /\ req'[w].id # req[w].id =>
         \A f \in files' : f[1] = req[w].id => f \in stored' \cup abandoned'

-----------------------------------------------------------------------------
\* A file is named by the request that brought it and its place there.
LEMMA FileParts ==
    ASSUME NEW f \in File
    PROVE  /\ f[1] \in Requests /\ f[2] \in 1 .. MaxFiles
           /\ f = <<f[1], f[2]>>
BY DEF File

\* The files of a request are files, and named by it.
LEMMA FilesOfRequest ==
    ASSUME NEW r \in Requests, NEW n \in 0 .. MaxFiles
    PROVE  /\ FilesOf(r, n) \subseteq File
           /\ \A f \in FilesOf(r, n) : f[1] = r /\ f[2] <= n
           /\ \A f \in File : f[1] = r /\ f[2] <= n => f \in FilesOf(r, n)
           /\ GalleryOf(r, n) \subseteq FilesOf(r, n)
           /\ n > 0 => <<r, 1>> \in FilesOf(r, n)
<1>1. MaxFiles \in Nat
  BY MediaSagaAssumption
<1>2. FilesOf(r, n) \subseteq File
  BY <1>1 DEF FilesOf, File
<1>3. \A f \in FilesOf(r, n) : f[1] = r /\ f[2] <= n
  BY <1>1 DEF FilesOf
<1>4. \A f \in File : f[1] = r /\ f[2] <= n => f \in FilesOf(r, n)
  BY <1>1 DEF FilesOf, File
<1>5. GalleryOf(r, n) \subseteq FilesOf(r, n)
  BY <1>1 DEF FilesOf, GalleryOf
<1>6. n > 0 => <<r, 1>> \in FilesOf(r, n)
  BY <1>1 DEF FilesOf
<1>7. QED
  BY <1>2, <1>3, <1>4, <1>5, <1>6

\* A whole gallery stays one.
LEMMA WholeStays ==
    ASSUME SagaInvariant, NEW w \in Workers, StepOf(w), NEW s, WholeGallery(s)
    PROVE  s = {} \/ \E r \in 1 .. begun' : s = GalleryOf(r, sent'[r])
<1>1. begun \in Nat /\ (begun' = begun \/ begun' = begun + 1)
  BY MediaSagaAssumption DEF SagaInvariant, Typed, StepOf
<1>2. QED
  BY <1>1 DEF StepOf, WholeGallery

\* The other workers keep what they know.
LEMMA OthersKeep ==
    ASSUME SagaInvariant, NEW w \in Workers, StepOf(w),
           NEW v \in Workers, v # w
    PROVE  Keeps(v)'
<1>1. Keeps(v) /\ req'[v] = req[v] /\ Typed /\ Typed'
  BY DEF SagaInvariant, StepOf
<1>2. begun \in Nat /\ begun' \in Nat /\ begun <= begun' /\ begun <= MaxRequests
  BY <1>1, MediaSagaAssumption DEF Typed, StepOf
<1>3. CASE At(v, "idle")
  BY <1>1, <1>2, <1>3 DEF Keeps, At
<1>4. CASE ~At(v, "idle")
  <2>1. req[v].id \in 1 .. begun /\ req[v].id # req[w].id
    <3>1. req[v].id \in Nat /\ req[v].id # 0 /\ req[v].id <= begun
      BY <1>1, <1>4 DEF Keeps, Typed, Request, Requests
    <3>2. req[v].id # req[w].id
      BY <1>4 DEF SagaInvariant, OwnRequests
    <3>3. QED
      BY <1>2, <3>1, <3>2
  <2>2. sent'[req[v].id] = sent[req[v].id]
    BY <2>1 DEF StepOf
  <2>3. \A f \in File : f[1] = req[v].id => (f \in files' <=> f \in files)
    BY <2>1 DEF StepOf
  <2>4. files \subseteq File /\ files' \subseteq File
    BY <1>1 DEF Typed
  <2>5. /\ req'[v].id <= begun'
        /\ At(v, "idle")' <=> req'[v].id = 0
        /\ req'[v].stage \notin {"idle", "upload"} => req'[v].size = sent'[req'[v].id]
    BY <1>1, <1>2, <2>1, <2>2 DEF Keeps, At
  <2>6. At(v, "upload")' => \A f \in files' : f[1] # req'[v].id
    BY <1>1, <2>3, <2>4 DEF Keeps, At
  <2>7. ASSUME req[v].stage \in {"delete", "commit"}
        PROVE  /\ req[v].size > 0
               /\ FilesOf(req[v].id, req[v].size) \subseteq files'
               /\ \A f \in files' : f[1] = req[v].id => f[2] <= req[v].size
    <3>1. \A f \in FilesOf(req[v].id, req[v].size) : f \in files /\ f[1] = req[v].id
      BY <1>1, <2>7 DEF Keeps, FilesOf
    <3>2. QED
      BY <1>1, <2>3, <2>4, <2>7, <3>1 DEF Keeps
  <2>8. At(v, "commit") =>
          (req[v].before = {} \/ \E r \in 1 .. begun' : req[v].before = GalleryOf(r, sent'[r]))
    BY <1>1, WholeStays DEF Keeps
  <2>9. req[v].stage \in {"reload", "project"} =>
          \A f \in files' : f[1] = req[v].id => f \in stored'
    BY <1>1, <2>3, <2>4 DEF Keeps, StepOf
  <2>10. At(v, "compensate") =>
          /\ req[v].id \in refused'
          /\ \A f \in files' : f[1] = req[v].id /\ f[2] > req[v].left
                                => f \in stored' \cup abandoned'
    BY <1>1, <2>3, <2>4 DEF Keeps, StepOf
  <2>11. QED
    BY <1>1, <2>5, <2>6, <2>7, <2>8, <2>9, <2>10 DEF Keeps, At, WholeGallery
<1>5. QED
  BY <1>3, <1>4

\* A step of a worker keeps the invariant if the worker still knows what it must
\* and the rows stay right.
LEMMA SagaFrame ==
    ASSUME SagaInvariant, NEW w \in Workers, StepOf(w), Keeps(w)',
           DanglingOnlyAfterError', WholeGallery(gallery)'
    PROVE  SagaInvariant'
<1>1. /\ Typed /\ Typed' /\ begun \in Nat /\ begun' \in Nat /\ begun <= begun'
      /\ \A v \in Workers : Keeps(v)
  BY MediaSagaAssumption DEF SagaInvariant, Typed, StepOf
<1>2. \A v \in Workers : Keeps(v)'
  BY OthersKeep
<1>3. OwnRequests'
  <2> SUFFICES ASSUME NEW v \in Workers, NEW u \in Workers,
                      req'[v].id = req'[u].id, ~At(u, "idle")', v # u
               PROVE  FALSE
    BY DEF OwnRequests, At
  <2>1. req'[u].id # 0
    BY <1>2 DEF Keeps, At
  <2>2. CASE u # w /\ v # w
    <3>1. req[v].id = req[u].id /\ req[u].stage # "idle"
      BY <2>2 DEF StepOf, At
    <3>2. QED
      BY <3>1 DEF SagaInvariant, OwnRequests, At
  <2>3. CASE u = w
    <3>1. req'[v] = req[v] /\ req[v].id <= begun /\ req[v].id # 0
      BY <1>1, <2>1, <2>3 DEF StepOf, Keeps
    <3>2. req[w].id = req[v].id
      BY <1>1, <2>1, <2>3, <3>1 DEF StepOf, Typed, Request, Requests
    <3>3. ~At(v, "idle")
      BY <1>1, <3>1 DEF Keeps
    <3>4. QED
      BY <2>3, <3>2, <3>3 DEF SagaInvariant, OwnRequests
  <2>4. CASE v = w
    <3>1. req'[u] = req[u] /\ req[u].id <= begun /\ req[u].id # 0
      BY <1>1, <2>1, <2>4 DEF StepOf, Keeps
    <3>2. req[w].id = req[u].id
      BY <1>1, <2>1, <2>4, <3>1 DEF StepOf, Typed, Request, Requests
    <3>3. ~At(u, "idle")
      BY <1>1, <3>1 DEF Keeps
    <3>4. QED
      BY <2>4, <3>2, <3>3 DEF SagaInvariant, OwnRequests
  <2>5. QED
    BY <2>2, <2>3, <2>4
<1>4. NothingFromTheFuture'
  <2> SUFFICES ASSUME NEW f \in files' PROVE f[1] <= begun'
    BY DEF NothingFromTheFuture
  <2>1. f \in File /\ f[1] \in Nat
    BY <1>1, FileParts DEF Typed, Requests
  <2>2. CASE f[1] = req[w].id
    BY <1>1, <2>1, <2>2 DEF Keeps
  <2>3. CASE f[1] # req[w].id
    BY <1>1, <2>1, <2>3 DEF StepOf, SagaInvariant, NothingFromTheFuture
  <2>4. QED
    BY <2>2, <2>3
<1>5. LeftoversExplained'
  <2> SUFFICES ASSUME NEW f \in files', f \notin stored', f \notin abandoned'
               PROVE  \E v \in Workers : req'[v].id = f[1]
    BY DEF LeftoversExplained, InFlight
  <2>1. f \in File
    BY <1>1 DEF Typed
  <2>2. CASE f[1] = req[w].id
    BY <2>2 DEF StepOf
  <2>3. CASE f[1] # req[w].id
    <3>1. f \in files /\ f \notin stored /\ f \notin abandoned
      BY <2>1, <2>3 DEF StepOf
    <3>2. PICK v \in Workers : req[v].id = f[1]
      BY <3>1 DEF SagaInvariant, LeftoversExplained, InFlight
    <3>3. QED
      BY <2>3, <3>2 DEF StepOf
  <2>4. QED
    BY <2>2, <2>3
<1>6. QED
  BY <1>1, <1>2, <1>3, <1>4, <1>5 DEF SagaInvariant

\* A step that leaves the rows alone keeps them right when it deletes no file, or
\* only those of a request that was given an error.
LEMMA RowsKept ==
    ASSUME SagaInvariant, NEW w \in Workers, StepOf(w), UNCHANGED rows,
           files \subseteq files' \/ req[w].id \in refused'
    PROVE  DanglingOnlyAfterError' /\ WholeGallery(gallery)'
<1>1. Typed /\ gallery' = gallery /\ cover' = cover
  BY DEF SagaInvariant, rows
<1>2. WholeGallery(gallery)'
  BY <1>1, WholeStays DEF SagaInvariant, WholeGallery
<1>3. DanglingOnlyAfterError'
  <2> SUFFICES ASSUME NEW f \in Referenced PROVE f \in files' \/ f[1] \in refused'
    BY <1>1 DEF DanglingOnlyAfterError, Referenced
  <2>1. f \in File /\ (f \in files \/ f[1] \in refused)
    BY <1>1 DEF SagaInvariant, DanglingOnlyAfterError, Referenced, Typed
  <2>2. QED
    BY <2>1 DEF StepOf
<1>4. QED
  BY <1>2, <1>3

-----------------------------------------------------------------------------
\* Each worker starts without a request.
LEMMA SagaInit == Init => SagaInvariant
<1> SUFFICES ASSUME Init PROVE SagaInvariant
  OBVIOUS
<1>1. Typed
  BY MediaSagaAssumption DEF Init, Typed, Idle, Request, Stages, Requests
<1>2. QED
  BY <1>1 DEF Init, SagaInvariant, OwnRequests, NothingFromTheFuture, Keeps, At, Idle,
     DanglingOnlyAfterError, Referenced, LeftoversExplained, WholeGallery

\* A request begins with an id that nothing bears yet.
LEMMA BeginStep ==
    ASSUME SagaInvariant, NEW w \in Workers, Begin(w)
    PROVE  SagaInvariant'
<1>1. /\ Typed /\ begun \in 0 .. MaxRequests /\ begun < MaxRequests /\ MaxRequests \in Nat
      /\ MaxFiles \in Nat /\ req[w] \in Request /\ req[w].stage = "idle" /\ req[w].id = 0
  BY MediaSagaAssumption DEF SagaInvariant, Typed, Begin, Keeps, At
<1>2. /\ begun' = begun + 1 /\ UNCHANGED <<files, rows, refused, stored, abandoned>>
      /\ req' = [req EXCEPT ![w] = [Idle EXCEPT !.stage = "upload", !.id = begun + 1]]
  BY DEF Begin
<1>3. PICK n \in 1 .. MaxFiles : sent' = [sent EXCEPT ![begun + 1] = n]
  BY DEF Begin
<1>4. [Idle EXCEPT !.stage = "upload", !.id = begun + 1] \in Request
  <2>1. Idle \in Request /\ begun + 1 \in Requests
    BY <1>1 DEF Idle, Request, Stages, Requests
  <2>2. QED
    BY <2>1 DEF Request, Stages
<1>5. Typed'
  <2>1. req' \in [Workers -> Request]
    BY <1>1, <1>2, <1>4 DEF Typed
  <2>2. begun' \in 0 .. MaxRequests
    BY <1>1, <1>2
  <2>3. sent' \in [Requests -> 0 .. MaxFiles]
    <3>1. n \in 0 .. MaxFiles /\ sent \in [Requests -> 0 .. MaxFiles]
      BY <1>1 DEF Typed
    <3>2. QED
      BY <1>3, <3>1
  <2>4. QED
    BY <1>1, <1>2, <2>1, <2>2, <2>3 DEF Typed, rows
<1>6. req'[w].id = begun + 1 /\ req'[w].stage = "upload"
  BY <1>1, <1>2 DEF Typed, Idle
<1>7. \A r \in 1 .. begun : sent'[r] = sent[r]
  BY <1>1, <1>3 DEF Typed, Requests
<1>8. \A f \in files : f[1] # 0 /\ f[1] # begun + 1
  <2> SUFFICES ASSUME NEW f \in files PROVE f[1] # 0 /\ f[1] # begun + 1
    OBVIOUS
  <2>1. f[1] \in Requests /\ f[1] <= begun
    BY <1>1, FileParts DEF SagaInvariant, NothingFromTheFuture, Typed
  <2>2. QED
    BY <1>1, <2>1 DEF Requests
<1>9. StepOf(w)
  BY <1>1, <1>2, <1>5, <1>6, <1>7, <1>8 DEF StepOf, Typed
<1>10. Keeps(w)'
  BY <1>1, <1>2, <1>6, <1>8 DEF Keeps, At
<1>11. QED
  BY <1>2, <1>9, <1>10, RowsKept, SagaFrame

\* What a step of w can count on when w has a request.
LEMMA InRequest ==
    ASSUME SagaInvariant, NEW w \in Workers, ~At(w, "idle")
    PROVE  /\ Typed /\ req[w] \in Request /\ Keeps(w)
           /\ MaxFiles \in Nat /\ begun \in Nat
           /\ req[w].id \in Requests /\ req[w].id \in 1 .. begun
           /\ sent[req[w].id] \in 0 .. MaxFiles /\ sent[req[w].id] \in Nat
           /\ req[w].size \in 0 .. MaxFiles /\ req[w].left \in 0 .. MaxFiles
<1>1. /\ Typed /\ req[w] \in Request /\ Keeps(w)
      /\ MaxFiles \in Nat /\ begun \in Nat
  BY MediaSagaAssumption DEF SagaInvariant, Typed
<1>2. req[w].id \in Requests /\ req[w].id <= begun
  BY <1>1 DEF Keeps, Request
<1>3. QED
  BY <1>1, <1>2 DEF Typed, Request, Requests

\* A step that changes only the stage and the counters of a request, or ends it.
LEMMA ReqStep ==
    ASSUME SagaInvariant, NEW w \in Workers, NEW r \in Request,
           req' = [req EXCEPT ![w] = r]
    PROVE  /\ req' \in [Workers -> Request] /\ req'[w] = r
           /\ \A v \in Workers \ {w} : req'[v] = req[v]
BY DEF SagaInvariant, Typed

\* A request ends, all its files accounted for.
LEMMA EndStep ==
    ASSUME SagaInvariant, NEW w \in Workers, ~At(w, "idle"), Ends(w),
           UNCHANGED <<rows, begun, sent, refused, stored>>,
           files' \in SUBSET File, files \subseteq files',
           abandoned' \in SUBSET File, abandoned \subseteq abandoned',
           \A f \in File : f[1] # req[w].id => (f \in files' <=> f \in files),
           \A f \in files' : f[1] = req[w].id => f \in stored \cup abandoned'
    PROVE  SagaInvariant'
<1>1. Idle \in Request /\ Idle.id = 0 /\ Idle.stage = "idle"
  BY MediaSagaAssumption DEF Idle, Request, Stages, Requests
<1>2. /\ req' \in [Workers -> Request] /\ req'[w] = Idle
      /\ \A v \in Workers \ {w} : req'[v] = req[v]
  BY <1>1, ReqStep DEF Ends
<1>3. Typed'
  BY <1>2 DEF SagaInvariant, Typed, rows
<1>4. StepOf(w)
  BY <1>1, <1>2, <1>3 DEF StepOf
<1>5. Keeps(w)'
  BY <1>1, <1>2, InRequest DEF Keeps, At
<1>6. QED
  BY <1>4, <1>5, RowsKept, SagaFrame

LEMMA UploadStep ==
    ASSUME SagaInvariant, NEW w \in Workers, Upload(w) \/ UploadFails(w)
    PROVE  SagaInvariant'
<1>1. At(w, "upload") /\ ~At(w, "idle")
  BY DEF Upload, UploadFails, At
<1> DEFINE r == req[w].id
<1>2. /\ Typed /\ req[w] \in Request /\ Keeps(w) /\ r \in Requests /\ r <= begun
      /\ MaxFiles \in Nat /\ sent[r] \in 0 .. MaxFiles /\ sent[r] \in Nat
      /\ \A f \in files : f[1] # r
  BY <1>1, InRequest DEF Keeps
<1>3. UNCHANGED <<rows, begun, sent, refused, stored>>
  BY DEF Upload, UploadFails
<1>4. PICK n \in 0 .. sent[r] :
        /\ files' = files \cup FilesOf(r, n)
        /\ \/ /\ EveryId(n, sent[r])
              /\ req' = [req EXCEPT ![w].stage = "delete", ![w].size = n]
              /\ UNCHANGED abandoned
           \/ /\ Ends(w)
              /\ abandoned' = abandoned \cup FilesOf(r, n)
  BY DEF Upload, UploadFails
<1>5. n \in 0 .. MaxFiles
  BY <1>2
<1>6. /\ FilesOf(r, n) \subseteq File
      /\ \A f \in FilesOf(r, n) : f[1] = r /\ f[2] <= n
  BY <1>2, <1>5, FilesOfRequest
<1>7. /\ files' \in SUBSET File /\ files \subseteq files'
      /\ \A f \in File : f[1] # r => (f \in files' <=> f \in files)
      /\ \A f \in files' : f[1] = r => f \in FilesOf(r, n)
  BY <1>2, <1>4, <1>6 DEF Typed
<1>8. CASE Ends(w) /\ abandoned' = abandoned \cup FilesOf(r, n)
  BY <1>1, <1>2, <1>3, <1>6, <1>7, <1>8, EndStep DEF Typed
<1>9. CASE /\ EveryId(n, sent[r])
           /\ req' = [req EXCEPT ![w].stage = "delete", ![w].size = n]
           /\ UNCHANGED abandoned
  <2> DEFINE q == [req[w] EXCEPT !.stage = "delete", !.size = n]
  <2>1. q \in Request /\ q.stage = "delete" /\ q.size = n /\ q.id = r
    BY <1>2, <1>5 DEF Request, Stages
  <2>2. req' = [req EXCEPT ![w] = q]
    BY <1>2, <1>9 DEF Typed, Request
  <2>3. /\ req' \in [Workers -> Request] /\ req'[w] = q
        /\ \A v \in Workers \ {w} : req'[v] = req[v]
    BY <2>1, <2>2, ReqStep
  <2>4. Typed'
    BY <1>2, <1>3, <1>7, <1>9, <2>3 DEF Typed, rows
  <2>5. StepOf(w)
    BY <1>3, <1>7, <1>9, <2>1, <2>3, <2>4 DEF StepOf
  <2>6. Keeps(w)'
    BY <1>2, <1>3, <1>4, <1>6, <1>7, <1>9, <2>1, <2>3 DEF Keeps, At, EveryId, Requests
  <2>7. QED
    BY <1>3, <1>7, <2>5, <2>6, RowsKept, SagaFrame
<1>10. QED
  BY <1>4, <1>8, <1>9

\* A request goes on, with no change to files, rows or histories but for those that
\* were refused.
LEMMA GoesOn ==
    ASSUME SagaInvariant, NEW w \in Workers, NEW q \in Request, ~At(w, "idle"),
           req' = [req EXCEPT ![w] = q], q.id = req[w].id,
           UNCHANGED <<files, rows, begun, sent, stored, abandoned>>,
           refused' \in SUBSET Requests, refused \subseteq refused',
           Keeps(w)'
    PROVE  SagaInvariant'
<1>1. /\ req' \in [Workers -> Request] /\ req'[w] = q
      /\ \A v \in Workers \ {w} : req'[v] = req[v]
  BY ReqStep
<1>2. Typed'
  BY <1>1 DEF SagaInvariant, Typed, rows
<1>3. StepOf(w)
  BY <1>1, <1>2 DEF StepOf
<1>4. QED
  BY <1>3, RowsKept, SagaFrame

LEMMA DeleteStep ==
    ASSUME SagaInvariant, NEW w \in Workers, Delete(w)
    PROVE  SagaInvariant'
<1>1. At(w, "delete") /\ ~At(w, "idle")
  BY DEF Delete, At
<1>2. Typed /\ req[w] \in Request /\ Keeps(w)
  BY <1>1, InRequest
<1> DEFINE q == [req[w] EXCEPT !.stage = "commit", !.before = gallery]
<1>3. /\ q \in Request /\ q.stage = "commit" /\ q.before = gallery
      /\ q.id = req[w].id /\ q.size = req[w].size
  BY <1>2 DEF Request, Stages, Typed
<1>4. req' = [req EXCEPT ![w] = q] /\ UNCHANGED <<files, rows, begun, history>>
  BY <1>2 DEF Delete, Typed, Request
<1>5. /\ UNCHANGED <<files, rows, begun, sent, refused, stored, abandoned>>
      /\ refused' \in SUBSET Requests
  BY <1>2, <1>4 DEF history, Typed
<1>6. req'[w] = q
  BY <1>3, <1>4, ReqStep
<1>7. Keeps(w)'
  BY <1>1, <1>2, <1>3, <1>5, <1>6 DEF Keeps, At, SagaInvariant, WholeGallery
<1>8. QED
  BY <1>1, <1>3, <1>4, <1>5, <1>7, GoesOn

\* The repository returns an error: the request is marked as refused, and all of
\* its files are still to be deleted.
LEMMA CompensatesRequest ==
    ASSUME SagaInvariant, NEW w \in Workers, Compensates(w),
           req[w].stage \in {"delete", "commit", "reload"}
    PROVE  /\ ~At(w, "idle")
           /\ req'[w] \in Request /\ req'[w].id = req[w].id
           /\ req'[w].stage = "compensate" /\ req'[w].size = req[w].size
           /\ req'[w].left = req[w].size
           /\ req' = [req EXCEPT ![w] = req'[w]]
           /\ refused' \in SUBSET Requests /\ refused \subseteq refused'
           /\ req[w].id \in refused'
<1>1. ~At(w, "idle")
  BY DEF At
<1>2. Typed /\ req[w] \in Request /\ req[w].id \in Requests
  BY <1>1, InRequest
<1> DEFINE q == [req[w] EXCEPT !.stage = "compensate", !.left = req[w].size]
<1>3. /\ q \in Request /\ q.stage = "compensate" /\ q.left = req[w].size
      /\ q.id = req[w].id /\ q.size = req[w].size
  BY <1>2 DEF Request, Stages
<1>4. req' = [req EXCEPT ![w] = q] /\ refused' = refused \cup {req[w].id}
  BY <1>2 DEF Compensates, Typed, Request
<1>5. req'[w] = q
  BY <1>3, <1>4, ReqStep
<1>6. QED
  BY <1>1, <1>2, <1>3, <1>4, <1>5 DEF Typed

LEMMA FailStep ==
    ASSUME SagaInvariant, NEW w \in Workers, WriteFails(w) \/ ReloadFails(w)
    PROVE  SagaInvariant'
<1>1. /\ req[w].stage \in {"delete", "commit", "reload"} /\ Compensates(w)
      /\ UNCHANGED <<files, rows, begun, sent, stored, abandoned>>
  BY DEF WriteFails, ReloadFails, At
<1>2. /\ ~At(w, "idle")
      /\ req'[w] \in Request /\ req'[w].id = req[w].id
      /\ req'[w].stage = "compensate" /\ req'[w].size = req[w].size
      /\ req'[w].left = req[w].size
      /\ req' = [req EXCEPT ![w] = req'[w]]
      /\ refused' \in SUBSET Requests /\ refused \subseteq refused'
      /\ req[w].id \in refused'
  BY <1>1, CompensatesRequest
<1>3. /\ Typed /\ req[w] \in Request /\ Keeps(w) /\ req[w].id \in 1 .. begun
      /\ req[w].size \in Nat
  BY <1>2, InRequest DEF Request
<1>4. \A f \in files : f[1] = req[w].id /\ f[2] > req[w].size => f \in stored
  <2> SUFFICES ASSUME NEW f \in files, f[1] = req[w].id, f[2] > req[w].size
               PROVE  f \in stored
    OBVIOUS
  <2>1. f[2] \in Nat
    BY <1>3, FileParts, MediaSagaAssumption DEF Typed
  <2>2. QED
    BY <1>1, <1>3, <2>1 DEF Keeps
<1>5. Keeps(w)'
  BY <1>1, <1>2, <1>3, <1>4 DEF Keeps, At
<1>6. QED
  BY <1>1, <1>2, <1>5, GoesOn

LEMMA ReloadStep ==
    ASSUME SagaInvariant, NEW w \in Workers, Reload(w)
    PROVE  SagaInvariant'
<1>1. At(w, "reload") /\ ~At(w, "idle")
  BY DEF Reload, At
<1>2. Typed /\ req[w] \in Request /\ Keeps(w)
  BY <1>1, InRequest
<1> DEFINE q == [req[w] EXCEPT !.stage = "project"]
<1>3. /\ q \in Request /\ q.stage = "project"
      /\ q.id = req[w].id /\ q.size = req[w].size
  BY <1>2 DEF Request, Stages
<1>4. req' = [req EXCEPT ![w] = q] /\ UNCHANGED <<files, rows, begun, history>>
  BY <1>2 DEF Reload, Goes, Typed, Request
<1>5. /\ UNCHANGED <<files, rows, begun, sent, refused, stored, abandoned>>
      /\ refused' \in SUBSET Requests
  BY <1>2, <1>4 DEF history, Typed
<1>6. req'[w] = q
  BY <1>3, <1>4, ReqStep
<1>7. Keeps(w)'
  BY <1>1, <1>2, <1>3, <1>5, <1>6 DEF Keeps, At
<1>8. QED
  BY <1>1, <1>3, <1>4, <1>5, <1>7, GoesOn

\* The call ends, answered or not, with its files stored or deleted one by one.
LEMMA AnswerStep ==
    ASSUME SagaInvariant, NEW w \in Workers,
           Compensated(w) \/ Answer(w) \/ ProjectFails(w)
    PROVE  SagaInvariant'
<1>1. /\ \/ At(w, "compensate") /\ ~FileLeft(req[w].left)
         \/ At(w, "project")
      /\ ~At(w, "idle") /\ Ends(w)
      /\ UNCHANGED <<files, rows, begun, history>>
  BY DEF Compensated, Answer, ProjectFails, AfterBrokerError, Ends, At
<1>2. UNCHANGED <<rows, begun, sent, refused, stored, abandoned, files>>
  BY <1>1 DEF history
<1>3. Typed /\ Keeps(w) /\ req[w].left \in Nat
  BY <1>1, InRequest, MediaSagaAssumption
<1>4. \A f \in files : f[1] = req[w].id => f \in stored \cup abandoned
  <2> SUFFICES ASSUME NEW f \in files, f[1] = req[w].id
               PROVE  f \in stored \cup abandoned
    OBVIOUS
  <2>1. CASE At(w, "project")
    BY <1>3, <2>1 DEF Keeps, At
  <2>2. CASE At(w, "compensate") /\ ~FileLeft(req[w].left)
    <3>1. f[2] \in Nat /\ f[2] > 0
      BY <1>3, FileParts, MediaSagaAssumption DEF Typed
    <3>2. req[w].left = 0
      BY <1>3, <2>2 DEF FileLeft
    <3>3. QED
      BY <1>3, <2>2, <3>1, <3>2 DEF Keeps
  <2>3. QED
    BY <1>1, <2>1, <2>2
<1>5. QED
  BY <1>1, <1>2, <1>3, <1>4, EndStep DEF Typed

\* A deletion takes the last file that is left, or leaves it behind for good.
LEMMA DeleteNextStep ==
    ASSUME SagaInvariant, NEW w \in Workers, DeleteNext(w)
    PROVE  SagaInvariant'
<1>1. At(w, "compensate") /\ ~At(w, "idle") /\ FileLeft(req[w].left)
  BY DEF DeleteNext, At
<1>2. /\ Typed /\ req[w] \in Request /\ Keeps(w) /\ req[w].left \in 1 .. MaxFiles
      /\ MaxFiles \in Nat /\ req[w].id \in Requests /\ req[w].id \in refused
  BY <1>1, InRequest DEF FileLeft, Keeps
<1> DEFINE q == [req[w] EXCEPT !.left = @ - 1]
           f == <<req[w].id, req[w].left>>
<1>3. f \in File
  BY <1>2 DEF File
<1>4. /\ q \in Request /\ q.stage = "compensate" /\ q.id = req[w].id
      /\ q.size = req[w].size /\ q.left = req[w].left - 1
  <2>1. req[w].left - 1 \in 0 .. MaxFiles
    BY <1>2
  <2>2. QED
    BY <1>1, <1>2, <2>1 DEF Request, At
<1>5. /\ req' = [req EXCEPT ![w] = q]
      /\ UNCHANGED <<rows, begun, sent, refused, stored>>
      /\ \/ files' = files \ {f} /\ abandoned' = abandoned
         \/ abandoned' = abandoned \cup {f} /\ files' = files
  BY <1>2 DEF DeleteNext, Typed, Request
<1>6. /\ req' \in [Workers -> Request] /\ req'[w] = q
      /\ \A v \in Workers \ {w} : req'[v] = req[v]
  BY <1>4, <1>5, ReqStep
<1>7. /\ files' \in SUBSET File /\ abandoned' \in SUBSET File
      /\ abandoned \subseteq abandoned'
      /\ \A g \in File : g # f => (g \in files' <=> g \in files)
      /\ f \in files' => f \in abandoned'
  BY <1>2, <1>3, <1>5 DEF Typed
<1>8. f[1] = req[w].id /\ f[2] = req[w].left
  OBVIOUS
<1>9. Typed'
  BY <1>2, <1>5, <1>6, <1>7 DEF Typed, rows
<1>10. StepOf(w)
  BY <1>4, <1>5, <1>6, <1>7, <1>8, <1>9 DEF StepOf
<1>11. \A g \in files' : g[1] = req[w].id /\ g[2] > req[w].left - 1
                           => g \in stored' \cup abandoned'
  <2> SUFFICES ASSUME NEW g \in files', g[1] = req[w].id, g[2] > req[w].left - 1
               PROVE  g \in stored' \cup abandoned'
    OBVIOUS
  <2>1. g \in File /\ g = <<g[1], g[2]>> /\ g[2] \in Nat
    BY <1>2, <1>7, FileParts
  <2>2. CASE g[2] = req[w].left
    BY <1>7, <2>1, <2>2
  <2>3. CASE g[2] > req[w].left
    <3>1. g # f /\ g \in files
      BY <1>2, <1>7, <1>8, <2>1, <2>3
    <3>2. g \in stored \cup abandoned
      BY <1>1, <1>2, <2>3, <3>1 DEF Keeps
    <3>3. QED
      BY <1>5, <1>7, <3>2
  <2>4. QED
    BY <1>2, <2>1, <2>2, <2>3
<1>12. Keeps(w)'
  BY <1>1, <1>2, <1>4, <1>5, <1>6, <1>11 DEF Keeps, At
<1>13. QED
  BY <1>2, <1>5, <1>10, <1>12, RowsKept, SagaFrame

\* What a commit makes of the rows: the cover and the gallery are of files that are
\* there, and the gallery is a whole one, the new or one committed after the DELETE.
LEMMA CommitsRows ==
    ASSUME SagaInvariant, NEW w \in Workers, Commits(w), refused \subseteq refused'
    PROVE  /\ At(w, "commit") /\ ~At(w, "idle")
           /\ UNCHANGED <<files, begun, sent, abandoned>>
           /\ cover' \in File /\ gallery' \in SUBSET File
           /\ stored' \in SUBSET File /\ stored \subseteq stored'
           /\ \A f \in files : f[1] = req[w].id => f \in stored'
           /\ DanglingOnlyAfterError'
           /\ WholeGallery(gallery)'
<1> DEFINE r == req[w].id
           n == req[w].size
<1>1. At(w, "commit") /\ ~At(w, "idle")
  BY DEF Commits, At
<1>2. /\ Typed /\ Keeps(w) /\ r \in Requests /\ r \in 1 .. begun /\ n \in 0 .. MaxFiles
      /\ n > 0 /\ n = sent[r] /\ FilesOf(r, n) \subseteq files
      /\ \A f \in files : f[1] = r => f[2] <= n
      /\ WholeGallery(req[w].before)
  BY <1>1, InRequest DEF Keeps, At
<1>3. /\ FilesOf(r, n) \subseteq File /\ GalleryOf(r, n) \subseteq FilesOf(r, n)
      /\ <<r, 1>> \in FilesOf(r, n)
      /\ \A f \in File : f[1] = r /\ f[2] <= n => f \in FilesOf(r, n)
  BY <1>2, FilesOfRequest
<1>4. /\ UNCHANGED <<files, begun, sent, abandoned>>
      /\ cover' = <<r, 1>> /\ stored' = stored \cup FilesOf(r, n)
      /\ \/ gallery' = GalleryOf(r, n)
         \/ gallery' = gallery \ req[w].before
  BY DEF Commits
<1>5. /\ cover' \in File /\ gallery' \in SUBSET File
      /\ stored' \in SUBSET File /\ stored \subseteq stored'
      /\ \A f \in files : f[1] = r => f \in stored'
  BY <1>2, <1>3, <1>4 DEF Typed
<1>6. DanglingOnlyAfterError'
  BY <1>2, <1>3, <1>4 DEF DanglingOnlyAfterError, Referenced, SagaInvariant
<1>7. WholeGallery(gallery')
  <2>1. CASE gallery' = GalleryOf(r, n)
    BY <1>2, <2>1 DEF WholeGallery
  <2>2. CASE gallery' = gallery \ req[w].before
    <3>1. WholeGallery(gallery)
      BY DEF SagaInvariant
    <3>2. CASE gallery = {} \/ req[w].before = {}
      BY <2>2, <3>1, <3>2 DEF WholeGallery
    <3>3. CASE gallery # {} /\ req[w].before # {}
      <4>1. PICK a \in 1 .. begun : gallery = GalleryOf(a, sent[a])
        BY <3>1, <3>3 DEF WholeGallery
      <4>2. PICK b \in 1 .. begun : req[w].before = GalleryOf(b, sent[b])
        BY <1>2, <3>3 DEF WholeGallery
      <4>3. CASE a = b
        BY <2>2, <4>1, <4>2, <4>3 DEF WholeGallery
      <4>4. CASE a # b
        <5>1. gallery' = gallery
          BY <2>2, <4>1, <4>2, <4>4 DEF GalleryOf
        <5>2. QED
          BY <3>1, <5>1
      <4>5. QED
        BY <4>3, <4>4
    <3>4. QED
      BY <3>2, <3>3
  <2>3. QED
    BY <1>4, <2>1, <2>2
<1>8. WholeGallery(gallery)'
  BY <1>4, <1>7 DEF WholeGallery
<1>9. QED
  BY <1>1, <1>4, <1>5, <1>6, <1>8

LEMMA CommitStep ==
    ASSUME SagaInvariant, NEW w \in Workers, Commit(w) \/ CommitUnanswered(w)
    PROVE  SagaInvariant'
<1>1. /\ Commits(w)
      /\ \/ Goes(w, "reload") /\ UNCHANGED refused
         \/ Compensates(w)
  BY DEF Commit, CommitUnanswered
<1>2. /\ req[w].stage \in {"delete", "commit", "reload"} /\ ~At(w, "idle")
      /\ req[w].stage = "commit"
  BY DEF Commit, CommitUnanswered, Commits, At
<1>3. Typed /\ req[w] \in Request /\ Keeps(w)
  BY <1>2, InRequest
<1>4. PICK q \in Request :
        /\ req' = [req EXCEPT ![w] = q]
        /\ q.id = req[w].id /\ q.size = req[w].size
        /\ refused' \in SUBSET Requests /\ refused \subseteq refused'
        /\ \/ q.stage = "reload"
           \/ q.stage = "compensate" /\ q.id \in refused'
  <2>1. CASE Goes(w, "reload") /\ UNCHANGED refused
    <3> DEFINE q == [req[w] EXCEPT !.stage = "reload"]
    <3>1. /\ q \in Request /\ q.stage = "reload"
          /\ q.id = req[w].id /\ q.size = req[w].size
      BY <1>3 DEF Request, Stages
    <3>2. req' = [req EXCEPT ![w] = q]
      BY <1>3, <2>1 DEF Goes, Typed, Request
    <3>3. QED
      BY <1>3, <2>1, <3>1, <3>2 DEF Typed
  <2>2. CASE Compensates(w)
    BY <1>2, <2>2, CompensatesRequest
  <2>3. QED
    BY <1>1, <2>1, <2>2
<1>5. /\ req' \in [Workers -> Request] /\ req'[w] = q
      /\ \A v \in Workers \ {w} : req'[v] = req[v]
  BY <1>4, ReqStep
<1>6. /\ UNCHANGED <<files, begun, sent, abandoned>>
      /\ cover' \in File /\ gallery' \in SUBSET File
      /\ stored' \in SUBSET File /\ stored \subseteq stored'
      /\ \A f \in files : f[1] = req[w].id => f \in stored'
      /\ DanglingOnlyAfterError'
      /\ WholeGallery(gallery)'
  BY <1>1, <1>4, CommitsRows
<1>7. Typed'
  BY <1>3, <1>4, <1>5, <1>6 DEF Typed
<1>8. StepOf(w)
  BY <1>4, <1>5, <1>6, <1>7 DEF StepOf
<1>9. Keeps(w)'
  BY <1>2, <1>3, <1>4, <1>5, <1>6 DEF Keeps, At
<1>10. QED
  BY <1>6, <1>8, <1>9, SagaFrame

\* A stop ends every request and leaves its files behind.
LEMMA CrashStep ==
    ASSUME SagaInvariant, Crash
    PROVE  SagaInvariant'
<1>1. /\ req' = [w \in Workers |-> Idle]
      /\ abandoned' = abandoned \cup {f \in files : \E w \in Workers : f[1] = req[w].id}
      /\ UNCHANGED <<files, rows, begun, sent, refused, stored>>
  BY DEF Crash
<1>2. Typed /\ Idle \in Request /\ Idle.id = 0 /\ Idle.stage = "idle"
  BY MediaSagaAssumption DEF SagaInvariant, Idle, Request, Stages, Requests
<1>3. Typed'
  BY <1>1, <1>2 DEF Typed, rows
<1>4. \A w \in Workers : Keeps(w)'
  BY <1>1, <1>2, MediaSagaAssumption DEF Keeps, At, Typed
<1>5. OwnRequests'
  BY <1>1, <1>2 DEF OwnRequests, At
<1>6. NothingFromTheFuture' /\ DanglingOnlyAfterError' /\ WholeGallery(gallery)'
  BY <1>1 DEF SagaInvariant, NothingFromTheFuture, DanglingOnlyAfterError, Referenced,
     WholeGallery, rows
<1>7. LeftoversExplained'
  BY <1>1 DEF SagaInvariant, LeftoversExplained, InFlight
<1>8. QED
  BY <1>3, <1>4, <1>5, <1>6, <1>7 DEF SagaInvariant

LEMMA SagaStep == SagaInvariant /\ [Next]_vars => SagaInvariant'
<1> SUFFICES ASSUME SagaInvariant, [Next]_vars PROVE SagaInvariant'
  OBVIOUS
<1>1. ASSUME NEW w \in Workers, Step(w) PROVE SagaInvariant'
  BY <1>1, BeginStep, UploadStep, DeleteStep, CommitStep, FailStep, ReloadStep,
     DeleteNextStep, AnswerStep DEF Step
<1>2. CASE UNCHANGED vars
  BY <1>2 DEF vars, rows, SagaInvariant, Typed, OwnRequests, NothingFromTheFuture, Keeps, At,
     DanglingOnlyAfterError, Referenced, LeftoversExplained, InFlight, WholeGallery
<1>3. QED
  BY <1>1, <1>2, CrashStep DEF Next

-----------------------------------------------------------------------------
\* However many requests race, fail, or are stopped, the invariant holds.
THEOREM SagaInvariance == Spec => []SagaInvariant
BY SagaInit, SagaStep, PTL DEF Spec

\* What is left to delete is of a request that compensates, and one of its files.
LeftWithin(r) == r.left # 0 => r.stage = "compensate" /\ r.left <= r.size

LEMMA LeftStep ==
    ASSUME Typed, \A w \in Workers : LeftWithin(req[w]), [Next]_vars
    PROVE  \A w \in Workers : LeftWithin(req'[w])
<1>1. /\ req \in [Workers -> Request]
      /\ \A w \in Workers : req[w].left \in Nat /\ req[w].size \in Nat
  BY MediaSagaAssumption DEF Typed, Request
<1>2. LeftWithin(Idle)
  BY DEF LeftWithin, Idle
<1>3. ASSUME NEW w \in Workers, Step(w) PROVE \A v \in Workers : LeftWithin(req'[v])
  <2>1. LeftWithin(req[w]) /\ req[w].left \in Nat /\ req[w].size \in Nat /\ req[w] \in Request
    BY <1>1
  <2>2. CASE Begin(w)
    <3>1. PICK q : q = [Idle EXCEPT !.stage = "upload", !.id = begun + 1]
      OBVIOUS
    <3>2. LeftWithin(q) /\ req' = [req EXCEPT ![w] = q]
      BY <2>2, <3>1 DEF Begin, Idle, LeftWithin
    <3>3. QED
      BY <1>1, <3>2
  <2>3. ASSUME NEW n \in Nat, At(w, "upload"),
               req' = [req EXCEPT ![w].stage = "delete", ![w].size = n]
        PROVE  \A v \in Workers : LeftWithin(req'[v])
    BY <1>1, <2>1, <2>3 DEF LeftWithin, At, Request
  <2>4. ASSUME Ends(w) PROVE \A v \in Workers : LeftWithin(req'[v])
    BY <1>1, <1>2, <2>4 DEF Ends
  <2>5. ASSUME Compensates(w) PROVE \A v \in Workers : LeftWithin(req'[v])
    BY <1>1, <2>1, <2>5 DEF Compensates, LeftWithin, Request
  <2>6. ASSUME NEW stage \in {"reload", "project"}, Goes(w, stage), ~At(w, "compensate")
        PROVE  \A v \in Workers : LeftWithin(req'[v])
    BY <1>1, <2>1, <2>6 DEF Goes, LeftWithin, Request, At
  <2>7. CASE Upload(w)
    <3>1. PICK n \in 0 .. sent[req[w].id] :
             \/ req' = [req EXCEPT ![w].stage = "delete", ![w].size = n]
             \/ Ends(w)
      BY <2>7 DEF Upload
    <3>2. n \in Nat
      BY <3>1
    <3>3. QED
      BY <2>3, <2>4, <2>7, <3>1, <3>2 DEF Upload
  <2>8. CASE Delete(w)
    BY <1>1, <2>1, <2>8 DEF Delete, LeftWithin, Request, At
  <2>9. CASE Commit(w)
    BY <2>6, <2>9 DEF Commit, Commits, At
  <2>10. CASE Reload(w)
    BY <2>6, <2>10 DEF Reload, At
  <2>11. CASE DeleteNext(w)
    BY <1>1, <2>1, <2>11 DEF DeleteNext, FileLeft, LeftWithin, Request, At
  <2>12. CASE ProjectFails(w)
    BY <1>1, <1>2, <2>12 DEF ProjectFails, AfterBrokerError
  <2>13. QED
    BY <1>3, <2>2, <2>4, <2>5, <2>7, <2>8, <2>9, <2>10, <2>11, <2>12 DEF Step,
       UploadFails, CommitUnanswered, WriteFails, ReloadFails, Compensated, Answer
<1>4. CASE Crash
  BY <1>2, <1>4 DEF Crash
<1>5. CASE UNCHANGED vars
  BY <1>5 DEF vars
<1>6. QED
  BY <1>3, <1>4, <1>5 DEF Next

\* Every variable stays in its type; compensation deletes no file past the first.
THEOREM SagaTypeCorrect == Spec => []TypeOK
<1> DEFINE Within == \A w \in Workers : LeftWithin(req[w])
<1>1. Init => Within
  BY DEF Init, Idle, LeftWithin
<1>2. SagaInvariant /\ Within /\ [Next]_vars => Within'
  BY LeftStep DEF SagaInvariant
<1>3. SagaInvariant /\ Within => TypeOK
  BY DEF SagaInvariant, TypeOK, LeftWithin, At
<1>4. QED
  BY <1>1, <1>2, <1>3, SagaInvariance, PTL DEF Spec

\* A row of a gig refers to a file that is gone only when the repository had given the
\* request of that file an error: an answered ReplaceMedia keeps its files.
THEOREM NoDanglingMedia == Spec => []DanglingOnlyAfterError
<1>1. SagaInvariant => DanglingOnlyAfterError
  BY DEF SagaInvariant
<1>2. QED
  BY <1>1, SagaInvariance, PTL

\* Every file in the file service was referred to by a row, belongs to a request in
\* flight, or was left behind by a failure outside of ReplaceMedia: the
\* compensation loop skips none.
THEOREM NoForgottenFiles == Spec => []LeftoversExplained
<1>1. SagaInvariant => LeftoversExplained
  BY DEF SagaInvariant
<1>2. QED
  BY <1>1, SagaInvariance, PTL

\* The gallery rows are those of one whole upload, whatever transactions race.
THEOREM GalleriesWhole == Spec => []WholeGalleries
<1>1. SagaInvariant => WholeGalleries
  BY MediaSagaAssumption DEF SagaInvariant, Typed, WholeGallery, WholeGalleries, Requests
<1>2. QED
  BY <1>1, SagaInvariance, PTL
=============================================================================
