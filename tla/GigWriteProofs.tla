---------------------------- MODULE GigWriteProofs ----------------------------
(***************************************************************************)
(* The promises of GigWrite for any set of gigs, freelancers and workers,  *)
(* any package lists and any number of requests.                           *)
(***************************************************************************)
EXTENDS GigWrite, TLAPS

-----------------------------------------------------------------------------
(***************************************************************************)
(* What the updates of a row and of a request leave.                       *)
(***************************************************************************)

\* The rows a gig starts with are rows.
LEMMA FirstRowType ==
    /\ NoRow \in Row
    /\ \A f \in Freelancers, b \in BOOLEAN : Draft(f, b) \in Row
BY DEF NoRow, Draft, Row, Anyone

\* The write of a use case yields a row that is not behind the old one.
LEMMA WrittenRowType ==
    ASSUME NEW op \in Ops, NEW row \in Row,
           NEW f \in Anyone
    PROVE  /\ WrittenRow(op, row, f) \in Row
           /\ Forward(row, WrittenRow(op, row, f)) \/ ~row.exists
BY DEF WrittenRow, DraftedRow, Named, Row, NoRow, Ops, Backfills, Forward

\* Storing the username changes nothing else.
LEMMA NamedFacts ==
    ASSUME NEW row \in Row
    PROVE  LET s == Named(row) IN
           /\ s \in Row /\ Forward(row, s) /\ s.exists = row.exists
           /\ s.owner = row.owner /\ s.status = row.status
           /\ s.basicInfo = row.basicInfo /\ s.packagesDone = row.packagesDone
BY DEF Named, Row, Forward

\* Idle is a request.
LEMMA IdleType == Idle \in Request /\ Idle.stage = "idle" /\ Idle.copy.row = NoRow
<1>1. NoCopy \in Copy /\ NoCopy.row = NoRow
  BY FirstRowType DEF NoCopy, Copy
<1>2. (CHOOSE g \in Gigs : TRUE) \in Gigs
  BY GigWriteAssumption
<1>3. QED
  BY <1>1, <1>2 DEF Idle, Request, Stages, Ops, Backfills, Anyone

\* The answer of a request is a request.
LEMMA AnsweredType ==
    ASSUME NEW r \in Request
    PROVE  /\ Answered(r) \in Request
           /\ Answered(r).stage = "ok"
           /\ Answered(r).copy.row = NoRow
           /\ Answered(r).gig = r.gig
           /\ Answered(r).op = r.op
           /\ Answered(r).wrote = r.wrote
BY IdleType DEF Answered, Request, Stages

\* Moved changes the stage alone.
LEMMA MovedFacts ==
    ASSUME NEW r \in Request, NEW stage \in Stages
    PROVE  LET s == Moved(r, stage) IN
           /\ s \in Request /\ s.stage = stage /\ s.copy = r.copy
           /\ s.op = r.op /\ s.gig = r.gig /\ s.caller = r.caller
           /\ s.recovery = r.recovery /\ s.input = r.input
           /\ s.username = r.username /\ s.wrote = r.wrote
BY DEF Moved, Request

\* Wrote changes the written version alone.
LEMMA WroteFacts ==
    ASSUME NEW r \in Request, NEW version \in Nat
    PROVE  LET s == Wrote(r, version) IN
           /\ s \in Request /\ s.wrote = version /\ s.copy = r.copy
           /\ s.op = r.op /\ s.gig = r.gig /\ s.caller = r.caller
           /\ s.recovery = r.recovery /\ s.input = r.input
           /\ s.username = r.username /\ s.stage = r.stage
BY DEF Wrote, Request

\* Saw changes the stage and the row of the copy.
LEMMA SawFacts ==
    ASSUME NEW r \in Request, NEW stage \in Stages, NEW row \in Row,
           NEW version \in Nat
    PROVE  LET s == Saw(r, stage, row, version) IN
           /\ s \in Request /\ s.stage = stage /\ s.copy.row = row
           /\ s.copy.version = version /\ s.copy.packages = r.copy.packages
           /\ s.op = r.op /\ s.gig = r.gig /\ s.caller = r.caller
           /\ s.recovery = r.recovery /\ s.input = r.input
           /\ s.username = r.username /\ s.wrote = r.wrote
BY DEF Saw, Request, Copy

\* Loaded changes the stage and the children of the copy.
LEMMA LoadedFacts ==
    ASSUME NEW r \in Request, NEW stage \in Stages, NEW list \in Seq(Package)
    PROVE  LET s == Loaded(r, stage, list) IN
           /\ s \in Request /\ s.stage = stage /\ s.copy.row = r.copy.row
           /\ s.copy.version = r.copy.version /\ s.copy.packages = list
           /\ s.op = r.op /\ s.gig = r.gig /\ s.caller = r.caller
           /\ s.recovery = r.recovery /\ s.input = r.input
           /\ s.username = r.username /\ s.wrote = r.wrote
BY DEF Loaded, Request, Copy

\* Where a request goes after its write, and with which row.
LEMMA AfterWriteFacts ==
    ASSUME NEW r \in Request, NEW row \in Row, NEW version \in Nat
    PROVE  LET s == AfterWrite(r, row, version) IN
           /\ s \in Request /\ s.gig = r.gig /\ s.op = r.op /\ s.wrote = r.wrote
           /\ r.op \in Backfills => s.stage = "ok" /\ s.copy.row = NoRow
           /\ r.op \notin Backfills => s.caller = r.caller
           /\ r.op \in {"packages", "questions"} =>
                s.stage = "reload" /\ s.copy = r.copy
           /\ r.op \notin Backfills \cup {"packages", "questions"} =>
                s.stage = "load" /\ s.copy.row = row /\ s.copy.version = version
<1>1. "reload" \in Stages /\ "load" \in Stages
  BY DEF Stages
<1>2. \A op \in Backfills : op \notin {"packages", "questions"}
  BY DEF Backfills
<1>3. CASE r.op \in {"packages", "questions"}
  <2>1. AfterWrite(r, row, version) = Moved(r, "reload") /\ r.op \notin Backfills
    BY <1>2, <1>3 DEF AfterWrite
  <2>2. QED
    BY <1>1, <1>3, <2>1, MovedFacts
<1>4. CASE r.op \in Backfills
  <2>1. AfterWrite(r, row, version) = Answered(r)
    BY <1>2, <1>4 DEF AfterWrite
  <2>2. QED
    BY <1>2, <1>4, <2>1, AnsweredType
<1>5. CASE r.op \notin Backfills \cup {"packages", "questions"}
  <2>1. AfterWrite(r, row, version) = Saw(r, "load", row, version)
    BY <1>5 DEF AfterWrite
  <2>2. QED
    BY <1>1, <1>5, <2>1, SawFacts
<1>6. QED
  BY <1>3, <1>4, <1>5

\* A new request is at its first stage, with an empty copy.
LEMMA NewRequestFacts ==
    ASSUME NEW op \in Ops, NEW g \in Gigs, NEW f \in Anyone,
           NEW recovery \in BOOLEAN, NEW input \in PackageLists \cup {<<>>},
           NEW username \in BOOLEAN
    PROVE  LET s == NewRequest(op, g, f, recovery, input, username) IN
           /\ s \in Request
           /\ s.stage = IF op = "create" THEN "write" ELSE "read"
           /\ s.op = op /\ s.gig = g /\ s.caller = f
           /\ s.copy.row = NoRow
<1>1. input \in Seq(Package)
  <2>1. PackageLists \subseteq Seq(Package) /\ <<>> \in Seq(Package)
    BY GigWriteAssumption
  <2>2. QED
    BY <2>1
<1>2. NoCopy \in Copy
  BY FirstRowType DEF NoCopy, Copy
<1>3. QED
  BY <1>1, <1>2 DEF NewRequest, Request, Stages, NoCopy
-----------------------------------------------------------------------------
(***************************************************************************)
(* Type correctness.                                                       *)
(***************************************************************************)

\* The states the service starts from are of the type.
LEMMA TypeInit == Init => TypeOK
<1> SUFFICES ASSUME Init PROVE TypeOK
  OBVIOUS
<1>1. gigs \in [Gigs -> Row]
  BY FirstRowType DEF Init
<1>2. packages \in [Gigs -> Seq(Package)]
  BY DEF Init
<1>3. req \in [Workers -> Request]
  BY IdleType DEF Init
<1>4. accepted \in 0 .. MaxRequests
  BY GigWriteAssumption DEF Init
<1>5. QED
  BY <1>1, <1>2, <1>3, <1>4 DEF Init, TypeOK

\* Replacing the request of one worker by a request keeps the type of req.
LEMMA ReqType ==
    ASSUME req \in [Workers -> Request], NEW w \in Workers, NEW r \in Request,
           req' = [req EXCEPT ![w] = r]
    PROVE  req' \in [Workers -> Request]
OBVIOUS

\* An accepted call brings these inputs.
LEMMA AcceptInput ==
    ASSUME NEW w \in Workers, Accept(w)
    PROVE  \E op \in Ops, g \in Gigs, f \in Anyone,
              recovery \in BOOLEAN, input \in PackageLists \cup {<<>>},
              username \in BOOLEAN :
             /\ op \in Backfills <=> f = NoOne
             /\ op \in Backfills => ~recovery
             /\ op = "create" => Creatable(g, f, recovery)
             /\ op # "packages" => input = <<>>
             /\ op # "publish" => ~username
             /\ allocated' = AllocatedAfter(op, g, f, recovery)
             /\ req' = [req EXCEPT ![w] = NewRequest(op, g, f, recovery, input, username)]
BY DEF Accept

\* No step leaves the type.
LEMMA TypeStep == TypeOK /\ [Next]_vars => TypeOK'
<1> SUFFICES ASSUME TypeOK, [Next]_vars PROVE TypeOK'
  OBVIOUS
<1> USE DEF TypeOK
<1>a. ASSUME NEW w \in Workers
      PROVE  /\ req[w] \in Request /\ req[w].gig \in Gigs /\ req[w].op \in Ops
             /\ req[w].input \in Seq(Package) /\ gigs[req[w].gig] \in Row
             /\ req[w].copy.row \in Row /\ req[w].copy.version \in Nat
             /\ commits[req[w].gig] \in Nat
             /\ packages[req[w].gig] \in Seq(Package)
  BY DEF Request, Copy
<1>1. ASSUME NEW w \in Workers, Accept(w) PROVE TypeOK'
  <2> PICK op \in Ops, g \in Gigs, f \in Anyone,
           recovery \in BOOLEAN, input \in PackageLists \cup {<<>>},
           username \in BOOLEAN :
        /\ op \in Backfills <=> f = NoOne
        /\ op \in Backfills => ~recovery
        /\ op = "create" => Creatable(g, f, recovery)
        /\ op # "packages" => input = <<>>
        /\ op # "publish" => ~username
        /\ allocated' = AllocatedAfter(op, g, f, recovery)
        /\ req' = [req EXCEPT ![w] = NewRequest(op, g, f, recovery, input, username)]
    BY <1>1, AcceptInput
  <2>1. req' \in [Workers -> Request]
    BY NewRequestFacts, ReqType
  <2>2. accepted' \in 0 .. MaxRequests
    BY <1>1, GigWriteAssumption DEF Accept
  <2>3. allocated' \in [Gigs -> Allocation]
    BY DEF AllocatedAfter, Allocation
  <2>4. QED
    BY <1>1, <2>1, <2>2, <2>3 DEF Accept, store, events
<1>2. ASSUME NEW w \in Workers, ReadRow(w) PROVE TypeOK'
  <2>1. Saw(req[w], "readChildren", gigs[req[w].gig], commits[req[w].gig]) \in Request
    <3>1. "readChildren" \in Stages
      BY DEF Stages
    <3>2. QED
      BY <1>a, <3>1, SawFacts
  <2>2. req' \in [Workers -> Request]
    BY <1>2, <2>1, ReqType DEF ReadRow
  <2>3. QED
    BY <1>2, <2>2 DEF ReadRow, store, history, events
<1>3. ASSUME NEW w \in Workers, ReadChildren(w) PROVE TypeOK'
  <2>1. /\ Loaded(req[w], "onboarding", packages[req[w].gig]) \in Request
        /\ Loaded(req[w], "write", packages[req[w].gig]) \in Request
    BY <1>a, LoadedFacts DEF Stages
  <2>2. req' \in [Workers -> Request]
    BY <1>3, <2>1, ReqType DEF ReadChildren
  <2>3. QED
    BY <1>3, <2>2 DEF ReadChildren, store, history, events
<1>4. ASSUME NEW w \in Workers, CheckOnboarding(w) PROVE TypeOK'
  <2>1. req' \in [Workers -> Request]
    BY <1>4, <1>a, MovedFacts, ReqType DEF CheckOnboarding, Stages
  <2>2. req[w].copy.row.owner \in Anyone
    BY <1>a DEF Row
  <2>3. QED
    BY <1>4, <2>1, <2>2 DEF CheckOnboarding, store, events
<1>5. ASSUME NEW w \in Workers, CommitWrite(w) PROVE TypeOK'
  <2> DEFINE r == req[w]
             row == WrittenRow(r.op, gigs[r.gig], r.caller)
             version == commits[r.gig] + 1
  <2>1. row \in Row /\ version \in Nat
    <3>1. req[w].caller \in Anyone
      BY <1>a DEF Request
    <3>2. QED
      BY <1>a, <3>1, WrittenRowType
  <2>2. AfterWrite(Wrote(r, version), row, version) \in Request
    <3>1. Wrote(r, version) \in Request
      BY <1>a, <2>1, WroteFacts
    <3> HIDE DEF r, row, version, TypeOK
    <3>2. QED
      BY <2>1, <3>1, AfterWriteFacts
  <2>3. req' \in [Workers -> Request]
    BY <1>5, <2>2, ReqType DEF CommitWrite
  <2>4. gigs' \in [Gigs -> Row] /\ commits' \in [Gigs -> Nat]
    BY <1>5, <1>a, <2>1 DEF CommitWrite
  <2>5. packages' \in [Gigs -> Seq(Package)]
    BY <1>5, <1>a DEF CommitWrite
  <2>6. wentLive' \in [Gigs -> SUBSET {"live", "recovery"}]
    BY <1>5, <1>a DEF CommitWrite
  <2>7. QED
    BY <1>5, <2>3, <2>4, <2>5, <2>6 DEF CommitWrite, events
<1>6. ASSUME NEW w \in Workers, ReloadRow(w) PROVE TypeOK'
  <2>1. req' \in [Workers -> Request]
    BY <1>6, <1>a, SawFacts, ReqType DEF ReloadRow, Stages
  <2>2. QED
    BY <1>6, <2>1 DEF ReloadRow, store, history, events
<1>7. ASSUME NEW w \in Workers, LoadChildren(w) PROVE TypeOK'
  <2>1. AfterLoad(req[w]) \in Stages
    BY <1>a DEF AfterLoad, Stages
  <2>2. req' \in [Workers -> Request]
    BY <1>7, <1>a, <2>1, LoadedFacts, ReqType DEF LoadChildren, ChildrenOf
  <2>3. QED
    BY <1>7, <2>2 DEF LoadChildren, store, history, events
<1>8. ASSUME NEW w \in Workers, WriteUsername(w) PROVE TypeOK'
  <2> DEFINE g == req[w].gig
             row == Named(gigs[g])
             version == commits[g] + 1
  <2>1. row \in Row /\ version \in Nat
    BY <1>a, NamedFacts
  <2>2. Saw(Wrote(req[w], version), "loadNamed", row, version) \in Request
    <3>1. Wrote(req[w], version) \in Request
      BY <1>a, <2>1, WroteFacts
    <3>2. "loadNamed" \in Stages
      BY DEF Stages
    <3>3. QED
      BY <2>1, <3>1, <3>2, SawFacts
  <2>3. req' \in [Workers -> Request]
    BY <1>8, <2>2, ReqType DEF WriteUsername
  <2>4. gigs' \in [Gigs -> Row] /\ commits' \in [Gigs -> Nat]
    BY <1>8, <1>a, <2>1 DEF WriteUsername
  <2>5. QED
    BY <1>8, <2>3, <2>4 DEF WriteUsername, history, events
<1>9. ASSUME NEW w \in Workers, LoadNamedChildren(w) PROVE TypeOK'
  <2>1. req' \in [Workers -> Request]
    BY <1>9, <1>a, LoadedFacts, ReqType DEF LoadNamedChildren, ChildrenOf, Stages
  <2>2. QED
    BY <1>9, <2>1 DEF LoadNamedChildren, store, history, events
<1>10. ASSUME NEW w \in Workers, Announce(w) PROVE TypeOK'
  <2>1. req' \in [Workers -> Request]
    BY <1>10, <1>a, MovedFacts, ReqType DEF Announce, Stages
  <2>2. announced' \in [Gigs -> Nat]
    BY <1>10, <1>a DEF Announce
  <2>3. QED
    BY <1>10, <2>1, <2>2 DEF Announce, store, history
<1>11. ASSUME NEW w \in Workers, RequestProjection(w) PROVE TypeOK'
  <2>1. req' \in [Workers -> Request]
    BY <1>11, <1>a, MovedFacts, ReqType DEF RequestProjection, Stages
  <2>2. requested' \in [Gigs -> Nat]
    BY <1>11, <1>a DEF RequestProjection, Newest
  <2>3. QED
    BY <1>11, <2>1, <2>2 DEF RequestProjection, store, history
<1>12. ASSUME NEW w \in Workers, RequestPreview(w) PROVE TypeOK'
  <2>1. req' \in [Workers -> Request]
    BY <1>12, <1>a, AnsweredType, ReqType DEF RequestPreview
  <2>2. previewed' \in [Gigs -> Nat]
    BY <1>12, <1>a DEF RequestPreview, Newest
  <2>3. QED
    BY <1>12, <2>1, <2>2 DEF RequestPreview, store, history
<1>13. ASSUME NEW w \in Workers, Fail(w) PROVE TypeOK'
  BY <1>13, IdleType, ReqType DEF Fail, store, history, events
<1>14. CASE Crash
  BY <1>14, IdleType DEF Crash, store, history, events
<1>15. CASE UNCHANGED vars
  BY <1>15 DEF vars
<1>16. QED
  BY <1>1, <1>2, <1>3, <1>4, <1>5, <1>6, <1>7, <1>8, <1>9, <1>10, <1>11,
     <1>12, <1>13, <1>14, <1>15 DEF Next, Step

-----------------------------------------------------------------------------
(***************************************************************************)
(* The inductive invariant.  A step changes the request of one worker and  *)
(* the row of one gig; what the other requests know stays true because a   *)
(* row only moves forward and a UUID keeps its freelancer.                 *)
(***************************************************************************)

\* How a row may move, with its owner.
Grows(old, new) == Forward(old, new) /\ (old.exists => new.owner = old.owner)

\* How the allocation of a UUID may move.
Keeps(old, new) ==
    old.by # "nobody" => new.by # "nobody" /\ new.freelancer = old.freelancer

\* A request stays sound while rows grow, freelancers are onboarded and UUIDs
\* are allocated around it.
LEMMA RequestFrame ==
    ASSUME NEW r \in Request, NEW row \in Row, NEW row2 \in Row,
           NEW passed, NEW passed2, NEW alloc, NEW alloc2,
           RequestSound(r, row, passed, alloc),
           Grows(row, row2), passed \subseteq passed2, Keeps(alloc, alloc2)
    PROVE  RequestSound(r, row2, passed2, alloc2)
<1>1. Behind(r.copy.row, row2)
  BY DEF RequestSound, Behind, Grows, Forward
<1>2. StageEarned(r, passed2)
  BY DEF RequestSound, StageEarned, HoldsOwn
<1>3. CreateAllocated(r, alloc2)
  BY DEF RequestSound, CreateAllocated, Keeps
<1>4. QED
  BY <1>1, <1>2, <1>3 DEF RequestSound

\* A row that is not written stays sound.
LEMMA RowFrame ==
    ASSUME NEW row \in Row, NEW list, NEW passed, NEW passed2, NEW alloc,
           NEW alloc2, NEW how,
           RowSound(row, list, passed, alloc, how),
           passed \subseteq passed2, Keeps(alloc, alloc2)
    PROVE  RowSound(row, list, passed2, alloc2, how)
BY DEF RowSound, Keeps

\* A request that has not read anything yet is sound, whatever it is about.
LEMMA FreshSound ==
    ASSUME NEW r \in Request, NEW row \in Row, NEW passed, NEW alloc,
           r.copy.row = NoRow, r.stage \in {"idle", "ok"}
    PROVE  RequestSound(r, row, passed, alloc)
<1>1. Behind(r.copy.row, row)
  BY DEF Behind, NoRow
<1>2. StageEarned(r, passed)
  BY DEF StageEarned, HoldsOwn
<1>3. QED
  BY <1>1, <1>2 DEF RequestSound, CreateAllocated

\* What a write of r owes: new is the row it leaves.
SoundWrite(r, row, new, list, passed, alloc, how) ==
    /\ Grows(row, new)
    /\ RowSound(new, IF r.op = "packages" THEN r.input ELSE list, passed,
         alloc, IF r.op = "publish"
                THEN how \cup {IF r.recovery THEN "recovery" ELSE "live"}
                ELSE how)
    /\ Behind(new, new) /\ new.exists
    /\ r.op \notin Backfills =>
         new.owner = r.caller /\ (row.exists => row.owner = r.caller)

\* The write of a sound request leaves a sound row that has grown, and the
\* row it returns is a sound copy.
LEMMA WriteSound ==
    ASSUME NEW r \in Request, NEW row \in Row, NEW list \in Seq(Package),
           NEW passed, NEW alloc, NEW how,
           RequestSound(r, row, passed, alloc),
           RowSound(row, list, passed, alloc, how), r.stage = "write"
    PROVE  SoundWrite(r, row, WrittenRow(r.op, row, r.caller), list, passed, alloc, how)
<1> DEFINE new == WrittenRow(r.op, row, r.caller)
<1> SUFFICES
      /\ Grows(row, new)
      /\ RowSound(new, IF r.op = "packages" THEN r.input ELSE list, passed,
           alloc, IF r.op = "publish"
                  THEN how \cup {IF r.recovery THEN "recovery" ELSE "live"}
                  ELSE how)
      /\ Behind(new, new) /\ new.exists
      /\ r.op \notin Backfills =>
           new.owner = r.caller /\ (row.exists => row.owner = r.caller)
  BY DEF SoundWrite
<1>1. CASE r.op = "create"
  <2>1. /\ alloc.by # "nobody" /\ r.caller = alloc.freelancer
    BY <1>1 DEF RequestSound, CreateAllocated
  <2>b. r.op \notin Backfills /\ new = DraftedRow(row, r.caller)
    BY <1>1 DEF WrittenRow, Backfills
  <2>2. CASE row.exists
    <3>1. /\ new.exists /\ new.owner = r.caller
          /\ new.status = row.status /\ new.basicInfo = row.basicInfo
          /\ new.packagesDone = row.packagesDone
          /\ new.requirementsDone = row.requirementsDone
          /\ new.username = row.username
      BY <2>2, <2>b DEF DraftedRow, Row
    <3>2. QED
      BY <1>1, <2>1, <2>2, <2>b, <3>1 DEF Grows, Forward, RowSound, Behind
  <2>3. CASE ~row.exists
    <3>1. /\ new.exists /\ new.owner = r.caller
          /\ new.status = "draft" /\ ~new.basicInfo /\ ~new.packagesDone
      BY <2>3, <2>b DEF DraftedRow, NoRow
    <3>2. how = {}
      BY <2>3 DEF RowSound
    <3>3. RowSound(new, list, passed, alloc, how)
      BY <2>1, <3>1, <3>2 DEF RowSound
    <3>4. Behind(new, new)
      BY <3>1 DEF Behind
    <3>5. Forward(row, new)
      BY <2>3 DEF RowSound, Forward, NoRow
    <3>6. QED
      BY <1>1, <2>3, <3>1, <3>3, <3>4, <3>5 DEF Grows
  <2>4. QED
    BY <2>2, <2>3
<1>2. CASE r.op \in {"basicInfo", "packages", "questions", "publish"}
  <2>1. /\ row.exists /\ row.owner = r.caller
    BY <1>2 DEF RequestSound, StageEarned, HoldsOwn, Behind, Backfills
  <2>2. r.op = "publish" => row.basicInfo /\ row.packagesDone
    BY DEF RequestSound, StageEarned, HoldsOwn, Behind
  <2>3. r.op = "publish" /\ ~r.recovery => row.owner \in passed
    BY <2>1 DEF RequestSound, StageEarned, HoldsOwn
  <2>4. r.op = "packages" => ValidPackages(r.input)
    BY DEF RequestSound, StageEarned, HoldsOwn
  <2>5. /\ new.exists = row.exists /\ new.owner = row.owner
        /\ new.status = IF r.op = "publish" THEN "published" ELSE row.status
        /\ new.basicInfo = (row.basicInfo \/ r.op = "basicInfo")
        /\ new.packagesDone = (row.packagesDone \/ r.op = "packages")
        /\ new.requirementsDone = (row.requirementsDone \/ r.op = "questions")
        /\ new.username = row.username
    BY <1>2 DEF WrittenRow, Row, Backfills
  <2>6. Grows(row, new)
    BY <2>5 DEF Grows, Forward
  <2>7. Behind(new, new)
    BY <2>2, <2>5 DEF Behind, RowSound
  <2>8. RowSound(new, IF r.op = "packages" THEN r.input ELSE list, passed,
                alloc, IF r.op = "publish"
                       THEN how \cup {IF r.recovery THEN "recovery" ELSE "live"}
                       ELSE how)
    BY <2>1, <2>2, <2>3, <2>4, <2>5 DEF RowSound
  <2>9. QED
    BY <2>1, <2>5, <2>6, <2>7, <2>8
<1>3. CASE r.op \in Backfills
  <2>1. /\ new = Named(row) /\ r.op # "publish" /\ r.op # "packages"
    BY <1>3 DEF WrittenRow, Backfills
  <2>2. /\ new.exists = row.exists /\ new.owner = row.owner
        /\ new.status = row.status /\ new.basicInfo = row.basicInfo
        /\ new.packagesDone = row.packagesDone /\ Forward(row, new)
    BY <2>1, NamedFacts
  <2>3. row.exists
    BY <1>3 DEF RequestSound, StageEarned, Behind, Backfills
  <2>4. Grows(row, new)
    BY <2>2 DEF Grows
  <2>5. Behind(new, new)
    BY <2>2 DEF Behind, RowSound
  <2>6. RowSound(new, list, passed, alloc, how)
    BY <2>2, <2>3 DEF RowSound
  <2>7. QED
    BY <1>3, <2>1, <2>2, <2>3, <2>4, <2>5, <2>6
<1>4. QED
  BY <1>1, <1>2, <1>3 DEF Request, Ops

\* What a step does to the rows, the allocations and the onboarded set as far
\* as other requests can tell.
Around ==
    /\ \A g \in Gigs : Grows(gigs[g], gigs'[g]) /\ Keeps(allocated[g], allocated'[g])
    /\ onboarded \subseteq onboarded'

\* Replacing one request by a sound one keeps every request sound.
LEMMA RequestsSound ==
    ASSUME WriteInvariant, TypeOK', Around, NEW w \in Workers, NEW r \in Request,
           req' = [req EXCEPT ![w] = r],
           RequestSound(r, gigs'[r.gig], onboarded', allocated'[r.gig])
    PROVE  \A v \in Workers : RequestSound(req'[v], gigs'[req'[v].gig],
                                           onboarded', allocated'[req'[v].gig])
<1> SUFFICES ASSUME NEW v \in Workers
             PROVE  RequestSound(req'[v], gigs'[req'[v].gig], onboarded',
                                 allocated'[req'[v].gig])
  OBVIOUS
<1>1. CASE v = w
  <2>1. req'[v] = r
    BY <1>1 DEF WriteInvariant, TypeOK
  <2>2. QED
    BY <2>1
<1>2. CASE v # w
  <2>1. req'[v] = req[v] /\ req[v] \in Request
    BY <1>2 DEF WriteInvariant, TypeOK
  <2>2. req[v].gig \in Gigs
    BY <2>1 DEF Request
  <2>3. /\ gigs[req[v].gig] \in Row /\ gigs'[req[v].gig] \in Row
        /\ Grows(gigs[req[v].gig], gigs'[req[v].gig])
        /\ Keeps(allocated[req[v].gig], allocated'[req[v].gig])
        /\ onboarded \subseteq onboarded'
    BY <2>2 DEF WriteInvariant, TypeOK, Around
  <2>4. RequestSound(req[v], gigs[req[v].gig], onboarded, allocated[req[v].gig])
    BY DEF WriteInvariant
  <2>5. QED
    BY <2>1, <2>3, <2>4, RequestFrame
<1>3. QED
  BY <1>1, <1>2

\* A step that writes no row keeps every row sound.
LEMMA RowsSound ==
    ASSUME WriteInvariant, Around, UNCHANGED <<gigs, packages, wentLive>>
    PROVE  \A g \in Gigs : RowSound(gigs'[g], packages'[g], onboarded',
                                    allocated'[g], wentLive'[g])
<1> SUFFICES ASSUME NEW g \in Gigs
             PROVE  RowSound(gigs[g], packages[g], onboarded', allocated'[g],
                             wentLive[g])
  OBVIOUS
<1>1. RowSound(gigs[g], packages[g], onboarded, allocated[g], wentLive[g])
  BY DEF WriteInvariant
<1>2. gigs[g] \in Row
  BY DEF WriteInvariant, TypeOK
<1>3. QED
  BY <1>1, <1>2, RowFrame DEF Around

\* A step that leaves rows, allocations and onboarding alone disturbs nobody.
LEMMA AroundUnchanged ==
    ASSUME UNCHANGED <<gigs, allocated, onboarded>> PROVE Around
BY DEF Around, Grows, Forward, Keeps

\* The states the service starts from satisfy the invariant.
LEMMA InvariantInit == Init => WriteInvariant
<1> SUFFICES ASSUME Init PROVE WriteInvariant
  OBVIOUS
<1>1. TypeOK
  BY TypeInit
<1>2. ASSUME NEW g \in Gigs
      PROVE  RowSound(gigs[g], packages[g], onboarded, allocated[g], wentLive[g])
  <2>1. /\ wentLive[g] = {}
        /\ allocated[g].freelancer = gigs[g].owner
        /\ allocated[g].by = "nobody" <=> ~gigs[g].exists
    BY DEF Init
  <2>2. \/ gigs[g] = NoRow
        \/ \E f \in Freelancers, b \in BOOLEAN : gigs[g] = Draft(f, b)
    BY DEF Init
  <2>3. /\ gigs[g].status = "draft" /\ ~gigs[g].packagesDone
        /\ ~gigs[g].exists => gigs[g] = NoRow
    <3>1. /\ NoRow.status = "draft" /\ ~NoRow.packagesDone
      BY DEF NoRow
    <3>2. ASSUME NEW f \in Freelancers, NEW b \in BOOLEAN
          PROVE  /\ Draft(f, b).status = "draft" /\ ~Draft(f, b).packagesDone
                 /\ Draft(f, b).exists
      BY DEF NoRow, Draft
    <3>3. QED
      BY <2>2, <3>1, <3>2
  <2>4. QED
    BY <2>1, <2>3 DEF RowSound
<1>3. ASSUME NEW w \in Workers
      PROVE  RequestSound(req[w], gigs[req[w].gig], onboarded,
                          allocated[req[w].gig])
  <2>1. req[w] = Idle
    BY DEF Init
  <2>2. gigs[req[w].gig] \in Row
    BY <1>1, <2>1, IdleType DEF TypeOK, Request
  <2>3. QED
    BY <2>1, <2>2, IdleType, FreshSound
<1>4. QED
  BY <1>1, <1>2, <1>3 DEF WriteInvariant

\* No step breaks the invariant.
LEMMA InvariantStep == WriteInvariant /\ [Next]_vars => WriteInvariant'
<1> SUFFICES ASSUME WriteInvariant, [Next]_vars PROVE WriteInvariant'
  OBVIOUS
<1> DEFINE Rows == \A g \in Gigs : RowSound(gigs'[g], packages'[g], onboarded',
                                            allocated'[g], wentLive'[g])
           Sound(r) == RequestSound(r, gigs'[r.gig], onboarded', allocated'[r.gig])
           Requests == \A v \in Workers : Sound(req'[v])
<1>t. TypeOK /\ TypeOK'
  BY TypeStep DEF WriteInvariant
<1>a. ASSUME NEW w \in Workers
      PROVE  /\ req[w] \in Request /\ req[w].gig \in Gigs /\ req[w].op \in Ops
             /\ gigs[req[w].gig] \in Row /\ req[w].copy.row \in Row
             /\ req[w].copy.version \in Nat /\ commits[req[w].gig] \in Nat
             /\ packages[req[w].gig] \in Seq(Package)
             /\ RequestSound(req[w], gigs[req[w].gig], onboarded,
                             allocated[req[w].gig])
             /\ RowSound(gigs[req[w].gig], packages[req[w].gig], onboarded,
                         allocated[req[w].gig], wentLive[req[w].gig])
  <2>1. req[w] \in Request /\ req[w].gig \in Gigs
    BY <1>t DEF TypeOK, Request
  <2>2. QED
    BY <1>t, <2>1 DEF TypeOK, WriteInvariant, Request, Copy
<1>z. Rows /\ Requests => WriteInvariant'
  BY <1>t DEF WriteInvariant
<1> HIDE DEF Rows, Requests
\* A step that only changes the request of w, to a sound one.
<1>q. ASSUME NEW w \in Workers, NEW r \in Request,
             UNCHANGED <<gigs, packages, wentLive, allocated, onboarded>>,
             req' = [req EXCEPT ![w] = r], Sound(r)
      PROVE  WriteInvariant'
  <2>1. Around
    BY <1>q, AroundUnchanged
  <2>2. Rows
    BY <1>q, <2>1, RowsSound DEF Rows
  <2>3. Requests
    BY <1>q, <1>t, <2>1, RequestsSound DEF Requests
  <2>4. QED
    BY <1>z, <2>2, <2>3
\* The children loaded beside a row are those of a row at least as complete.
<1>l. ASSUME NEW w \in Workers, NEW s \in {"preview", "username", "announce", "project"},
             UNCHANGED <<gigs, packages, wentLive, allocated, onboarded>>,
             \/ req[w].stage = "load"
             \/ req[w].stage = "loadNamed" /\ s = "announce",
             req' = [req EXCEPT ![w] = Loaded(req[w], s, packages[req[w].gig])]
      PROVE  WriteInvariant'
  <2> DEFINE r == Loaded(req[w], s, packages[req[w].gig])
  <2>1. /\ r \in Request /\ r.stage = s /\ r.copy.packages = packages[req[w].gig]
        /\ r.copy.row = req[w].copy.row /\ r.gig = req[w].gig
        /\ r.op = req[w].op /\ r.caller = req[w].caller
    <3>1. s \in Stages
      BY DEF Stages
    <3>2. QED
      BY <1>a, <3>1, LoadedFacts
  <2> HIDE DEF r
  <2>2. Behind(r.copy.row, gigs[r.gig])
    BY <1>a, <2>1 DEF RequestSound
  <2>3. Complete(r.copy)
    BY <1>a, <2>1, <2>2 DEF Complete, Behind, RowSound
  <2>4. StageEarned(r, onboarded)
    <3>1. s = "username" => r.copy.row.exists /\ r.copy.row.owner = r.caller
      BY <1>a, <1>l, <2>1 DEF RequestSound, StageEarned, HoldsOwn
    <3>2. QED
      BY <2>1, <2>3, <3>1 DEF StageEarned, HoldsOwn
  <2>5. CreateAllocated(r, allocated[r.gig])
    BY <1>a, <1>l, <2>1 DEF CreateAllocated, RequestSound
  <2>6. Sound(r)
    BY <1>l, <2>2, <2>4, <2>5 DEF RequestSound
  <2>7. QED
    BY <1>l, <1>q, <2>1, <2>6 DEF r
\* The same for a stage that earns nothing new, with the old copy.
<1>m. ASSUME NEW w \in Workers, NEW r \in Request,
             UNCHANGED <<gigs, packages, wentLive, allocated, onboarded>>,
             req' = [req EXCEPT ![w] = r],
             req[w].stage \in {"announce", "project"},
             r = Moved(req[w], r.stage), r.stage \in {"project", "preview"}
      PROVE  WriteInvariant'
  <2>1. /\ r.copy = req[w].copy /\ r.gig = req[w].gig /\ r.op = req[w].op
        /\ r.caller = req[w].caller
    BY <1>m, <1>a, MovedFacts DEF Stages
  <2>2. RequestSound(req[w], gigs[req[w].gig], onboarded, allocated[req[w].gig])
    BY <1>a
  <2>3. Sound(r)
    BY <1>m, <2>1, <2>2 DEF RequestSound, Behind, StageEarned, HoldsOwn, CreateAllocated
  <2>4. QED
    BY <1>m, <1>q, <2>3
<1>1. ASSUME NEW w \in Workers, Accept(w) PROVE WriteInvariant'
  <2> PICK op \in Ops, g \in Gigs, f \in Anyone,
           recovery \in BOOLEAN, input \in PackageLists \cup {<<>>},
           username \in BOOLEAN :
        /\ op \in Backfills <=> f = NoOne
        /\ op \in Backfills => ~recovery
        /\ op = "create" => Creatable(g, f, recovery)
        /\ op # "packages" => input = <<>>
        /\ op # "publish" => ~username
        /\ allocated' = AllocatedAfter(op, g, f, recovery)
        /\ req' = [req EXCEPT ![w] = NewRequest(op, g, f, recovery, input, username)]
    BY <1>1, AcceptInput
  <2>a. PICK r : r = NewRequest(op, g, f, recovery, input, username)
    OBVIOUS
  <2>1. /\ r \in Request
        /\ r.stage = IF op = "create" THEN "write" ELSE "read"
        /\ r.op = op /\ r.gig = g /\ r.caller = f /\ r.copy.row = NoRow
    BY <2>a, NewRequestFacts
  <2>2. UNCHANGED <<gigs, packages, wentLive, onboarded>>
    BY <1>1 DEF Accept, store
  <2>3. \A h \in Gigs : Keeps(allocated[h], allocated'[h])
    BY <1>t DEF TypeOK, Keeps, AllocatedAfter, Creatable, Allocation
  <2>4. Around
    BY <2>2, <2>3 DEF Around, Grows, Forward
  <2>5. CreateAllocated(r, allocated'[g])
    BY <1>t, <2>1 DEF TypeOK, CreateAllocated, AllocatedAfter, Allocation
  <2>6. Behind(r.copy.row, gigs'[g])
    BY <2>1 DEF Behind, NoRow
  <2>7. StageEarned(r, onboarded')
    BY <2>1 DEF StageEarned, HoldsOwn
  <2>8. Sound(r)
    BY <2>1, <2>5, <2>6, <2>7 DEF RequestSound
  <2>9. Rows
    BY <2>2, <2>4, RowsSound DEF Rows
  <2>10. Requests
    BY <1>t, <2>a, <2>1, <2>4, <2>8, RequestsSound DEF Requests
  <2>11. QED
    BY <1>z, <2>9, <2>10
<1>2. ASSUME NEW w \in Workers, ReadRow(w) PROVE WriteInvariant'
  <2> DEFINE r == Saw(req[w], "readChildren", gigs[req[w].gig], commits[req[w].gig])
  <2>1. /\ r \in Request /\ r.stage = "readChildren"
        /\ r.copy.row = gigs[req[w].gig] /\ r.gig = req[w].gig
        /\ r.op = req[w].op /\ r.caller = req[w].caller
    <3>1. "readChildren" \in Stages
      BY DEF Stages
    <3>2. QED
      BY <1>a, <3>1, SawFacts
  <2> HIDE DEF r
  <2>2. UNCHANGED <<gigs, packages, wentLive, allocated, onboarded>>
    BY <1>2 DEF ReadRow, store, history
  <2>3. Behind(r.copy.row, gigs[r.gig])
    BY <1>a, <2>1 DEF Behind, RowSound
  <2>4. StageEarned(r, onboarded)
    BY <1>2, <2>1 DEF StageEarned, HoldsOwn, ReadRow
  <2>5. CreateAllocated(r, allocated[r.gig])
    BY <1>2, <1>a, <2>1 DEF CreateAllocated, RequestSound, ReadRow, At
  <2>6. Sound(r)
    BY <2>2, <2>3, <2>4, <2>5 DEF RequestSound
  <2>7. QED
    BY <1>2, <1>q, <2>1, <2>2, <2>6 DEF ReadRow, r
<1>3. ASSUME NEW w \in Workers, ReadChildren(w) PROVE WriteInvariant'
  <2> DEFINE s == IF req[w].op = "publish" /\ ~req[w].recovery
                  THEN "onboarding" ELSE "write"
             r == Loaded(req[w], s, packages[req[w].gig])
  <2>1. /\ r \in Request /\ r.stage = s
        /\ r.copy.row = req[w].copy.row /\ r.gig = req[w].gig
        /\ r.op = req[w].op /\ r.caller = req[w].caller
        /\ r.recovery = req[w].recovery /\ r.input = req[w].input
    <3>1. s \in Stages
      BY DEF Stages
    <3>2. QED
      BY <1>a, <3>1, LoadedFacts
  <2> HIDE DEF r
  <2>2. /\ UNCHANGED <<gigs, packages, wentLive, allocated, onboarded>>
        /\ req' = [req EXCEPT ![w] = r]
        /\ req[w].stage = "readChildren"
    BY <1>3 DEF ReadChildren, At, store, history, r
  <2>3. req[w].op \notin Backfills => req[w].copy.row.owner = req[w].caller
    BY <1>3 DEF ReadChildren, Owned
  <2>4. req[w].op = "packages" => ValidPackages(req[w].input)
    BY <1>3 DEF ReadChildren, InputAccepted
  <2>5. req[w].op = "publish" =>
          req[w].copy.row.basicInfo /\ req[w].copy.row.packagesDone
    <3>1. SUFFICES ASSUME req[w].op = "publish"
                   PROVE  req[w].copy.row.basicInfo /\ req[w].copy.row.packagesDone
      OBVIOUS
    <3>2. PublishReady([req[w].copy EXCEPT !.packages = packages[req[w].gig]])
      BY <1>3, <3>1 DEF ReadChildren, InputAccepted
    <3>3. [req[w].copy EXCEPT !.packages = packages[req[w].gig]].row = req[w].copy.row
      BY <1>a DEF Request, Copy
    <3>4. QED
      BY <3>2, <3>3 DEF PublishReady
  <2>6. Behind(r.copy.row, gigs[r.gig])
    BY <1>a, <2>1 DEF RequestSound
  <2>7. req[w].copy.row.exists
    BY <1>a, <2>2 DEF RequestSound, StageEarned, HoldsOwn
  <2>8. StageEarned(r, onboarded)
    BY <2>1, <2>3, <2>4, <2>5, <2>7 DEF StageEarned, HoldsOwn
  <2>9. CreateAllocated(r, allocated[r.gig])
    BY <1>a, <2>1, <2>2 DEF CreateAllocated, RequestSound
  <2>10. Sound(r)
    BY <2>2, <2>6, <2>8, <2>9 DEF RequestSound
  <2>11. QED
    BY <1>q, <2>1, <2>2, <2>10
<1>4. ASSUME NEW w \in Workers, CheckOnboarding(w) PROVE WriteInvariant'
  <2> DEFINE r == Moved(req[w], "write")
  <2>1. /\ r \in Request /\ r.stage = "write" /\ r.copy = req[w].copy
        /\ r.gig = req[w].gig /\ r.op = req[w].op /\ r.caller = req[w].caller
        /\ r.recovery = req[w].recovery /\ r.input = req[w].input
    BY <1>a, MovedFacts DEF Stages
  <2> HIDE DEF r
  <2>2. /\ UNCHANGED <<gigs, packages, wentLive, allocated>>
        /\ req' = [req EXCEPT ![w] = r]
        /\ req[w].stage = "onboarding"
        /\ onboarded' = onboarded \cup {req[w].copy.row.owner}
    BY <1>4 DEF CheckOnboarding, OnboardingPasses, At, store, r
  <2>3. Around
    BY <2>2 DEF Around, Grows, Forward, Keeps
  <2>4. Behind(r.copy.row, gigs[r.gig])
    BY <1>a, <2>1 DEF RequestSound
  <2>5. StageEarned(r, onboarded')
    BY <1>a, <2>1, <2>2 DEF StageEarned, HoldsOwn, RequestSound, Backfills
  <2>6. CreateAllocated(r, allocated[r.gig])
    BY <1>a, <2>1, <2>2 DEF CreateAllocated, RequestSound
  <2>7. Sound(r)
    BY <2>2, <2>4, <2>5, <2>6 DEF RequestSound
  <2>8. Rows
    BY <2>2, <2>3, RowsSound DEF Rows
  <2>9. Requests
    BY <1>t, <2>1, <2>2, <2>3, <2>7, RequestsSound DEF Requests
  <2>10. QED
    BY <1>z, <2>8, <2>9
<1>5. ASSUME NEW w \in Workers, CommitWrite(w) PROVE WriteInvariant'
  <2> DEFINE g == req[w].gig
             row == WrittenRow(req[w].op, gigs[g], req[w].caller)
             list == IF req[w].op = "packages" THEN req[w].input ELSE packages[g]
             how == IF req[w].op = "publish"
                    THEN wentLive[g] \cup {IF req[w].recovery THEN "recovery" ELSE "live"}
                    ELSE wentLive[g]
             version == commits[g] + 1
             r == AfterWrite(Wrote(req[w], version), row, version)
  <2>1. /\ Grows(gigs[g], row)
        /\ RowSound(row, list, onboarded, allocated[g], how)
        /\ Behind(row, row)
        /\ row.exists
        /\ req[w].op \notin Backfills => row.owner = req[w].caller
    <3>1. req[w].stage = "write"
      BY <1>5 DEF CommitWrite, At
    <3>2. SoundWrite(req[w], gigs[g], row, packages[g], onboarded, allocated[g],
                     wentLive[g])
      BY <1>a, <3>1, WriteSound
    <3>3. QED
      BY <3>2 DEF SoundWrite
  <2>2. /\ gigs' = [gigs EXCEPT ![g] = row]
        /\ \A h \in Gigs : packages'[h] = IF h = g THEN list ELSE packages[h]
        /\ \A h \in Gigs : wentLive'[h] = IF h = g THEN how ELSE wentLive[h]
        /\ UNCHANGED <<allocated, onboarded>>
        /\ req' = [req EXCEPT ![w] = r]
        /\ req[w].stage = "write"
    BY <1>5, <1>t DEF CommitWrite, At, TypeOK
  <2>3. row \in Row
    <3>1. req[w].caller \in Anyone
      BY <1>a DEF Request
    <3>2. QED
      BY <1>a, <3>1, WrittenRowType
  <2>4. /\ r \in Request /\ r.gig = g /\ r.op = req[w].op
        /\ r.op \in Backfills => r.stage = "ok" /\ r.copy.row = NoRow
        /\ r.op \notin Backfills =>
             /\ r.stage \in {"reload", "load"} /\ r.caller = req[w].caller
             /\ \/ r.copy.row = row
                \/ r.copy.row = req[w].copy.row /\ req[w].op # "create"
    <3>1. version \in Nat
      BY <1>a
    <3>2. /\ Wrote(req[w], version) \in Request
          /\ Wrote(req[w], version).copy = req[w].copy
          /\ Wrote(req[w], version).gig = g
          /\ Wrote(req[w], version).op = req[w].op
          /\ Wrote(req[w], version).caller = req[w].caller
      BY <1>a, <3>1, WroteFacts
    <3> HIDE DEF row, version, g
    <3>3. QED
      BY <2>3, <3>1, <3>2, AfterWriteFacts
  <2> HIDE DEF row, list, how, version, r
  <2>5. gigs'[g] = row /\ g \in Gigs
    BY <1>a, <1>t, <2>2 DEF TypeOK
  <2>6. Around
    BY <1>t, <2>1, <2>2, <2>5 DEF TypeOK, Around, Grows, Forward, Keeps
  <2>7. Rows
    <3>1. ASSUME NEW h \in Gigs, h # g
          PROVE  RowSound(gigs'[h], packages'[h], onboarded', allocated'[h],
                          wentLive'[h])
      BY <1>t, <2>2, <3>1 DEF WriteInvariant, TypeOK
    <3>2. RowSound(gigs'[g], packages'[g], onboarded', allocated'[g], wentLive'[g])
      BY <2>1, <2>2, <2>5
    <3>3. QED
      BY <3>1, <3>2 DEF Rows
  <2>8. Behind(r.copy.row, gigs'[g])
    <3>1. CASE r.op \in Backfills
      BY <2>4, <3>1 DEF Behind, NoRow
    <3>2. CASE r.op \notin Backfills
      BY <1>a, <2>1, <2>4, <2>5, <3>2 DEF RequestSound, Behind, Grows, Forward
    <3>3. QED
      BY <3>1, <3>2
  <2>9. StageEarned(r, onboarded')
    <3>1. CASE r.op \in Backfills
      BY <2>4, <3>1 DEF StageEarned, HoldsOwn
    <3>2. CASE r.op \notin Backfills
      <4>1. req[w].op # "create" => req[w].copy.row.exists
                                    /\ req[w].copy.row.owner = req[w].caller
        BY <1>a, <2>2, <2>4, <3>2 DEF RequestSound, StageEarned, HoldsOwn
      <4>2. r.copy.row.exists /\ r.copy.row.owner = r.caller
        BY <2>1, <2>4, <3>2, <4>1
      <4>3. QED
        BY <2>4, <3>2, <4>2 DEF StageEarned, HoldsOwn
    <3>3. QED
      BY <3>1, <3>2
  <2>10. CreateAllocated(r, allocated'[g])
    BY <1>a, <2>2, <2>4 DEF CreateAllocated, RequestSound, Backfills
  <2>11. Sound(r)
    BY <2>4, <2>8, <2>9, <2>10 DEF RequestSound
  <2>12. Requests
    BY <1>t, <2>2, <2>4, <2>6, <2>11, RequestsSound DEF Requests
  <2>13. QED
    BY <1>z, <2>7, <2>12
<1>6. ASSUME NEW w \in Workers, ReloadRow(w) PROVE WriteInvariant'
  <2> DEFINE r == Saw(req[w], "load", gigs[req[w].gig], commits[req[w].gig])
  <2>1. /\ r \in Request /\ r.stage = "load"
        /\ r.copy.row = gigs[req[w].gig] /\ r.gig = req[w].gig
        /\ r.op = req[w].op /\ r.caller = req[w].caller
    <3>1. "load" \in Stages
      BY DEF Stages
    <3>2. QED
      BY <1>a, <3>1, SawFacts
  <2> HIDE DEF r
  <2>2. /\ UNCHANGED <<gigs, packages, wentLive, allocated, onboarded>>
        /\ req' = [req EXCEPT ![w] = r]
        /\ req[w].stage = "reload"
    BY <1>6 DEF ReloadRow, At, store, history, r
  <2>3. Behind(r.copy.row, gigs[r.gig])
    BY <1>a, <2>1 DEF Behind, RowSound
  <2>4. StageEarned(r, onboarded)
    <3>1. r.copy.row.exists /\ r.copy.row.owner = r.caller
      BY <1>a, <2>1, <2>2 DEF RequestSound, StageEarned, HoldsOwn, Behind
    <3>2. QED
      BY <2>1, <3>1 DEF StageEarned, HoldsOwn
  <2>5. CreateAllocated(r, allocated[r.gig])
    BY <1>a, <2>1, <2>2 DEF CreateAllocated, RequestSound
  <2>6. Sound(r)
    BY <2>2, <2>3, <2>4, <2>5 DEF RequestSound
  <2>7. QED
    BY <1>q, <2>1, <2>2, <2>6
<1>7. ASSUME NEW w \in Workers, LoadChildren(w) PROVE WriteInvariant'
  <2>1. AfterLoad(req[w]) \in {"preview", "username", "announce", "project"}
    BY DEF AfterLoad
  <2>2. UNCHANGED <<gigs, packages, wentLive, allocated, onboarded>>
    BY <1>7 DEF LoadChildren, store, history
  <2>3. QED
    BY <1>7, <1>l, <2>1, <2>2 DEF LoadChildren, ChildrenOf, At
<1>8. ASSUME NEW w \in Workers, WriteUsername(w) PROVE WriteInvariant'
  <2> DEFINE g == req[w].gig
             row == Named(gigs[g])
             version == commits[g] + 1
             r == Saw(Wrote(req[w], version), "loadNamed", row, version)
  <2>1. /\ gigs' = [gigs EXCEPT ![g] = row]
        /\ UNCHANGED <<packages, wentLive, allocated, onboarded>>
        /\ req' = [req EXCEPT ![w] = r]
        /\ req[w].stage = "username"
    BY <1>8 DEF WriteUsername, At, history
  <2>2. /\ row \in Row /\ Forward(gigs[g], row) /\ row.exists = gigs[g].exists
        /\ row.owner = gigs[g].owner /\ row.status = gigs[g].status
        /\ row.basicInfo = gigs[g].basicInfo
        /\ row.packagesDone = gigs[g].packagesDone
    BY <1>a, NamedFacts
  <2>3. /\ r \in Request /\ r.stage = "loadNamed" /\ r.copy.row = row
        /\ r.gig = g /\ r.op = req[w].op /\ r.caller = req[w].caller
    <3>1. version \in Nat
      BY <1>a
    <3>2. /\ Wrote(req[w], version) \in Request
          /\ Wrote(req[w], version).gig = g
          /\ Wrote(req[w], version).op = req[w].op
          /\ Wrote(req[w], version).caller = req[w].caller
      BY <1>a, <3>1, WroteFacts
    <3>3. "loadNamed" \in Stages
      BY DEF Stages
    <3> HIDE DEF row, version, g
    <3>4. QED
      BY <2>2, <3>1, <3>2, <3>3, SawFacts
  <2> HIDE DEF row, version, r
  <2>4. gigs'[g] = row /\ g \in Gigs
    BY <1>a, <1>t, <2>1 DEF TypeOK
  <2>5. Around
    BY <1>t, <2>1, <2>2, <2>4 DEF TypeOK, Around, Grows, Forward, Keeps
  <2>6. RowSound(gigs[g], packages[g], onboarded, allocated[g], wentLive[g])
    BY <1>a
  <2>7. gigs[g].exists
    BY <1>8 DEF WriteUsername
  <2>8. Rows
    <3>1. ASSUME NEW h \in Gigs, h # g
          PROVE  RowSound(gigs'[h], packages'[h], onboarded', allocated'[h],
                          wentLive'[h])
      BY <1>t, <2>1, <3>1 DEF WriteInvariant, TypeOK
    <3>2. RowSound(gigs'[g], packages'[g], onboarded', allocated'[g], wentLive'[g])
      <4>1. RowSound(row, packages[g], onboarded, allocated[g], wentLive[g])
        BY <2>2, <2>6, <2>7 DEF RowSound
      <4>2. QED
        BY <2>1, <2>4, <4>1
    <3>3. QED
      BY <3>1, <3>2 DEF Rows
  <2>9. Behind(r.copy.row, gigs'[g])
    BY <2>2, <2>3, <2>4, <2>6 DEF Behind, RowSound
  <2>10. StageEarned(r, onboarded')
    BY <2>3 DEF StageEarned, HoldsOwn
  <2>11. CreateAllocated(r, allocated'[g])
    BY <1>a, <2>1, <2>3 DEF CreateAllocated, RequestSound
  <2>12. Sound(r)
    BY <2>3, <2>9, <2>10, <2>11 DEF RequestSound
  <2>13. Requests
    BY <1>t, <2>1, <2>3, <2>5, <2>12, RequestsSound DEF Requests
  <2>14. QED
    BY <1>z, <2>8, <2>13
<1>9. ASSUME NEW w \in Workers, LoadNamedChildren(w) PROVE WriteInvariant'
  <2>1. UNCHANGED <<gigs, packages, wentLive, allocated, onboarded>>
    BY <1>9 DEF LoadNamedChildren, store, history
  <2>2. QED
    BY <1>9, <1>l, <2>1 DEF LoadNamedChildren, ChildrenOf, At
<1>10. ASSUME NEW w \in Workers, Announce(w) PROVE WriteInvariant'
  <2>1. Moved(req[w], "project") \in Request /\ Moved(req[w], "project").stage = "project"
    BY <1>a, MovedFacts DEF Stages
  <2>2. QED
    BY <1>10, <1>m, <2>1 DEF Announce, At, store, history
<1>11. ASSUME NEW w \in Workers, RequestProjection(w) PROVE WriteInvariant'
  <2>1. Moved(req[w], "preview") \in Request /\ Moved(req[w], "preview").stage = "preview"
    BY <1>a, MovedFacts DEF Stages
  <2>2. QED
    BY <1>11, <1>m, <2>1 DEF RequestProjection, At, store, history
<1>12. ASSUME NEW w \in Workers, RequestPreview(w) PROVE WriteInvariant'
  <2> DEFINE r == Answered(req[w])
  <2>1. /\ r \in Request /\ r.stage = "ok" /\ r.copy.row = NoRow
        /\ r.gig = req[w].gig
    BY <1>a, AnsweredType
  <2> HIDE DEF r
  <2>2. /\ UNCHANGED <<gigs, packages, wentLive, allocated, onboarded>>
        /\ req' = [req EXCEPT ![w] = r]
    BY <1>12 DEF RequestPreview, store, history, r
  <2>3. Sound(r)
    BY <1>a, <2>1, <2>2, FreshSound
  <2>4. QED
    BY <1>q, <2>1, <2>2, <2>3
<1>i. UNCHANGED gigs => Sound(Idle)
  <2>1. Idle.gig \in Gigs
    BY IdleType DEF Request
  <2>2. UNCHANGED gigs => gigs'[Idle.gig] \in Row
    BY <1>t, <2>1 DEF TypeOK
  <2>3. QED
    BY <2>2, IdleType, FreshSound
<1>13. ASSUME NEW w \in Workers, Fail(w) PROVE WriteInvariant'
  BY <1>13, <1>i, <1>q, IdleType DEF Fail, store, history
<1>14. CASE Crash
  <2>1. /\ UNCHANGED <<gigs, packages, wentLive, allocated, onboarded>>
        /\ \A v \in Workers : req'[v] = Idle
    BY <1>14 DEF Crash, store, history
  <2>2. Rows
    BY <2>1, AroundUnchanged, RowsSound DEF Rows
  <2>3. Requests
    BY <1>i, <2>1 DEF Requests
  <2>4. QED
    BY <1>z, <2>2, <2>3
<1>15. CASE UNCHANGED vars
  BY <1>15 DEF vars, WriteInvariant, TypeOK
<1>16. QED
  BY <1>1, <1>2, <1>3, <1>4, <1>5, <1>6, <1>7, <1>8, <1>9, <1>10, <1>11,
     <1>12, <1>13, <1>14, <1>15 DEF Next, Step

-----------------------------------------------------------------------------
(***************************************************************************)
(* The promises.                                                           *)
(***************************************************************************)

\* The invariant holds in every reachable state.
THEOREM Invariance == Spec => []WriteInvariant
<1>1. Init => WriteInvariant
  BY InvariantInit
<1>2. WriteInvariant /\ [Next]_vars => WriteInvariant'
  BY InvariantStep
<1>3. QED
  BY <1>1, <1>2, PTL DEF Spec

\* Every variable stays in its type.
THEOREM TypeCorrect == Spec => []TypeOK
<1>1. WriteInvariant => TypeOK
  BY DEF WriteInvariant
<1>2. QED
  BY <1>1, Invariance, PTL

\* A published gig is complete, although publish checks a copy that other
\* requests can make stale before its UPDATE.
THEOREM PublishedComplete == Spec => []PublishedIsComplete
<1>1. WriteInvariant => PublishedIsComplete
  BY DEF WriteInvariant, PublishedIsComplete, RowSound
<1>2. QED
  BY <1>1, Invariance, PTL

\* A message that says "published" carries a complete gig, although its row
\* and its packages come from separate SELECTs.
THEOREM MessageComplete == Spec => []PublishedMessageIsComplete
<1>1. WriteInvariant => PublishedMessageIsComplete
  BY DEF WriteInvariant, PublishedMessageIsComplete, RequestSound, StageEarned, HoldsOwn
<1>2. QED
  BY <1>1, Invariance, PTL

\* A gig a live request published belongs to an onboarded freelancer.
THEOREM LiveOnboarded == Spec => []LiveOnlyOnboarded
<1>1. WriteInvariant => LiveOnlyOnboarded
  BY DEF WriteInvariant, LiveOnlyOnboarded, RowSound
<1>2. QED
  BY <1>1, Invariance, PTL

\* No step takes a gig back.
THEOREM ProgressKept == Spec => ProgressIsKept
<1>1. WriteInvariant /\ [Next]_vars
        => [\A g \in Gigs : Forward(gigs[g], gigs'[g])]_gigs
  <2> SUFFICES ASSUME WriteInvariant, Next, NEW g \in Gigs, gigs' # gigs
               PROVE  Forward(gigs[g], gigs'[g])
    BY DEF vars
  <2>1. /\ gigs \in [Gigs -> Row]
        /\ \A w \in Workers : /\ req[w] \in Request /\ req[w].gig \in Gigs
                              /\ packages[req[w].gig] \in Seq(Package)
    BY DEF WriteInvariant, TypeOK, Request
  <2>2. PICK w \in Workers : CommitWrite(w) \/ WriteUsername(w)
    BY DEF Next, Step, Accept, ReadRow, ReadChildren, CheckOnboarding, ReloadRow,
           LoadChildren, LoadNamedChildren, Announce, RequestProjection,
           RequestPreview, Fail, Crash, store
  <2>3. CASE g # req[w].gig
    <3>1. gigs'[g] = gigs[g]
      BY <2>1, <2>2, <2>3 DEF CommitWrite, WriteUsername
    <3>2. QED
      BY <3>1 DEF Forward
  <2>4. CASE g = req[w].gig /\ CommitWrite(w)
    <3>1. gigs'[g] = WrittenRow(req[w].op, gigs[g], req[w].caller)
      BY <2>1, <2>4 DEF CommitWrite
    <3>2. /\ RequestSound(req[w], gigs[g], onboarded, allocated[g])
          /\ RowSound(gigs[g], packages[g], onboarded, allocated[g], wentLive[g])
          /\ req[w].stage = "write"
      BY <2>4 DEF WriteInvariant, CommitWrite, At
    <3>3. Grows(gigs[g], gigs'[g])
      BY <2>1, <2>4, <3>1, <3>2, WriteSound DEF SoundWrite
    <3>4. QED
      BY <3>3 DEF Grows
  <2>5. CASE g = req[w].gig /\ WriteUsername(w)
    <3>1. gigs'[g] = Named(gigs[g])
      BY <2>1, <2>5 DEF WriteUsername
    <3>2. QED
      BY <2>1, <3>1, NamedFacts
  <2>6. QED
    BY <2>2, <2>3, <2>4, <2>5
<1>2. QED
  BY <1>1, Invariance, PTL DEF Spec, ProgressIsKept

\* A gig changes only by a request of its owner, but for the username that an
\* order that starts on it or the warm-up stores in it.
THEOREM OwnerWrites == Spec => OnlyOwnerWrites
<1> DEFINE ByOwner(g) ==
      gigs[g].exists /\ commits'[g] # commits[g] =>
        \E w \in Workers :
           /\ req[w].gig = g /\ req'[w].wrote = commits'[g]
           /\ \/ req[w].caller = gigs[g].owner
              \/ req[w].op \in Backfills /\ OnlyNames(g)
<1>1. WriteInvariant /\ [Next]_vars => [\A g \in Gigs : ByOwner(g)]_commits
  <2> SUFFICES ASSUME WriteInvariant, Next, NEW g \in Gigs, commits' # commits,
                      gigs[g].exists, commits'[g] # commits[g]
               PROVE  \E w \in Workers :
                         /\ req[w].gig = g /\ req'[w].wrote = commits'[g]
                         /\ \/ req[w].caller = gigs[g].owner
                            \/ req[w].op \in Backfills /\ OnlyNames(g)
    BY DEF vars
  <2>1. /\ gigs \in [Gigs -> Row] /\ commits \in [Gigs -> Nat]
        /\ req \in [Workers -> Request]
    BY DEF WriteInvariant, TypeOK
  <2>2. PICK w \in Workers : CommitWrite(w) \/ WriteUsername(w)
    BY DEF Next, Step, Accept, ReadRow, ReadChildren, CheckOnboarding, ReloadRow,
           LoadChildren, LoadNamedChildren, Announce, RequestProjection,
           RequestPreview, Fail, Crash, store
  <2>3. req[w].gig = g
    BY <2>1, <2>2 DEF CommitWrite, WriteUsername
  <2>4. /\ RequestSound(req[w], gigs[g], onboarded, allocated[g])
        /\ RowSound(gigs[g], packages[g], onboarded, allocated[g], wentLive[g])
        /\ packages[g] \in Seq(Package) /\ gigs[g] \in Row
        /\ req[w] \in Request /\ commits[g] + 1 \in Nat
    BY <2>1, <2>3 DEF WriteInvariant, TypeOK
  <2>5. commits'[g] = commits[g] + 1
    BY <2>1, <2>2, <2>3 DEF CommitWrite, WriteUsername
  <2>6. CASE CommitWrite(w)
    <3>1. req[w].op \notin Backfills => req[w].caller = gigs[g].owner
      <4>1. req[w].stage = "write"
        BY <2>6 DEF CommitWrite, At
      <4>2. SoundWrite(req[w], gigs[g], WrittenRow(req[w].op, gigs[g], req[w].caller),
                       packages[g], onboarded, allocated[g], wentLive[g])
        BY <2>4, <4>1, WriteSound
      <4>3. QED
        BY <2>4, <4>2 DEF SoundWrite
    <3>2. req[w].op \in Backfills => OnlyNames(g)
      <4>1. SUFFICES ASSUME req[w].op \in Backfills PROVE OnlyNames(g)
        OBVIOUS
      <4>2. gigs'[g] = WrittenRow(req[w].op, gigs[g], req[w].caller)
            /\ UNCHANGED packages
        BY <2>1, <2>3, <2>6, <4>1 DEF CommitWrite, Backfills
      <4>3. gigs'[g] = Named(gigs[g])
        BY <4>1, <4>2 DEF WrittenRow, Backfills
      <4>4. QED
        BY <4>2, <4>3 DEF OnlyNames
    <3>3. req'[w].wrote = commits[g] + 1
      <4> DEFINE row == WrittenRow(req[w].op, gigs[g], req[w].caller)
                 r == Wrote(req[w], commits[g] + 1)
      <4>1. row \in Row
        BY <2>4, WrittenRowType DEF Request
      <4>2. r \in Request /\ r.wrote = commits[g] + 1
        BY <2>4, WroteFacts
      <4>3. req'[w] = AfterWrite(r, row, commits[g] + 1)
        BY <2>1, <2>3, <2>6 DEF CommitWrite
      <4> HIDE DEF row, r
      <4>4. AfterWrite(r, row, commits[g] + 1).wrote = r.wrote
        BY <2>4, <4>1, <4>2, AfterWriteFacts
      <4>5. QED
        BY <4>2, <4>3, <4>4
    <3>4. QED
      BY <2>3, <2>5, <3>1, <3>2, <3>3
  <2>7. CASE WriteUsername(w)
    <3>1. req[w].caller = gigs[g].owner
      BY <2>4, <2>7 DEF WriteUsername, At, RequestSound, StageEarned, HoldsOwn, Behind
    <3>2. req'[w].wrote = commits[g] + 1
      <4> DEFINE row == Named(gigs[g])
                 r == Wrote(req[w], commits[g] + 1)
      <4>1. row \in Row
        BY <2>4, NamedFacts
      <4>2. r \in Request /\ r.wrote = commits[g] + 1
        BY <2>4, WroteFacts
      <4>3. "loadNamed" \in Stages
        BY DEF Stages
      <4>4. req'[w] = Saw(r, "loadNamed", row, commits[g] + 1)
        BY <2>1, <2>3, <2>7 DEF WriteUsername
      <4> HIDE DEF row, r
      <4>5. QED
        BY <2>4, <4>1, <4>2, <4>3, <4>4, SawFacts
    <3>3. QED
      BY <2>3, <2>5, <3>1, <3>2
  <2>8. QED
    BY <2>2, <2>6, <2>7
<1>2. QED
  BY <1>1, Invariance, PTL DEF Spec, OnlyOwnerWrites

-----------------------------------------------------------------------------
(***************************************************************************)
(* What was asked for when a request is answered.                          *)
(***************************************************************************)

\* From its write on, a request holds a copy that has it, or will read one: version is
\* that of the row, asked and shown those on the projection topics.
AnswerEarned(r, version, asked, shown) ==
    /\ r.stage = "reload" => r.wrote <= version
    /\ r.stage \in {"load", "username", "loadNamed", "announce", "project", "preview"} =>
         r.wrote <= r.copy.version
    /\ r.stage = "preview" /\ r.op # "create" => r.wrote <= asked
    /\ r.stage = "ok" /\ r.op \notin Backfills =>
         r.wrote <= shown /\ (r.op # "create" => r.wrote <= asked)

AnswerOf(w) == AnswerEarned(req[w], commits[req[w].gig], requested[req[w].gig],
                            previewed[req[w].gig])

AnswerInvariant == \A w \in Workers : AnswerOf(w)

\* Of two versions a topic keeps the newer.
LEMMA NewestBounds ==
    ASSUME NEW known \in Nat, NEW version \in Nat
    PROVE  /\ Newest(known, version) \in Nat
           /\ known <= Newest(known, version) /\ version <= Newest(known, version)
BY DEF Newest

\* Versions only grow.
LEMMA VersionsGrow ==
    ASSUME TypeOK, [Next]_vars
    PROVE  \A g \in Gigs : /\ commits[g] \in Nat /\ commits'[g] \in Nat
                           /\ requested[g] \in Nat /\ requested'[g] \in Nat
                           /\ previewed[g] \in Nat /\ previewed'[g] \in Nat
                           /\ commits[g] <= commits'[g]
                           /\ requested[g] <= requested'[g]
                           /\ previewed[g] <= previewed'[g]
<1>1. TypeOK'
  BY TypeStep
<1>2. \A g \in Gigs : /\ commits[g] \in Nat /\ commits'[g] \in Nat
                      /\ requested[g] \in Nat /\ requested'[g] \in Nat
                      /\ previewed[g] \in Nat /\ previewed'[g] \in Nat
  BY <1>1 DEF TypeOK
<1>3. /\ commits \in [Gigs -> Nat] /\ requested \in [Gigs -> Nat]
      /\ previewed \in [Gigs -> Nat]
      /\ \A w \in Workers : req[w] \in Request /\ req[w].gig \in Gigs
                            /\ req[w].copy.version \in Nat
  BY DEF TypeOK, Request, Copy
<1>4. ASSUME NEW g \in Gigs
      PROVE  commits[g] <= commits'[g] /\ requested[g] <= requested'[g]
             /\ previewed[g] <= previewed'[g]
  <2>1. ASSUME NEW w \in Workers, CommitWrite(w) \/ WriteUsername(w)
        PROVE  commits[g] <= commits'[g] /\ UNCHANGED <<requested, previewed>>
    <3>1. commits' = [commits EXCEPT ![req[w].gig] = commits[req[w].gig] + 1]
          /\ UNCHANGED <<requested, previewed>>
      BY <2>1 DEF CommitWrite, WriteUsername, events
    <3>2. QED
      BY <1>2, <1>3, <3>1
  <2>2. ASSUME NEW w \in Workers, RequestProjection(w)
        PROVE  requested[g] <= requested'[g] /\ UNCHANGED <<commits, previewed>>
    <3>1. requested' = [requested EXCEPT ![req[w].gig] =
                          Newest(requested[req[w].gig], req[w].copy.version)]
          /\ UNCHANGED <<commits, previewed>>
      BY <2>2 DEF RequestProjection, store
    <3>2. req[w].gig \in Gigs /\ req[w].copy.version \in Nat
      BY <1>3
    <3>3. CASE g = req[w].gig
      <4>1. requested'[g] = Newest(requested[g], req[w].copy.version)
        BY <1>3, <3>1, <3>3
      <4>2. requested[g] \in Nat
        BY <1>2
      <4>3. requested[g] <= Newest(requested[g], req[w].copy.version)
        BY <3>2, <4>2, NewestBounds
      <4>4. QED
        BY <3>1, <4>1, <4>3
    <3>4. CASE g # req[w].gig
      <4>1. requested'[g] = requested[g] /\ requested[g] \in Nat
        BY <1>2, <1>3, <3>1, <3>4
      <4>2. QED
        BY <3>1, <4>1
    <3>5. QED
      BY <3>3, <3>4
  <2>3. ASSUME NEW w \in Workers, RequestPreview(w)
        PROVE  previewed[g] <= previewed'[g] /\ UNCHANGED <<commits, requested>>
    <3>1. previewed' = [previewed EXCEPT ![req[w].gig] =
                          Newest(previewed[req[w].gig], req[w].copy.version)]
          /\ UNCHANGED <<commits, requested>>
      BY <2>3 DEF RequestPreview, store
    <3>2. req[w].gig \in Gigs /\ req[w].copy.version \in Nat
      BY <1>3
    <3>3. CASE g = req[w].gig
      <4>1. previewed'[g] = Newest(previewed[g], req[w].copy.version)
        BY <1>3, <3>1, <3>3
      <4>2. previewed[g] \in Nat
        BY <1>2
      <4>3. previewed[g] <= Newest(previewed[g], req[w].copy.version)
        BY <3>2, <4>2, NewestBounds
      <4>4. QED
        BY <3>1, <4>1, <4>3
    <3>4. CASE g # req[w].gig
      <4>1. previewed'[g] = previewed[g] /\ previewed[g] \in Nat
        BY <1>2, <1>3, <3>1, <3>4
      <4>2. QED
        BY <3>1, <4>1
    <3>5. QED
      BY <3>3, <3>4
  <2>4. ASSUME \A w \in Workers : ~CommitWrite(w) /\ ~WriteUsername(w)
                                  /\ ~RequestProjection(w) /\ ~RequestPreview(w)
        PROVE  UNCHANGED <<commits, requested, previewed>>
    BY <2>4 DEF Next, Step, Accept, ReadRow, ReadChildren, CheckOnboarding, ReloadRow,
       LoadChildren, LoadNamedChildren, Announce, Fail, Crash, store, events, vars
  <2>5. QED
    BY <1>2, <2>1, <2>2, <2>3, <2>4
<1>5. QED
  BY <1>2, <1>4

\* A request that does nothing keeps what it has earned.
LEMMA AnswerFrame ==
    ASSUME TypeOK, [Next]_vars, NEW w \in Workers, AnswerOf(w), req'[w] = req[w]
    PROVE  AnswerOf(w)'
<1>1. req[w].gig \in Gigs /\ req[w].wrote \in Nat
  BY DEF TypeOK, Request
<1>2. QED
  BY <1>1, VersionsGrow DEF AnswerOf, AnswerEarned

\* The stages a step of a request leads to.
LEMMA StageNames ==
    /\ "readChildren" \in Stages /\ "onboarding" \in Stages /\ "write" \in Stages
    /\ "reload" \in Stages /\ "load" \in Stages /\ "loadNamed" \in Stages
    /\ "announce" \in Stages /\ "project" \in Stages /\ "preview" \in Stages
BY DEF Stages

\* What of a request its answer is judged by, after each kind of step.
LEMMA SawVersion ==
    ASSUME NEW r \in Request, NEW stage \in Stages, NEW row \in Row,
           NEW version \in Nat, NEW s, s = Saw(r, stage, row, version)
    PROVE  s.stage = stage /\ s.copy.version = version /\ s.wrote = r.wrote
           /\ s.gig = r.gig
BY SawFacts

LEMMA LoadedVersion ==
    ASSUME NEW r \in Request, NEW stage \in Stages, NEW list \in Seq(Package),
           NEW s, s = Loaded(r, stage, list)
    PROVE  s.stage = stage /\ s.copy.version = r.copy.version /\ s.wrote = r.wrote
           /\ s.gig = r.gig /\ s.op = r.op
BY LoadedFacts

LEMMA MovedVersion ==
    ASSUME NEW r \in Request, NEW stage \in Stages, NEW s, s = Moved(r, stage)
    PROVE  s.stage = stage /\ s.copy.version = r.copy.version /\ s.wrote = r.wrote
           /\ s.gig = r.gig /\ s.op = r.op
BY MovedFacts

\* A step of the request itself.
LEMMA AnswerOwnStep ==
    ASSUME TypeOK, [Next]_vars, NEW w \in Workers, AnswerOf(w), Step(w)
    PROVE  AnswerOf(w)'
<1>a. PICK r : r = req[w]
  OBVIOUS
<1>b. PICK g : g = r.gig
  OBVIOUS
<1>c. r \in Request /\ req \in [Workers -> Request]
  BY <1>a DEF TypeOK
<1>d. /\ r.wrote \in Nat /\ r.op \in Ops /\ r.caller \in Anyone
      /\ r.copy.version \in Nat /\ g \in Gigs
  BY <1>b, <1>c DEF Request, Copy
<1>e. /\ gigs[g] \in Row /\ packages[g] \in Seq(Package) /\ commits[g] \in Nat
      /\ requested[g] \in Nat /\ previewed[g] \in Nat
  BY <1>d DEF TypeOK
<1>f. commits[g] + 1 \in Nat
  BY <1>e
<1>1. /\ r = req[w] /\ g = req[w].gig /\ g = r.gig
      /\ r \in Request /\ r.wrote \in Nat /\ r.copy.version \in Nat
      /\ r.op \in Ops /\ r.caller \in Anyone /\ g \in Gigs
      /\ gigs[g] \in Row /\ packages[g] \in Seq(Package) /\ commits[g] \in Nat
      /\ requested[g] \in Nat /\ previewed[g] \in Nat /\ commits[g] + 1 \in Nat
      /\ req \in [Workers -> Request]
  BY <1>a, <1>b, <1>c, <1>d, <1>e, <1>f
<1>2. /\ commits[g] <= commits'[g] /\ requested[g] <= requested'[g]
      /\ previewed[g] <= previewed'[g] /\ commits'[g] \in Nat /\ requested'[g] \in Nat
      /\ previewed'[g] \in Nat
  BY <1>1, VersionsGrow
<1>3. /\ r.stage = "reload" => r.wrote <= commits[g]
      /\ r.stage \in {"load", "username", "loadNamed", "announce", "project", "preview"} =>
           r.wrote <= r.copy.version
      /\ r.stage = "preview" /\ r.op # "create" => r.wrote <= requested[g]
  BY <1>1 DEF AnswerOf, AnswerEarned
<1>4. ASSUME req'[w].stage \in {"idle", "read", "readChildren", "onboarding", "write"}
      PROVE  AnswerOf(w)'
  BY <1>4 DEF AnswerOf, AnswerEarned
<1>5. ASSUME req'[w].stage \in {"load", "username", "loadNamed", "announce", "project"},
             req'[w].wrote <= req'[w].copy.version
      PROVE  AnswerOf(w)'
  BY <1>5 DEF AnswerOf, AnswerEarned
<1>6. CASE Accept(w)
  <2>1. PICK op \in Ops, h \in Gigs, f \in Anyone, recovery \in BOOLEAN,
             input \in PackageLists \cup {<<>>}, username \in BOOLEAN :
        /\ op \in Backfills <=> f = NoOne
        /\ op \in Backfills => ~recovery
        /\ op = "create" => Creatable(h, f, recovery)
        /\ op # "packages" => input = <<>>
        /\ op # "publish" => ~username
        /\ allocated' = AllocatedAfter(op, h, f, recovery)
        /\ req' = [req EXCEPT ![w] = NewRequest(op, h, f, recovery, input, username)]
    BY <1>6, AcceptInput
  <2>2. req'[w] = NewRequest(op, h, f, recovery, input, username)
    BY <1>1, <2>1
  <2>3. req'[w].stage \in {"read", "write"}
    BY <2>2, NewRequestFacts
  <2>4. QED
    BY <1>4, <2>3
<1>7. CASE ReadRow(w)
  <2>1. req'[w] = Saw(r, "readChildren", gigs[g], commits[g])
    BY <1>1, <1>7 DEF ReadRow
  <2>2. QED
    BY <1>1, <1>4, <2>1, SawVersion, StageNames
<1>8. CASE ReadChildren(w)
  <2>1. \/ req'[w] = Loaded(r, "onboarding", packages[g])
        \/ req'[w] = Loaded(r, "write", packages[g])
    BY <1>1, <1>8 DEF ReadChildren
  <2>2. QED
    BY <1>1, <1>4, <2>1, LoadedVersion, StageNames
<1>9. CASE CheckOnboarding(w)
  <2>1. req'[w] = Moved(r, "write")
    BY <1>1, <1>9 DEF CheckOnboarding
  <2>2. QED
    BY <1>1, <1>4, <2>1, MovedVersion, StageNames
<1>10. CASE CommitWrite(w)
  <2>a. PICK v : v = commits[g] + 1
    OBVIOUS
  <2>b. PICK row : row = WrittenRow(r.op, gigs[g], r.caller)
    OBVIOUS
  <2>c. PICK s : s = Wrote(r, v)
    OBVIOUS
  <2>1. s \in Request /\ s.wrote = v /\ s.gig = g /\ v \in Nat
    BY <1>1, <2>a, <2>c, WroteFacts
  <2>2. row \in Row
    BY <1>1, <2>b, WrittenRowType
  <2>3. commits'[g] = v
    BY <1>1, <1>10, <2>a DEF CommitWrite, TypeOK
  <2>4. req'[w] = AfterWrite(s, row, v)
    BY <1>1, <1>10, <2>a, <2>b, <2>c DEF CommitWrite
  <2>5. /\ req'[w].wrote = v /\ req'[w].gig = g /\ req'[w].op = s.op
        /\ s.op \in Backfills => req'[w].stage = "ok"
        /\ s.op \in {"packages", "questions"} => req'[w].stage = "reload"
        /\ s.op \notin Backfills \cup {"packages", "questions"} =>
             req'[w].stage = "load" /\ req'[w].copy.version = v
    BY <2>1, <2>2, <2>4, AfterWriteFacts
  <2>6. CASE s.op \in Backfills
    BY <2>5, <2>6 DEF AnswerOf, AnswerEarned
  <2>7. CASE s.op \in {"packages", "questions"}
    BY <2>1, <2>3, <2>5, <2>7 DEF AnswerOf, AnswerEarned
  <2>8. CASE s.op \notin Backfills \cup {"packages", "questions"}
    BY <1>5, <2>1, <2>5, <2>8
  <2>9. QED
    BY <2>6, <2>7, <2>8
<1>11. CASE ReloadRow(w)
  <2>1. req'[w] = Saw(r, "load", gigs[g], commits[g]) /\ r.stage = "reload"
    BY <1>1, <1>11 DEF ReloadRow, At
  <2>2. req'[w].stage = "load" /\ req'[w].wrote = r.wrote /\ req'[w].copy.version = commits[g]
    BY <1>1, <2>1, SawVersion, StageNames
  <2>3. QED
    BY <1>3, <1>5, <2>1, <2>2
<1>12. CASE LoadChildren(w)
  <2>1. req'[w] = Loaded(r, AfterLoad(r), packages[g]) /\ r.stage = "load"
    BY <1>1, <1>12 DEF LoadChildren, ChildrenOf, At
  <2>2. /\ AfterLoad(r) \in {"preview", "username", "announce", "project"}
        /\ AfterLoad(r) = "preview" => r.op = "create"
    BY DEF AfterLoad
  <2>3. AfterLoad(r) \in Stages
    BY <2>2 DEF Stages
  <2>4. /\ req'[w].stage = AfterLoad(r) /\ req'[w].wrote = r.wrote /\ req'[w].op = r.op
        /\ req'[w].copy.version = r.copy.version
    BY <1>1, <2>1, <2>3, LoadedVersion
  <2>5. CASE AfterLoad(r) = "preview"
    BY <1>3, <2>1, <2>2, <2>4, <2>5 DEF AnswerOf, AnswerEarned
  <2>6. CASE AfterLoad(r) # "preview"
    BY <1>3, <1>5, <2>1, <2>2, <2>4, <2>6
  <2>7. QED
    BY <2>5, <2>6
<1>13. CASE WriteUsername(w)
  <2>a. PICK v : v = commits[g] + 1
    OBVIOUS
  <2>b. PICK row : row = Named(gigs[g])
    OBVIOUS
  <2>c. PICK s : s = Wrote(r, v)
    OBVIOUS
  <2>1. s \in Request /\ s.wrote = v /\ row \in Row /\ v \in Nat
    BY <1>1, <2>a, <2>b, <2>c, WroteFacts, NamedFacts
  <2>2. req'[w] = Saw(s, "loadNamed", row, v)
    BY <1>1, <1>13, <2>a, <2>b, <2>c DEF WriteUsername
  <2>3. req'[w].stage = "loadNamed" /\ req'[w].wrote = v /\ req'[w].copy.version = v
    BY <2>1, <2>2, SawVersion, StageNames
  <2>4. QED
    BY <1>5, <2>1, <2>3
<1>14. CASE LoadNamedChildren(w)
  <2>1. req'[w] = Loaded(r, "announce", packages[g]) /\ r.stage = "loadNamed"
    BY <1>1, <1>14 DEF LoadNamedChildren, ChildrenOf, At
  <2>2. /\ req'[w].stage = "announce" /\ req'[w].wrote = r.wrote
        /\ req'[w].copy.version = r.copy.version
    BY <1>1, <2>1, LoadedVersion, StageNames
  <2>3. QED
    BY <1>3, <1>5, <2>1, <2>2
<1>15. CASE Announce(w)
  <2>1. req'[w] = Moved(r, "project") /\ r.stage = "announce"
    BY <1>1, <1>15 DEF Announce, At
  <2>2. /\ req'[w].stage = "project" /\ req'[w].wrote = r.wrote
        /\ req'[w].copy.version = r.copy.version
    BY <1>1, <2>1, MovedVersion, StageNames
  <2>3. QED
    BY <1>3, <1>5, <2>1, <2>2
<1>16. CASE RequestProjection(w)
  <2>1. req'[w] = Moved(r, "preview") /\ r.stage = "project"
    BY <1>1, <1>16 DEF RequestProjection, At
  <2>2. /\ req'[w].stage = "preview" /\ req'[w].wrote = r.wrote /\ req'[w].gig = g
        /\ req'[w].copy.version = r.copy.version /\ req'[w].op = r.op
    BY <1>1, <2>1, MovedVersion, StageNames
  <2>3. requested'[g] = Newest(requested[g], r.copy.version)
    BY <1>1, <1>16 DEF RequestProjection, TypeOK
  <2>4. r.wrote <= requested'[g]
    <3>1. r.wrote <= r.copy.version
      BY <1>3, <2>1
    <3>2. r.copy.version <= requested'[g] /\ requested'[g] \in Nat
      BY <1>1, <2>3, NewestBounds
    <3>3. QED
      BY <1>1, <3>1, <3>2
  <2>5. QED
    BY <1>3, <2>1, <2>2, <2>4 DEF AnswerOf, AnswerEarned
<1>17. CASE RequestPreview(w)
  <2>1. req'[w] = Answered(r) /\ r.stage = "preview"
    BY <1>1, <1>17 DEF RequestPreview, At
  <2>2. /\ req'[w].stage = "ok" /\ req'[w].wrote = r.wrote /\ req'[w].gig = g
        /\ req'[w].op = r.op
    BY <1>1, <2>1, AnsweredType
  <2>3. previewed'[g] = Newest(previewed[g], r.copy.version)
    BY <1>1, <1>17 DEF RequestPreview, TypeOK
  <2>4. r.wrote <= previewed'[g]
    <3>1. r.wrote <= r.copy.version
      BY <1>3, <2>1
    <3>2. r.copy.version <= previewed'[g] /\ previewed'[g] \in Nat
      BY <1>1, <2>3, NewestBounds
    <3>3. QED
      BY <1>1, <3>1, <3>2
  <2>5. r.op # "create" => r.wrote <= requested'[g]
    BY <1>1, <1>2, <1>3, <2>1
  <2>6. QED
    BY <2>2, <2>4, <2>5 DEF AnswerOf, AnswerEarned
<1>18. CASE Fail(w)
  <2>1. req'[w] = Idle
    BY <1>1, <1>18 DEF Fail
  <2>2. QED
    BY <1>4, <2>1, IdleType
<1>19. QED
  BY <1>6, <1>7, <1>8, <1>9, <1>10, <1>11, <1>12, <1>13, <1>14, <1>15, <1>16, <1>17, <1>18
     DEF Step

LEMMA AnswerStep ==
    ASSUME TypeOK, AnswerInvariant, [Next]_vars
    PROVE  AnswerInvariant'
<1>1. req \in [Workers -> Request]
  BY DEF TypeOK
<1>2. CASE UNCHANGED vars
  BY <1>2, AnswerFrame DEF vars, AnswerInvariant
<1>3. CASE Crash
  <2>1. \A w \in Workers : req'[w] = Idle
    BY <1>3 DEF Crash
  <2>2. QED
    BY <2>1, IdleType DEF AnswerInvariant, AnswerOf, AnswerEarned
<1>4. ASSUME NEW w \in Workers, Step(w) PROVE AnswerInvariant'
  <2>1. \A u \in Workers : u # w => req'[u] = req[u]
    BY <1>1, <1>4 DEF Step, Accept, ReadRow, ReadChildren, CheckOnboarding, CommitWrite,
       ReloadRow, LoadChildren, WriteUsername, LoadNamedChildren, Announce,
       RequestProjection, RequestPreview, Fail
  <2>2. QED
    BY <1>4, <2>1, AnswerFrame, AnswerOwnStep DEF AnswerInvariant
<1>5. QED
  BY <1>2, <1>3, <1>4 DEF Next

LEMMA AnswerInit == Init => AnswerInvariant
BY IdleType DEF Init, AnswerInvariant, AnswerOf, AnswerEarned

\* Who is answered without error has asked for projections of what it wrote.
THEOREM AnswersAreRequested == Spec => []AnswerMeansRequested
<1>1. TypeOK /\ AnswerInvariant => AnswerMeansRequested
  <2> SUFFICES ASSUME TypeOK, AnswerInvariant, NEW w \in Workers,
                      req[w].stage = "ok", req[w].op \notin Backfills
               PROVE  /\ previewed[req[w].gig] >= req[w].wrote
                      /\ req[w].op # "create" => requested[req[w].gig] >= req[w].wrote
    BY DEF AnswerMeansRequested
  <2>1. req[w].gig \in Gigs /\ req[w].wrote \in Nat
    BY DEF TypeOK, Request
  <2>2. previewed[req[w].gig] \in Nat /\ requested[req[w].gig] \in Nat
    BY <2>1 DEF TypeOK
  <2>3. QED
    BY <2>1, <2>2 DEF AnswerInvariant, AnswerOf, AnswerEarned
<1>2. Spec => []AnswerInvariant
  BY AnswerInit, AnswerStep, TypeCorrect, PTL DEF Spec
<1>3. QED
  BY <1>1, <1>2, TypeCorrect, PTL
=============================================================================
