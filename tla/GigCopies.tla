------------------------------ MODULE GigCopies ------------------------------
(***************************************************************************)
(* What becomes of a gig on its way from the database to a public answer:  *)
(* the event of a write (internal/application/mapper.go), Project, which   *)
(* adds the URLs of the file service (service.go), the payload in Redis,   *)
(* and the answer (internal/presentation/grpc/mapper.go).  A read that     *)
(* finds no payload takes the short way.  PublicRead says who comes when;  *)
(* this module says what is in the copies.                                 *)
(*                                                                         *)
(* The value of a field of the row is the name of the field, with the      *)
(* position of the child it belongs to.                                    *)
(***************************************************************************)
EXTENDS Integers, Sequences

CONSTANT MaxChildren  \* bound: packages, questions and files in a gallery

ASSUME GigCopiesAssumption == MaxChildren \in Nat

VARIABLES row,     \* the gig as the database has it
          event,   \* the payload of gig.projection.requested
          stored,  \* the payload under the key of the gig in Redis
          answer,  \* the last public answer
          urls     \* history: what the file service gave when stored was made

copies == <<event, stored, answer, urls>>
copyVars == <<row, copies>>

\* The zero value of a field, and what is not there yet.
Missing == <<>>

GigFields == {"ID", "FreelancerID", "SellerUsername", "Slug", "Title", "ShortInfo",
              "Description", "CategoryID", "Currency", "Status", "BasicInfoCompleted",
              "PackagesCompleted", "RequirementsCompleted", "MediaCompleted",
              "PictureFileID", "PictureURL", "PublishedAt", "CreatedAt", "UpdatedAt"}

PackageFields == {"ID", "GigID", "Tier", "Description", "DeliveryDays", "PriceCents",
                  "SortOrder"}

QuestionFields == {"ID", "GigID", "Content", "SortOrder"}

MediaFields == {"GigID", "FileID", "URL", "SortOrder"}

Fields(record, names) == [f \in names |-> record[f]]

EachOf(children, names) == [i \in DOMAIN children |-> Fields(children[i], names)]

-----------------------------------------------------------------------------
(***************************************************************************)
(* The conversions.  An entry of a gallery carries the id of its file as   *)
(* its own id, and in Redis only so.                                       *)
(***************************************************************************)
ToPublishedPayload(gig) ==
    [fields    |-> Fields(gig.fields, GigFields),
     packages  |-> EachOf(gig.packages, PackageFields),
     questions |-> EachOf(gig.questions, QuestionFields),
     media     |-> [i \in DOMAIN gig.media |->
                      [Fields(gig.media[i], MediaFields \cup {"ID"}) EXCEPT
                          !["ID"] = gig.media[i]["FileID"]]]]

FromPublishedPayload(payload) ==
    [fields    |-> Fields(payload.fields, GigFields),
     packages  |-> EachOf(payload.packages, PackageFields),
     questions |-> EachOf(payload.questions, QuestionFields),
     media     |-> [i \in DOMAIN payload.media |->
                      [Fields(payload.media[i], MediaFields \cup {"ID"}) EXCEPT
                          !["ID"] = Missing]]]

\* Faulty: the questions, which came to the read model last, are forgotten.
NoQuestions(gig) == <<>>

QuestionsOf(gig) == EachOf(gig.questions, QuestionFields)

ToReadModelPayload(gig) ==
    [fields    |-> Fields(gig.fields, GigFields),
     packages  |-> EachOf(gig.packages, PackageFields),
     questions |-> QuestionsOf(gig),
     media     |-> [i \in DOMAIN gig.media |->
                      [f \in {"ID", "GigID", "URL", "SortOrder"} |->
                          gig.media[i][IF f = "ID" THEN "FileID" ELSE f]]]]

FromReadModelPayload(payload) ==
    [fields    |-> Fields(payload.fields, GigFields),
     packages  |-> EachOf(payload.packages, PackageFields),
     questions |-> EachOf(payload.questions, QuestionFields),
     media     |-> [i \in DOMAIN payload.media |->
                      [f \in MediaFields \cup {"ID"} |->
                          IF f = "ID" THEN Missing
                          ELSE payload.media[i][IF f = "FileID" THEN "ID" ELSE f]]]]

\* The files whose URLs Project asks for.
FilesOf(gig) ==
    ({gig.fields["PictureFileID"]} \cup {gig.media[i]["FileID"] : i \in DOMAIN gig.media})
        \ {Missing}

\* given[f] is the URL of file f; an error of the file service gives none at all.
Project(gig, given) ==
    [gig EXCEPT
        !.fields["PictureURL"] =
            IF gig.fields["PictureFileID"] = Missing THEN @ ELSE given[gig.fields["PictureFileID"]],
        !.media = [i \in DOMAIN gig.media |->
                     [f \in MediaFields \cup {"ID"} |->
                         CASE f = "ID"  -> Missing
                           [] f = "URL" -> given[gig.media[i]["FileID"]]
                           [] OTHER     -> gig.media[i][f]]]]

UrlOf(file) == <<"URL", file>>

UrlAnswers(gig) == {[f \in FilesOf(gig) |-> IF f \in known THEN UrlOf(f) ELSE Missing] :
                    known \in SUBSET FilesOf(gig)}

\* toPublicGigResponse: ids of files are not public.
ToPublic(gig) ==
    [fields    |-> Fields(gig.fields, GigFields \ {"PictureFileID"}),
     packages  |-> EachOf(gig.packages, PackageFields),
     questions |-> EachOf(gig.questions, QuestionFields),
     media     |-> EachOf(gig.media, MediaFields \ {"FileID"})]

-----------------------------------------------------------------------------
Announce ==
    /\ event = Missing
    /\ event' = <<ToPublishedPayload(row)>>
    /\ UNCHANGED <<row, stored, answer, urls>>

\* The projection; the event may come again.
Consume ==
    /\ event # Missing
    /\ LET gig == FromPublishedPayload(event[1]) IN
        \E given \in UrlAnswers(gig) :
            /\ stored' = <<ToReadModelPayload(Project(gig, given))>>
            /\ urls' = given
    /\ UNCHANGED <<row, event, answer>>

ShowStored ==
    /\ stored # Missing
    /\ answer' = <<ToPublic(FromReadModelPayload(stored[1]))>>
    /\ UNCHANGED <<row, event, stored, urls>>

ShowLoaded ==
    /\ stored = Missing
    /\ \E given \in UrlAnswers(row) :
        /\ stored' = <<ToReadModelPayload(Project(row, given))>>
        /\ answer' = <<ToPublic(Project(row, given))>>
        /\ urls' = given
    /\ UNCHANGED <<row, event>>

Rows ==
    {[fields    |-> [f \in GigFields |-> IF f = "PictureURL" THEN Missing
                                         ELSE IF f = "PictureFileID" THEN picture ELSE <<f, 0>>],
      packages  |-> [i \in 1 .. packages |-> [f \in PackageFields |-> <<f, i>>]],
      questions |-> [i \in 1 .. questions |-> [f \in QuestionFields |-> <<f, i>>]],
      media     |-> [i \in 1 .. media |-> [f \in MediaFields \cup {"ID"} |->
                                             IF f = "URL" THEN Missing ELSE <<f, i>>]]] :
        picture \in {Missing, <<"FileID", 0>>, <<"FileID", 1>>},
        packages \in 0 .. MaxChildren, questions \in 0 .. MaxChildren,
        media \in 0 .. MaxChildren}

CopyInit ==
    /\ row \in Rows
    /\ event = Missing
    /\ stored = Missing
    /\ answer = Missing
    /\ urls = Missing

CopyNext == Announce \/ Consume \/ ShowStored \/ ShowLoaded

CopySpec == CopyInit /\ [][CopyNext]_copyVars

-----------------------------------------------------------------------------
\* Every copy is there or not.
CopyTypeOK ==
    /\ row \in Rows
    /\ \A copy \in {event, stored, answer} : Len(copy) \in {0, 1}

\* What a public answer should be, field by field.
AsInRow(shown, given) ==
    /\ \A f \in GigFields \ {"PictureFileID", "PictureURL"} : shown.fields[f] = row.fields[f]
    /\ shown.packages = row.packages
    /\ shown.questions = row.questions
    /\ Len(shown.media) = Len(row.media)
    /\ \A i \in DOMAIN row.media :
        /\ shown.media[i]["URL"] = given[row.media[i]["FileID"]]
        /\ \A f \in {"GigID", "SortOrder"} : shown.media[i][f] = row.media[i][f]
    /\ row.fields["PictureFileID"] # Missing =>
        shown.fields["PictureURL"] = given[row.fields["PictureFileID"]]

\* Whichever way a copy has come, through the event or straight from the database, the
\* public sees all of the gig in it: four conversions written by hand lose no
\* field.  A URL is missing only when the file service did not give it to whoever stored
\* the copy; it then stays missing for as long as that copy is there.
CopiesShowTheRow ==
    /\ answer # Missing /\ stored # Missing =>
        \E given \in UrlAnswers(row) : AsInRow(answer[1], given)
    /\ stored # Missing => AsInRow(ToPublic(FromReadModelPayload(stored[1])), urls)
=============================================================================
