---------------------------- MODULE ProfileSettings ----------------------------
(* The account tabs of the settings page: the profile form, the photo with its  *)
(* optimistic preview, and the list of sessions. The photo is kept three times: *)
(* by the backend, in the stored user, and as the preview.                      *)
EXTENDS PageCalls

CONSTANT Photos

VARIABLE ui

NoPhoto == "none"
Pictures == Photos \cup {NoPhoto}
Ops == {"phone", "upload", "remove", "save", "sessions"}

TypeOK ==
    /\ CallsOK(ui.calls, Ops, Pictures, Pictures)
    /\ ui \in [server : Pictures, stored : Pictures, preview : Pictures, edited : BOOLEAN,
               uploading : BOOLEAN, saving : BOOLEAN, listing : BOOLEAN, overlap : BOOLEAN,
               failed : BOOLEAN, calls : {ui.calls}]

--------------------------------------------------------------------------------
\* The preview follows the stored user, and any change of the stored user puts
\* it into the form.
updateUser(u, photo) ==
    [u EXCEPT !.stored = photo, !.edited = FALSE,
              !.preview = IF photo # u.stored THEN photo ELSE @]

\* Without a phone in the stored user the profile is fetched.
Init ==
    \E p \in Pictures, phone \in BOOLEAN :
        LET u == [server |-> p, stored |-> p, preview |-> p, edited |-> FALSE,
                  uploading |-> FALSE, saving |-> FALSE, listing |-> FALSE,
                  overlap |-> FALSE, failed |-> FALSE, calls |-> NoCalls]
        IN  ui = IF phone THEN u ELSE Send(u, call("phone", NoPhoto))

PhotoCalls(u) == Under(u, "upload") \cup Under(u, "remove") \cup Under(u, "save")
Beside(u) == [u EXCEPT !.overlap = @ \/ PhotoCalls(u) # {}]

\* A picture that is too large or not an image is reported and goes no further.
\* The drop zone is active during an upload. The handler keeps the photo that
\* was stored when it was called.
processFile(p) ==
    /\ CanSend(ui, 1)
    /\ ui' = Send([Beside(ui) EXCEPT !.preview = p, !.uploading = TRUE],
                  [call("upload", p) EXCEPT !.got = {ui.stored}])

handleRemove ==
    /\ ui.preview # NoPhoto /\ ~ui.uploading /\ CanSend(ui, 1)
    /\ ui' = Send([Beside(ui) EXCEPT !.uploading = TRUE], call("remove", NoPhoto))

setProfile == ~ui.edited /\ ui' = [ui EXCEPT !.edited = TRUE]

saveProfile ==
    /\ ~ui.saving /\ CanSend(ui, 1)
    /\ ui' = Send([Beside(ui) EXCEPT !.saving = TRUE], call("save", NoPhoto))

loadSessions ==
    /\ ~ui.listing /\ CanSend(ui, 1)
    /\ ui' = Send([ui EXCEPT !.listing = TRUE], call("sessions", NoPhoto))

--------------------------------------------------------------------------------
Possible(u, c) == c.op = "remove" => u.server # NoPhoto
Effect(u, c) == IF c.op \in {"upload", "remove"} THEN [u EXCEPT !.server = c.id] ELSE u
\* A save answers the user, with the photo.
Got(u, c) == IF c.op = "save" THEN {u.server} ELSE c.got
Serve(i) == ui' \in Outcomes(ui, i, Possible, Effect, Got)

\* The phone is stored, and the form is filled in again.
PhoneAnswers(i) ==
    /\ Answered(ui, i, "phone")
    /\ ui' = End(IF ui.calls[i].at = "ok" THEN updateUser(ui, ui.stored) ELSE ui, i)

UploadAnswersKeepsPreview(i) ==
    /\ Answered(ui, i, "upload")
    /\ LET u == [ui EXCEPT !.uploading = FALSE]
       IN  ui' = End(IF u.calls[i].at = "ok"
                     THEN [updateUser(u, u.calls[i].id) EXCEPT !.preview = u.calls[i].id]
                     ELSE [u EXCEPT !.failed = TRUE], i)

\* A failed upload puts back the photo that was stored when it began.
UploadAnswers(i) ==
    /\ Answered(ui, i, "upload")
    /\ LET u == [ui EXCEPT !.uploading = FALSE]
       IN  ui' = End(IF u.calls[i].at = "ok"
                     THEN [updateUser(u, u.calls[i].id) EXCEPT !.preview = u.calls[i].id]
                     ELSE [u EXCEPT !.preview = Reply(u, i), !.failed = TRUE], i)

RemoveAnswers(i) ==
    /\ Answered(ui, i, "remove")
    /\ LET u == [ui EXCEPT !.uploading = FALSE]
       IN  ui' = End(IF u.calls[i].at = "ok"
                     THEN [updateUser(u, NoPhoto) EXCEPT !.preview = NoPhoto]
                     ELSE [u EXCEPT !.failed = TRUE], i)

SaveAnswers(i) ==
    /\ Answered(ui, i, "save")
    /\ LET u == [ui EXCEPT !.saving = FALSE]
       IN  ui' = End(IF u.calls[i].at = "ok" THEN updateUser(u, Reply(u, i)) ELSE u, i)

SessionsAnswer(i) == Answered(ui, i, "sessions") /\ ui' = End([ui EXCEPT !.listing = FALSE], i)

Answers ==
    \E i \in DOMAIN ui.calls :
        \/ Serve(i) \/ PhoneAnswers(i) \/ UploadAnswers(i) \/ RemoveAnswers(i)
        \/ SaveAnswers(i) \/ SessionsAnswer(i)

Next ==
    \/ Answers \/ handleRemove \/ setProfile \/ saveProfile \/ loadSessions
    \/ \E p \in Photos : processFile(p)

--------------------------------------------------------------------------------
\* A disabled button has a call under way that enables it again.
NothingLocked ==
    /\ ui.saving => Under(ui, "save") # {}
    /\ ui.listing => Under(ui, "sessions") # {}
    /\ ui.uploading => Under(ui, "upload") \cup Under(ui, "remove") # {}

OneSubmission == Cardinality(Under(ui, "save")) <= 1 /\ Cardinality(Under(ui, "sessions")) <= 1

\* With no photo under way the preview is the stored photo, also after a failure,
\* and without one it is the backend's, unless two of the calls that bring a
\* photo overlapped (the drop zone is active during an upload, and a save answers
\* a photo too).
ShownIsTrue ==
    ui.overlap \/ PhotoCalls(ui) # {}
    \/ (ui.preview = ui.stored /\ (ui.failed \/ ui.stored = ui.server))
================================================================================
