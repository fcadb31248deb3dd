------------------------------- MODULE FileUploads -------------------------------
(***************************************************************************)
(* The uploaded files of one user: a database row and an object in the     *)
(* store (R2) for each.  The API signs an upload URL and inserts a pending *)
(* row, the client puts the object in the store itself and confirms it,    *)
(* and the worker reads the extracted text of uploaded files as context    *)
(* for a plan.  Row and object are never written in one transaction, the   *)
(* URL outlives the row, and every call loads the row in one step and      *)
(* writes it in a later one.                                               *)
(***************************************************************************)
EXTENDS FiniteSets

CONSTANTS
    Files,    \* ids of file rows, and the keys of their objects; none is used twice
    Calls,    \* the calls the API serves at the same time
    Folders, Classes, Plans,  \* ids a file can be linked to
    Texts,    \* contents that text can be extracted from
    Opaque,   \* contents that yield no text: blank, damaged, an image
    None      \* NULL: no row, no object, no text, no link

VARIABLES
    rows,     \* the file table
    objects,  \* what the store holds under each object_key
    url,      \* the signed upload URL of each file
    alive,    \* the folders, classes and plans that exist
    pc,       \* where each call stands; a call that has ended is idle again
    req,      \* what the call is about
    got,      \* the text a confirmation extracted
    mishaps   \* what has gone wrong with each file (observer)

vars == <<rows, objects, url, alive, pc, req, got, mishaps>>

Targets == Folders \union Classes \union Plans

\* The columns of a file that refer to another row.
Kinds == {"folder", "class", "plan"}
Of == [folder |-> Folders, class |-> Classes, plan |-> Plans]

Links == {l \in [Kinds -> Targets \union {None}] : \A k \in Kinds : l[k] \in Of[k] \union {None}}

\* FAILED is declared and never written: a failed upload loses its row.
Row == [status: {"PENDING", "UPLOADED"}, extractable: BOOLEAN, text: Texts \union {None},
        link: Links]

ASSUME Distinct ==
    /\ None \notin Texts \union Opaque \union Folders \union Classes \union Plans
    /\ Texts \intersect Opaque = {}
    /\ Folders \intersect Classes = {} /\ Folders \intersect Plans = {}
    /\ Classes \intersect Plans = {}
    /\ \A r \in Row : r # None

Ops == {"confirm", "failed", "delete", "relink", "plan"}
Req == {r \in [op: Ops, files: SUBSET Files, kind: Kinds, to: Targets \union {None}] :
          /\ r.op = "relink" => r.to \in Of[r.kind] \union {None}
          /\ r.op = "plan" => r.kind = "plan"}
Idle == [op |-> "confirm", files |-> {}, kind |-> "folder", to |-> None]

Exists(f) == rows[f] # None

Init ==
    /\ rows = [f \in Files |-> None]
    /\ objects = [f \in Files |-> None]
    /\ url = [f \in Files |-> "unsigned"]
    /\ alive = Folders \union Classes
    /\ pc = [c \in Calls |-> "idle"]
    /\ req = [c \in Calls |-> Idle]
    /\ got = [c \in Calls |-> None]
    /\ mishaps = [f \in Files |-> {}]

-----------------------------------------------------------------------------
\* The client and the store.

\* create_upload_url signs the URL and commits the pending row under a key of its own; the
\* answer may be lost.  A link to a row that is gone violates a foreign key.
CreateUploadUrl(f) ==
    /\ url[f] = "unsigned"
    /\ \E extractable \in BOOLEAN, link \in Links :
         /\ \A k \in Kinds : link[k] \in alive \union {None}
         /\ rows' = [rows EXCEPT ![f] = [status |-> "PENDING", extractable |-> extractable,
                                         text |-> None, link |-> link]]
    /\ \E answer \in {"valid", "expired"} : url' = [url EXCEPT ![f] = answer]
    /\ UNCHANGED <<objects, alive, pc, req, got, mishaps>>

\* signed_url_ttl_seconds have passed.
ExpireUrl(f) ==
    /\ url[f] = "valid"
    /\ url' = [url EXCEPT ![f] = "expired"]
    /\ UNCHANGED <<rows, objects, alive, pc, req, got, mishaps>>

\* What a URL of the object leads to; it is signed whether or not the store has one.
Download(f) == objects[f]

InFlight(f) == \E c \in Calls : pc[c] # "idle" /\ f \in req[c].files

\* The client holds the URL and puts an object, first or again, whatever became of the row.
\* It is late when the row is not pending any more or a call about it is under way.
Put(f) ==
    /\ url[f] = "valid"
    /\ \E content \in Texts \union Opaque : objects' = [objects EXCEPT ![f] = content]
    /\ mishaps' = [mishaps EXCEPT ![f] = @ \union
          (IF Exists(f) /\ rows[f].status = "PENDING" /\ ~InFlight(f) THEN {} ELSE {"late"})]
    /\ UNCHANGED <<rows, url, alive, pc, req, got>>

-----------------------------------------------------------------------------
\* The calls.  Each begins by loading the rows it is about.

Begin(c, r) ==
    /\ pc[c] = "idle"
    /\ \A f \in r.files : Exists(f)
    /\ pc' = [pc EXCEPT ![c] = "loaded"]
    /\ req' = [req EXCEPT ![c] = r]

End(c) ==
    /\ pc' = [pc EXCEPT ![c] = "idle"]
    /\ req' = [req EXCEPT ![c] = Idle]
    /\ got' = [got EXCEPT ![c] = None]

At(c, op, stage) == req[c].op = op /\ pc[c] = stage

BeginConfirm(c, f) ==
    /\ Begin(c, [Idle EXCEPT !.op = "confirm", !.files = {f}])
    /\ mishaps' = [mishaps EXCEPT ![f] = @ \union (IF objects[f] = None THEN {"unsent"} ELSE {})]
    /\ UNCHANGED <<rows, objects, url, alive, got>>

\* extract_text: None for a content type without text, an object that cannot be downloaded
\* and contents that cannot be read.  (What is too long is cut, which is left out.)
Extracted(f, content) ==
    IF rows[f].extractable /\ content \in Texts THEN content ELSE None

\* Mutant: the text is stored as soon as it is there, and the status after it.
ExtractTextStores(c) ==
    /\ At(c, "confirm", "loaded")
    /\ pc' = [pc EXCEPT ![c] = "extracted"]
    /\ \E f \in Files : \E content \in {objects[f], None} :
         /\ req[c].files = {f} /\ Exists(f)
         /\ rows' = IF Extracted(f, content) = None THEN rows
                    ELSE [rows EXCEPT ![f].text = Extracted(f, content)]
    /\ UNCHANGED <<objects, url, alive, req, got, mishaps>>

\* The object is downloaded in a thread, with no lock on the row; the download may fail.
ExtractText(c) ==
    /\ At(c, "confirm", "loaded")
    /\ pc' = [pc EXCEPT ![c] = "extracted"]
    /\ \E f \in Files : \E content \in {Download(f), None} :
         /\ req[c].files = {f}
         /\ got' = [got EXCEPT ![c] = IF Exists(f) THEN Extracted(f, content) ELSE None]
    /\ UNCHANGED <<rows, objects, url, alive, req, mishaps>>

\* Mutant: a confirmation of a deleted file brings the row back.
CommitConfirmInserts(c) ==
    /\ At(c, "confirm", "extracted")
    /\ rows' = [f \in Files |->
          IF f \notin req[c].files THEN rows[f]
          ELSE [status |-> "UPLOADED", extractable |-> FALSE, text |-> got[c],
                link |-> [k \in Kinds |-> None]]]
    /\ End(c)
    /\ UNCHANGED <<objects, url, alive, mishaps>>

Confirmed(row, text) ==
    [row EXCEPT !.status = "UPLOADED", !.text = IF text = None THEN @ ELSE text]

\* The status, and the text if there is one, are updated; the other columns are left as
\* they are by now.  The update of a deleted row raises.
CommitConfirm(c) ==
    /\ At(c, "confirm", "extracted")
    /\ rows' = [f \in Files |->
          IF f \in req[c].files /\ Exists(f) THEN Confirmed(rows[f], got[c]) ELSE rows[f]]
    /\ End(c)
    /\ UNCHANGED <<objects, url, alive, mishaps>>

\* upload-failed removes the row, of whatever status, and leaves the store alone.
BeginFailed(c, f) ==
    /\ Begin(c, [Idle EXCEPT !.op = "failed", !.files = {f}])
    /\ UNCHANGED <<rows, objects, url, alive, got, mishaps>>

MarkUploadFailed(c) ==
    /\ At(c, "failed", "loaded")
    /\ rows' = [f \in Files |-> IF f \in req[c].files THEN None ELSE rows[f]]
    /\ mishaps' = [f \in Files |-> mishaps[f] \union
          (IF f \in req[c].files /\ objects[f] # None THEN {"abandoned"} ELSE {})]
    /\ End(c)
    /\ UNCHANGED <<objects, url, alive>>

\* delete_file removes the object first,
BeginDelete(c, f) ==
    /\ Begin(c, [Idle EXCEPT !.op = "delete", !.files = {f}])
    /\ UNCHANGED <<rows, objects, url, alive, got, mishaps>>

\* Mutant: the object is left in the store.
DeleteObjectNot(c) ==
    /\ At(c, "delete", "loaded")
    /\ pc' = [pc EXCEPT ![c] = "dropped"]
    /\ UNCHANGED <<rows, objects, url, alive, req, got, mishaps>>

DeleteObject(c) ==
    /\ At(c, "delete", "loaded")
    /\ pc' = [pc EXCEPT ![c] = "dropped"]
    /\ objects' = [f \in Files |-> IF f \in req[c].files THEN None ELSE objects[f]]
    /\ UNCHANGED <<rows, url, alive, req, got, mishaps>>

\* Mutant: the row is kept and shown without its object.
CommitDeleteNot(c) ==
    /\ At(c, "delete", "dropped")
    /\ End(c)
    /\ UNCHANGED <<rows, objects, url, alive, mishaps>>

\* then the row; it does not matter if another call was first.
CommitDelete(c) ==
    /\ At(c, "delete", "dropped")
    /\ rows' = [f \in Files |-> IF f \in req[c].files THEN None ELSE rows[f]]
    /\ End(c)
    /\ UNCHANGED <<objects, url, alive, mishaps>>

\* move_file and update_file load the row, look whether the new folder or class is there,
BeginRelink(c, f, k, to) ==
    /\ to \in alive \union {None}
    /\ to # None => to \in Of[k]
    /\ Begin(c, [op |-> "relink", files |-> {f}, kind |-> k, to |-> to])
    /\ UNCHANGED <<rows, objects, url, alive, got, mishaps>>

MoveFile(c, f, to)   == BeginRelink(c, f, "folder", to)
UpdateFile(c, f, to) == BeginRelink(c, f, "class", to)

Relinked(row, k, to) == [row EXCEPT !.link = [@ EXCEPT ![k] = to]]

\* and write that column alone.  A row or a target that is gone by now makes it fail.
CommitRelink(c) ==
    /\ At(c, "relink", "loaded")
    /\ req[c].to \in alive \union {None}
    /\ rows' = [f \in Files |->
          IF f \in req[c].files /\ Exists(f) THEN Relinked(rows[f], req[c].kind, req[c].to)
          ELSE rows[f]]
    /\ End(c)
    /\ UNCHANGED <<objects, url, alive, mishaps>>

\* create_lesplan checks the class of the plan and loads all files the plan is given;
BeginPlan(c, given, class) ==
    /\ class \in alive
    /\ Begin(c, [op |-> "plan", files |-> given, kind |-> "plan", to |-> class])
    /\ UNCHANGED <<rows, objects, url, alive, got, mishaps>>

\* the plan and the links of its files are committed together, or not at all when one of
\* the files or the class has been deleted in the meantime.
CommitPlan(c, p) ==
    /\ At(c, "plan", "loaded")
    /\ p \in Plans \ alive
    /\ req[c].to \in alive
    /\ \A f \in req[c].files : Exists(f)
    /\ alive' = alive \union {p}
    /\ rows' = [f \in Files |-> IF f \in req[c].files THEN Relinked(rows[f], "plan", p) ELSE rows[f]]
    /\ End(c)
    /\ UNCHANGED <<objects, url, mishaps>>

\* Any call may end in an error: the store is not configured or does not answer, the commit
\* fails, the API is restarted.  A deletion that has dropped the object leaves its row.
Fail(c) ==
    /\ pc[c] # "idle"
    /\ mishaps' = [f \in Files |-> mishaps[f] \union
          (IF pc[c] = "dropped" /\ f \in req[c].files THEN {"cut"} ELSE {})]
    /\ End(c)
    /\ UNCHANGED <<rows, objects, url, alive>>

-----------------------------------------------------------------------------
\* The rest of the API.

Unlinked(row, gone, heir) ==
    [row EXCEPT !.link = [k \in Kinds |-> IF @[k] \notin gone THEN @[k]
                                          ELSE IF k = "folder" THEN heir ELSE None]]

\* A folder is deleted, or a class with its plans (which of them, is left open).  The files
\* of a folder are handed to its parent; any other link to what is gone is set to NULL.
DeleteTargets ==
    \E t \in alive \ Plans :
      \E gone \in {{t} \union q : q \in IF t \in Classes THEN SUBSET (Plans \intersect alive) ELSE {{}}},
         heir \in {None} \union ((Folders \intersect alive) \ {t}) :
         /\ alive' = alive \ gone
         /\ rows' = [f \in Files |-> IF Exists(f) THEN Unlinked(rows[f], gone, heir) ELSE None]
         /\ UNCHANGED <<objects, url, pc, req, got, mishaps>>

CallStep(c) ==
    \/ \E f \in Files : \/ BeginConfirm(c, f) \/ BeginFailed(c, f) \/ BeginDelete(c, f)
                        \/ \E to \in Folders \union {None} : MoveFile(c, f, to)
                        \/ \E to \in Classes \union {None} : UpdateFile(c, f, to)
    \/ \E given \in SUBSET Files, class \in Classes : BeginPlan(c, given, class)
    \/ ExtractText(c) \/ CommitConfirm(c) \/ MarkUploadFailed(c)
    \/ DeleteObject(c) \/ CommitDelete(c) \/ CommitRelink(c)
    \/ \E p \in Plans : CommitPlan(c, p)
    \/ Fail(c)

Next ==
    \/ \E f \in Files : CreateUploadUrl(f) \/ ExpireUrl(f) \/ Put(f)
    \/ \E c \in Calls : CallStep(c)
    \/ DeleteTargets

Spec == Init /\ [][Next]_vars

-----------------------------------------------------------------------------
\* What the rest of the program sees of the files.

\* list_files, and the files of a folder: only what was confirmed.
Listed == {f \in Files : Exists(f) /\ rows[f].status = "UPLOADED"}

\* The texts a job gives the LLM for a plan, or for a class.
Context(k, t) == {f \in Listed : rows[f].link[k] = t /\ rows[f].text # None}

-----------------------------------------------------------------------------
\* Properties.

Mishap == {"unsent", "late", "abandoned", "cut"}

\* Every variable holds a value of its kind.
TypeOK ==
    /\ rows \in [Files -> Row \union {None}]
    /\ objects \in [Files -> Texts \union Opaque \union {None}]
    /\ url \in [Files -> {"unsigned", "valid", "expired"}]
    /\ alive \subseteq Targets
    /\ pc \in [Calls -> {"idle", "loaded", "extracted", "dropped"}]
    /\ req \in [Calls -> Req]
    /\ got \in [Calls -> Texts \union {None}]
    /\ mishaps \in [Files -> SUBSET Mishap]

\* A file that is listed can be downloaded, in every interleaving of confirmations and
\* deletions, unless it was confirmed before anything was stored, or a deletion has dropped
\* the object and is still to remove the row or was cut short.  (files/route.py:154-177, 208-213)
ListedHasObject ==
    \A f \in Listed :
        Download(f) = None =>
            \/ mishaps[f] \intersect {"unsent", "cut"} # {}
            \/ \E c \in Calls : At(c, "delete", "dropped") /\ f \in req[c].files

\* The store holds no object without a row, except when the client put it late with a URL
\* that outlived the row, or upload-failed was called although the object had arrived.
\* (files/route.py:181-195, 208-213)
OrphansAreExplained ==
    \A f \in Files :
        objects[f] # None /\ ~Exists(f) => mishaps[f] \intersect {"late", "abandoned"} # {}

\* The text a plan's job gives the LLM is the text of the object that the store holds for the
\* file, unless the client put another one late.  (files/route.py:169-177, util.py:629-660)
ContextIsCurrent ==
    \A k \in {"class", "plan"}, t \in Classes \union Plans : \A f \in Context(k, t) :
        "late" \notin mishaps[f] => objects[f] \in {rows[f].text, None}

\* A link of a file changes only in the step of a call that was asked to set it, or because
\* what it names is deleted: no confirmation and no other relink takes a stale value back.
\* (files/route.py:169-177, 238-240, 271-273; lesplan/route.py:165-169)
LinksStand ==
    [][\A f \in Files, k \in Kinds :
          Exists(f) /\ rows'[f] # None /\ rows'[f].link[k] # rows[f].link[k] =>
              \/ rows[f].link[k] \notin alive' \union {None}
              \/ \E c \in Calls : /\ f \in req[c].files /\ k = req[c].kind /\ pc'[c] = "idle"
                                  /\ rows'[f].link[k] \in {req[c].to} \union (alive' \ alive)]_vars
==================================================================================
