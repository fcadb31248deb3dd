--------------------------- MODULE FileUploads_proofs ---------------------------
(***************************************************************************)
(* Proofs about FileUploads, for any files, calls, links and contents.     *)
(***************************************************************************)
EXTENDS FileUploads, TLAPS

\* A call that is idle holds nothing.
IdleInv == \A c \in Calls : pc[c] = "idle" => req[c].files = {} /\ got[c] = None

\* Before its URL is signed nothing is known of a file.
Fresh(f) ==
    url[f] = "unsigned" => /\ ~Exists(f) /\ objects[f] = None
                           /\ \A c \in Calls : f \notin req[c].files

Dropping(f) == \E c \in Calls : At(c, "delete", "dropped") /\ f \in req[c].files

Confirming(f) == \E c \in Calls : req[c].op = "confirm" /\ f \in req[c].files

\* Neither a listed file, nor one that is about to be, lacks its object without an excuse.
DownloadInv(f) ==
    Exists(f) /\ objects[f] = None /\ (rows[f].status = "UPLOADED" \/ Confirming(f)) =>
        mishaps[f] \intersect {"unsent", "cut"} # {} \/ Dropping(f)

\* An object that came back after its deletion was put late.
OrphanInv(f) ==
    /\ objects[f] # None /\ ~Exists(f) => mishaps[f] \intersect {"late", "abandoned"} # {}
    /\ objects[f] # None /\ Dropping(f) => "late" \in mishaps[f]

\* Both the text of a row and the text a confirmation holds are those of the object.
TextInv(f) ==
    /\ Exists(f) /\ rows[f].text # None => rows[f].status = "UPLOADED"
    /\ "late" \notin mishaps[f] =>
         /\ Exists(f) /\ rows[f].text # None => objects[f] \in {rows[f].text, None}
         /\ \A c \in Calls : f \in req[c].files /\ got[c] # None => objects[f] \in {got[c], None}

FileInv(f) == Fresh(f) /\ DownloadInv(f) /\ OrphanInv(f) /\ TextInv(f)

Inv == TypeOK /\ IdleInv /\ \A f \in Files : FileInv(f)

-----------------------------------------------------------------------------
\* What the helpers make of a row.

LEMMA ConfirmedRow ==
  ASSUME NEW row \in Row, NEW text \in Texts \union {None}
  PROVE  /\ Confirmed(row, text) \in Row
         /\ Confirmed(row, text).status = "UPLOADED"
         /\ Confirmed(row, text).text = IF text = None THEN row.text ELSE text
         /\ Confirmed(row, text).link = row.link
BY DEF Confirmed, Row

LEMMA LinkUpdate ==
  ASSUME NEW link \in Links, NEW k \in Kinds, NEW to \in Of[k] \union {None}
  PROVE  [link EXCEPT ![k] = to] \in Links
<1>1. Of[k] \subseteq Targets
  BY DEF Of, Kinds, Targets
<1> QED BY <1>1 DEF Links

LEMMA RelinkedRow ==
  ASSUME NEW row \in Row, NEW k \in Kinds, NEW to \in Of[k] \union {None}
  PROVE  /\ Relinked(row, k, to) \in Row
         /\ Relinked(row, k, to).status = row.status
         /\ Relinked(row, k, to).text = row.text
         /\ \A j \in Kinds : Relinked(row, k, to).link[j] = IF j = k THEN to ELSE row.link[j]
<1> DEFINE link == [row.link EXCEPT ![k] = to]
<1>1. row.link \in Links
  BY DEF Row
<1>2. link \in Links
  BY <1>1, LinkUpdate
<1>3. \A j \in Kinds : link[j] = IF j = k THEN to ELSE row.link[j]
  BY <1>1 DEF Links
<1>4. Relinked(row, k, to) = [row EXCEPT !.link = link]
  BY DEF Relinked
<1> HIDE DEF link
<1> QED BY <1>2, <1>3, <1>4 DEF Row

LEMMA UnlinkedRow ==
  ASSUME NEW row \in Row, NEW gone, NEW heir \in Folders \union {None}
  PROVE  /\ Unlinked(row, gone, heir) \in Row
         /\ Unlinked(row, gone, heir).status = row.status
         /\ Unlinked(row, gone, heir).text = row.text
         /\ \A k \in Kinds : row.link[k] \notin gone =>
                                Unlinked(row, gone, heir).link[k] = row.link[k]
<1> DEFINE link == [k \in Kinds |-> IF row.link[k] \notin gone THEN row.link[k]
                                    ELSE IF k = "folder" THEN heir ELSE None]
<1>1. row.link \in Links
  BY DEF Row
<1>2. \A k \in Kinds : link[k] \in Of[k] \union {None}
  BY <1>1 DEF Links, Of
<1>3. link \in [Kinds -> Targets \union {None}]
  BY <1>2 DEF Of, Kinds, Targets
<1>4. link \in Links
  BY <1>2, <1>3 DEF Links
<1>5. \A k \in Kinds : row.link[k] \notin gone => link[k] = row.link[k]
  OBVIOUS
<1>6. Unlinked(row, gone, heir) = [row EXCEPT !.link = link]
  BY DEF Unlinked
<1> HIDE DEF link
<1> QED BY <1>4, <1>5, <1>6 DEF Row

-----------------------------------------------------------------------------
\* What beginning and ending a call changes.

LEMMA BeginFacts ==
  ASSUME TypeOK, NEW c \in Calls, NEW r \in Req, Begin(c, r)
  PROVE  /\ pc' \in [Calls -> {"idle", "loaded", "extracted", "dropped"}]
         /\ req' \in [Calls -> Req]
         /\ pc'[c] = "loaded" /\ req'[c] = r
         /\ \A d \in Calls \ {c} : pc'[d] = pc[d] /\ req'[d] = req[d]
         /\ \A f \in r.files : Exists(f)
BY DEF Begin, TypeOK

LEMMA EndFacts ==
  ASSUME TypeOK, NEW c \in Calls, End(c)
  PROVE  /\ pc' \in [Calls -> {"idle", "loaded", "extracted", "dropped"}]
         /\ req' \in [Calls -> Req]
         /\ got' \in [Calls -> Texts \union {None}]
         /\ pc'[c] = "idle" /\ req'[c].files = {} /\ req'[c].op = "confirm" /\ got'[c] = None
         /\ \A d \in Calls \ {c} : pc'[d] = pc[d] /\ req'[d] = req[d] /\ got'[d] = got[d]
<1>1. Idle \in Req /\ Idle.files = {} /\ Idle.op = "confirm"
  BY DEF Idle, Req, Ops, Kinds
<1> QED BY <1>1 DEF End, TypeOK

-----------------------------------------------------------------------------
LEMMA InvInit == Init => Inv
<1> SUFFICES ASSUME Init PROVE Inv
  OBVIOUS
<1>1. Idle \in Req /\ Idle.files = {}
  BY DEF Idle, Req, Ops, Kinds
<1>2. TypeOK
  BY <1>1 DEF Init, TypeOK, Targets
<1>3. IdleInv
  BY <1>1 DEF Init, IdleInv
<1>4. \A f \in Files : FileInv(f)
  BY <1>1 DEF Init, FileInv, Fresh, DownloadInv, OrphanInv, TextInv, Exists
<1> QED BY <1>2, <1>3, <1>4 DEF Inv

LEMMA CreateKeeps ==
  ASSUME Inv, NEW f \in Files, CreateUploadUrl(f)
  PROVE  Inv'
<1>1. PICK extractable \in BOOLEAN, link \in Links :
        rows' = [rows EXCEPT ![f] = [status |-> "PENDING", extractable |-> extractable,
                                     text |-> None, link |-> link]]
  BY DEF CreateUploadUrl
<1> DEFINE row == [status |-> "PENDING", extractable |-> extractable, text |-> None, link |-> link]
<1>2. row \in Row /\ row.status = "PENDING" /\ row.text = None
  BY DEF Row
<1> HIDE DEF row
<1>3. row # None
  BY <1>2, Distinct
<1>4. rows' \in [Files -> Row \union {None}] /\ rows'[f] = row
      /\ \A g \in Files \ {f} : rows'[g] = rows[g]
  BY <1>1, <1>2 DEF row, Inv, TypeOK
<1>5. /\ url' \in [Files -> {"unsigned", "valid", "expired"}] /\ url'[f] # "unsigned"
      /\ \A g \in Files \ {f} : url'[g] = url[g]
  BY DEF CreateUploadUrl, Inv, TypeOK
<1>6. url[f] = "unsigned" /\ UNCHANGED <<objects, alive, pc, req, got, mishaps>>
  BY DEF CreateUploadUrl
<1>7. TypeOK'
  BY <1>4, <1>5, <1>6 DEF Inv, TypeOK
<1>8. IdleInv'
  BY <1>6 DEF Inv, IdleInv
<1>9. ASSUME NEW g \in Files PROVE FileInv(g)'
  <2>1. CASE g = f
    BY <2>1, <1>2, <1>3, <1>4, <1>5, <1>6
    DEF Inv, FileInv, Fresh, DownloadInv, OrphanInv, TextInv, Exists, Dropping, Confirming, At
  <2>2. CASE g # f
    BY <2>2, <1>4, <1>5, <1>6
    DEF Inv, FileInv, Fresh, DownloadInv, OrphanInv, TextInv, Exists, Dropping, Confirming, At
  <2> QED BY <2>1, <2>2
<1> QED BY <1>7, <1>8, <1>9 DEF Inv

LEMMA ExpireKeeps ==
  ASSUME Inv, NEW f \in Files, ExpireUrl(f)
  PROVE  Inv'
<1>1. /\ url' \in [Files -> {"unsigned", "valid", "expired"}] /\ url[f] # "unsigned"
      /\ url'[f] # "unsigned" /\ \A g \in Files \ {f} : url'[g] = url[g]
  BY DEF ExpireUrl, Inv, TypeOK
<1>2. UNCHANGED <<rows, objects, alive, pc, req, got, mishaps>>
  BY DEF ExpireUrl
<1>3. TypeOK' /\ IdleInv'
  BY <1>1, <1>2 DEF Inv, TypeOK, IdleInv
<1>4. ASSUME NEW g \in Files PROVE FileInv(g)'
  BY <1>1, <1>2
  DEF Inv, FileInv, Fresh, DownloadInv, OrphanInv, TextInv, Exists, Dropping, Confirming, At
<1> QED BY <1>3, <1>4 DEF Inv

LEMMA PutKeeps ==
  ASSUME Inv, NEW f \in Files, Put(f)
  PROVE  Inv'
<1> DEFINE early == Exists(f) /\ rows[f].status = "PENDING" /\ ~InFlight(f)
<1>1. PICK content \in Texts \union Opaque : objects' = [objects EXCEPT ![f] = content]
  BY DEF Put
<1>2. /\ objects' \in [Files -> Texts \union Opaque \union {None}] /\ objects'[f] # None
      /\ \A g \in Files \ {f} : objects'[g] = objects[g]
  BY <1>1, Distinct DEF Inv, TypeOK
<1>3. /\ mishaps' \in [Files -> SUBSET Mishap]
      /\ \A g \in Files : mishaps[g] \subseteq mishaps'[g]
      /\ \A g \in Files \ {f} : mishaps'[g] = mishaps[g]
      /\ ~early => "late" \in mishaps'[f]
  BY DEF Put, Inv, TypeOK, Mishap
<1>4. url[f] # "unsigned" /\ UNCHANGED <<rows, url, alive, pc, req, got>>
  BY DEF Put
<1>5. TypeOK' /\ IdleInv'
  BY <1>2, <1>3, <1>4 DEF Inv, TypeOK, IdleInv
<1>6. early => Exists(f) /\ rows[f].status # "UPLOADED" /\ \A c \in Calls : f \notin req[c].files
  BY DEF Inv, IdleInv, InFlight
<1> HIDE DEF early
<1>7. ASSUME NEW g \in Files PROVE FileInv(g)'
  <2>1. CASE g = f
    <3>1. Fresh(f)' /\ DownloadInv(f)'
      BY <1>2, <1>4 DEF Inv, FileInv, Fresh, DownloadInv
    <3>2. OrphanInv(f)'
      BY <1>3, <1>4, <1>6 DEF OrphanInv, Exists, Dropping, At
    <3>3. TextInv(f)'
      BY <1>3, <1>4, <1>6 DEF Inv, FileInv, TextInv, Exists
    <3> QED BY <2>1, <3>1, <3>2, <3>3 DEF FileInv
  <2>2. CASE g # f
    BY <2>2, <1>2, <1>3, <1>4
    DEF Inv, FileInv, Fresh, DownloadInv, OrphanInv, TextInv, Exists, Dropping, Confirming, At
  <2> QED BY <2>1, <2>2
<1> QED BY <1>5, <1>7 DEF Inv

\* A call that begins without touching anything but, perhaps, the observer.
LEMMA BeginKeeps ==
  ASSUME Inv, NEW c \in Calls, NEW r \in Req, Begin(c, r),
         UNCHANGED <<rows, objects, url, alive, got>>,
         mishaps' \in [Files -> SUBSET Mishap],
         \A f \in Files : mishaps[f] \subseteq mishaps'[f],
         \A f \in Files : "late" \in mishaps'[f] <=> "late" \in mishaps[f],
         \A f \in r.files : r.op = "confirm" /\ objects[f] = None => "unsent" \in mishaps'[f]
  PROVE  Inv'
<1>1. /\ pc' \in [Calls -> {"idle", "loaded", "extracted", "dropped"}]
      /\ req' \in [Calls -> Req]
      /\ pc'[c] = "loaded" /\ req'[c] = r
      /\ \A d \in Calls \ {c} : pc'[d] = pc[d] /\ req'[d] = req[d]
      /\ \A f \in r.files : Exists(f)
  BY BeginFacts DEF Inv
<1>2. TypeOK'
  BY <1>1 DEF Inv, TypeOK
<1>3. pc[c] = "idle" /\ req[c].files = {} /\ got[c] = None
  BY DEF Begin, Inv, IdleInv
<1>4. IdleInv'
  BY <1>1 DEF Inv, IdleInv
<1>5. ASSUME NEW f \in Files PROVE FileInv(f)'
  <2>1. Dropping(f) <=> Dropping(f)'
    BY <1>1, <1>3 DEF Dropping, At
  <2>2. Confirming(f)' => Confirming(f) \/ (r.op = "confirm" /\ f \in r.files)
    BY <1>1 DEF Confirming
  <2>3. FileInv(f)
    BY DEF Inv
  <2>4. Fresh(f)'
    BY <1>1, <2>3 DEF FileInv, Fresh, Exists
  <2>5. DownloadInv(f)'
    BY <2>1, <2>2, <2>3 DEF FileInv, DownloadInv, Exists
  <2>6. OrphanInv(f)'
    BY <2>1, <2>3 DEF FileInv, OrphanInv, Exists
  <2>7. TextInv(f)'
    BY <1>1, <1>3, <2>3 DEF FileInv, TextInv, Exists
  <2> QED BY <2>4, <2>5, <2>6, <2>7 DEF FileInv
<1> QED BY <1>2, <1>4, <1>5 DEF Inv

\* The same for the calls that touch nothing at all.
LEMMA BeginOtherKeeps ==
  ASSUME Inv, NEW c \in Calls, NEW r \in Req, Begin(c, r), r.op # "confirm",
         UNCHANGED <<rows, objects, url, alive, got, mishaps>>
  PROVE  Inv'
<1>1. mishaps' \in [Files -> SUBSET Mishap]
  BY DEF Inv, TypeOK
<1> QED BY <1>1, BeginKeeps

LEMMA BeginsKeep ==
  ASSUME Inv, NEW c \in Calls
  PROVE  /\ \A f \in Files : BeginConfirm(c, f) \/ BeginFailed(c, f) \/ BeginDelete(c, f) => Inv'
         /\ \A f \in Files, to \in Folders \union {None} : MoveFile(c, f, to) => Inv'
         /\ \A f \in Files, to \in Classes \union {None} : UpdateFile(c, f, to) => Inv'
         /\ \A given \in SUBSET Files, class \in Classes : BeginPlan(c, given, class) => Inv'
<1>1. \A f \in Files : /\ [Idle EXCEPT !.op = "confirm", !.files = {f}] \in Req
                       /\ [Idle EXCEPT !.op = "failed", !.files = {f}] \in Req
                       /\ [Idle EXCEPT !.op = "delete", !.files = {f}] \in Req
  BY DEF Idle, Req, Ops, Kinds
<1>2. ASSUME NEW f \in Files, BeginConfirm(c, f) PROVE Inv'
  <2> DEFINE r == [Idle EXCEPT !.op = "confirm", !.files = {f}]
  <2>1. r \in Req /\ r.files = {f}
    BY <1>1 DEF Idle
  <2>2. /\ mishaps' \in [Files -> SUBSET Mishap]
        /\ \A g \in Files : mishaps[g] \subseteq mishaps'[g]
        /\ \A g \in Files : "late" \in mishaps'[g] <=> "late" \in mishaps[g]
        /\ objects[f] = None => "unsent" \in mishaps'[f]
    BY <1>2 DEF BeginConfirm, Inv, TypeOK, Mishap
  <2>3. Begin(c, r) /\ UNCHANGED <<rows, objects, url, alive, got>>
    BY <1>2 DEF BeginConfirm
  <2> HIDE DEF r
  <2> QED BY <2>1, <2>2, <2>3, BeginKeeps
<1>3. ASSUME NEW f \in Files, BeginFailed(c, f) PROVE Inv'
  <2> DEFINE r == [Idle EXCEPT !.op = "failed", !.files = {f}]
  <2>1. r \in Req /\ r.op # "confirm"
    BY <1>1 DEF Idle
  <2>2. Begin(c, r) /\ UNCHANGED <<rows, objects, url, alive, got, mishaps>>
    BY <1>3 DEF BeginFailed
  <2> HIDE DEF r
  <2> QED BY <2>1, <2>2, BeginOtherKeeps
<1>4. ASSUME NEW f \in Files, BeginDelete(c, f) PROVE Inv'
  <2> DEFINE r == [Idle EXCEPT !.op = "delete", !.files = {f}]
  <2>1. r \in Req /\ r.op # "confirm"
    BY <1>1 DEF Idle
  <2>2. Begin(c, r) /\ UNCHANGED <<rows, objects, url, alive, got, mishaps>>
    BY <1>4 DEF BeginDelete
  <2> HIDE DEF r
  <2> QED BY <2>1, <2>2, BeginOtherKeeps
<1>5. ASSUME NEW f \in Files, NEW k \in Kinds, NEW to \in Of[k] \union {None},
             BeginRelink(c, f, k, to)
      PROVE  Inv'
  <2> DEFINE r == [op |-> "relink", files |-> {f}, kind |-> k, to |-> to]
  <2>1. r \in Req /\ r.op # "confirm"
    BY DEF Req, Ops, Kinds, Of, Targets
  <2>2. Begin(c, r) /\ UNCHANGED <<rows, objects, url, alive, got, mishaps>>
    BY <1>5 DEF BeginRelink
  <2> HIDE DEF r
  <2> QED BY <2>1, <2>2, BeginOtherKeeps
<1>6. ASSUME NEW given \in SUBSET Files, NEW class \in Classes, BeginPlan(c, given, class)
      PROVE  Inv'
  <2> DEFINE r == [op |-> "plan", files |-> given, kind |-> "plan", to |-> class]
  <2>1. r \in Req /\ r.op # "confirm"
    BY DEF Req, Ops, Kinds, Targets
  <2>2. Begin(c, r) /\ UNCHANGED <<rows, objects, url, alive, got, mishaps>>
    BY <1>6 DEF BeginPlan
  <2> HIDE DEF r
  <2> QED BY <2>1, <2>2, BeginOtherKeeps
<1> QED BY <1>2, <1>3, <1>4, <1>5, <1>6 DEF MoveFile, UpdateFile, Kinds, Of

LEMMA ExtractKeeps ==
  ASSUME Inv, NEW c \in Calls, ExtractText(c)
  PROVE  Inv'
<1>0. PICK f \in Files : \E content \in {objects[f], None} :
        /\ req[c].files = {f}
        /\ got' = [got EXCEPT ![c] = IF Exists(f) THEN Extracted(f, content) ELSE None]
  BY DEF ExtractText, Download
<1>1. PICK content \in {objects[f], None} :
        /\ req[c].files = {f}
        /\ got' = [got EXCEPT ![c] = IF Exists(f) THEN Extracted(f, content) ELSE None]
  BY <1>0
<1>2. /\ req[c].op = "confirm" /\ pc[c] = "loaded"
      /\ pc' = [pc EXCEPT ![c] = "extracted"]
      /\ UNCHANGED <<rows, objects, url, alive, req, mishaps>>
  BY DEF ExtractText, At
<1> DEFINE text == IF Exists(f) THEN Extracted(f, content) ELSE None
<1>3. text \in Texts \union {None} /\ (text # None => text = objects[f])
  BY DEF Extracted
<1> HIDE DEF text
<1>4. /\ got' \in [Calls -> Texts \union {None}] /\ got'[c] = text
      /\ \A d \in Calls \ {c} : got'[d] = got[d]
  BY <1>1, <1>3 DEF text, Inv, TypeOK
<1>5. /\ pc' \in [Calls -> {"idle", "loaded", "extracted", "dropped"}] /\ pc'[c] = "extracted"
      /\ \A d \in Calls \ {c} : pc'[d] = pc[d]
  BY <1>2 DEF Inv, TypeOK
<1>6. TypeOK' /\ IdleInv'
  BY <1>2, <1>4, <1>5 DEF Inv, TypeOK, IdleInv
<1>7. ASSUME NEW g \in Files PROVE FileInv(g)'
  <2>1. (Dropping(g) <=> Dropping(g)') /\ (Confirming(g) <=> Confirming(g)')
    BY <1>2, <1>5 DEF Dropping, Confirming, At
  <2>2. Fresh(g)' /\ DownloadInv(g)' /\ OrphanInv(g)'
    BY <1>2, <2>1 DEF Inv, FileInv, Fresh, DownloadInv, OrphanInv, Exists
  <2>3. TextInv(g)'
    BY <1>1, <1>2, <1>3, <1>4 DEF Inv, FileInv, TextInv, Exists
  <2> QED BY <2>2, <2>3 DEF FileInv
<1> QED BY <1>6, <1>7 DEF Inv

\* A call that ends: rows keep existing and keep their text and status, unless the call is a
\* confirmation that writes what it has got, or a deletion.
LEMMA EndKeeps ==
  ASSUME Inv, NEW c \in Calls, End(c), UNCHANGED <<objects, url>>,
         alive' \subseteq Targets,
         rows' \in [Files -> Row \union {None}],
         mishaps' \in [Files -> SUBSET Mishap],
         \A f \in Files : mishaps[f] \subseteq mishaps'[f],
         \A f \in Files : "late" \in mishaps'[f] <=> "late" \in mishaps[f],
         \A f \in Files : Exists(f)' => Exists(f),
         \A f \in Files : Exists(f)' =>
            \/ rows'[f].text = rows[f].text /\ rows'[f].status = rows[f].status
            \/ /\ req[c].op = "confirm" /\ f \in req[c].files
               /\ rows'[f].status = "UPLOADED" /\ rows'[f].text \in {rows[f].text, got[c]},
         \A f \in Files : Exists(f) /\ ~Exists(f)' /\ objects[f] # None =>
            mishaps'[f] \intersect {"late", "abandoned"} # {},
         \A f \in req[c].files : At(c, "delete", "dropped") => ~Exists(f)' \/ "cut" \in mishaps'[f]
  PROVE  Inv'
<1>1. /\ pc' \in [Calls -> {"idle", "loaded", "extracted", "dropped"}]
      /\ req' \in [Calls -> Req]
      /\ got' \in [Calls -> Texts \union {None}]
      /\ pc'[c] = "idle" /\ req'[c].files = {} /\ req'[c].op = "confirm" /\ got'[c] = None
      /\ \A d \in Calls \ {c} : pc'[d] = pc[d] /\ req'[d] = req[d] /\ got'[d] = got[d]
  BY EndFacts DEF Inv
<1>2. TypeOK'
  BY <1>1 DEF Inv, TypeOK
<1>3. IdleInv'
  BY <1>1 DEF Inv, IdleInv
<1>4. ASSUME NEW f \in Files PROVE FileInv(f)'
  <2>1. Dropping(f)' => Dropping(f)
    BY <1>1 DEF Dropping, At
  <2>2. Dropping(f) => Dropping(f)' \/ ~Exists(f)' \/ "cut" \in mishaps'[f]
    BY <1>1 DEF Dropping, At
  <2>3. Confirming(f)' => Confirming(f)
    BY <1>1 DEF Confirming
  <2>4. FileInv(f) /\ objects'[f] = objects[f] /\ mishaps[f] \subseteq mishaps'[f]
        /\ ("late" \in mishaps'[f] <=> "late" \in mishaps[f])
    BY DEF Inv
  <2>5. Fresh(f)'
    BY <1>1, <2>4 DEF FileInv, Fresh
  <2>6. DownloadInv(f)'
    <3>1. Exists(f)' /\ rows'[f].status = "UPLOADED" => rows[f].status = "UPLOADED" \/ Confirming(f)
      BY DEF Confirming
    <3> QED BY <3>1, <2>2, <2>3, <2>4 DEF FileInv, DownloadInv
  <2>7. OrphanInv(f)'
    <3>1. objects'[f] # None /\ ~Exists(f)' => mishaps'[f] \intersect {"late", "abandoned"} # {}
      BY <2>4 DEF FileInv, OrphanInv
    <3> QED BY <3>1, <2>1, <2>4 DEF FileInv, OrphanInv
  <2>8. TextInv(f)'
    <3>1. Exists(f)' /\ rows'[f].text # None => rows'[f].status = "UPLOADED"
      BY <2>4 DEF FileInv, TextInv
    <3>2. ASSUME "late" \notin mishaps'[f], Exists(f)', rows'[f].text # None
          PROVE  objects'[f] \in {rows'[f].text, None}
      BY <3>2, <2>4 DEF FileInv, TextInv
    <3>3. ASSUME "late" \notin mishaps'[f], NEW d \in Calls, f \in req'[d].files, got'[d] # None
          PROVE  objects'[f] \in {got'[d], None}
      BY <3>3, <1>1, <2>4 DEF FileInv, TextInv
    <3> QED BY <3>1, <3>2, <3>3 DEF TextInv
  <2> QED BY <2>5, <2>6, <2>7, <2>8 DEF FileInv
<1> QED BY <1>2, <1>3, <1>4 DEF Inv

LEMMA ConfirmKeeps ==
  ASSUME Inv, NEW c \in Calls, CommitConfirm(c)
  PROVE  Inv'
<1>1. /\ End(c) /\ UNCHANGED <<objects, url, alive, mishaps>>
      /\ req[c].op = "confirm" /\ pc[c] = "extracted" /\ got[c] \in Texts \union {None}
      /\ mishaps \in [Files -> SUBSET Mishap] /\ alive \subseteq Targets
  BY DEF CommitConfirm, At, Inv, TypeOK
<1>2. \A f \in Files : Exists(f) => rows[f] \in Row
  BY DEF Exists, Inv, TypeOK
<1>3. \A f \in Files : rows'[f] = IF f \in req[c].files /\ Exists(f)
                                  THEN Confirmed(rows[f], got[c]) ELSE rows[f]
  BY DEF CommitConfirm
<1>4. ASSUME NEW f \in Files, f \in req[c].files, Exists(f)
      PROVE  /\ rows'[f] \in Row /\ rows'[f] # None /\ rows'[f].status = "UPLOADED"
             /\ rows'[f].text \in {rows[f].text, got[c]}
  BY <1>1, <1>2, <1>3, <1>4, ConfirmedRow, Distinct
<1>5. ASSUME NEW f \in Files, ~(f \in req[c].files /\ Exists(f)) PROVE rows'[f] = rows[f]
  BY <1>3, <1>5
<1>6. rows' \in [Files -> Row \union {None}]
  <2>1. \A f \in Files : rows'[f] \in Row \union {None}
    BY <1>2, <1>4, <1>5 DEF Exists
  <2>2. rows' = [f \in Files |-> rows'[f]]
    BY DEF CommitConfirm
  <2> QED BY <2>1, <2>2
<1>7. \A f \in Files : Exists(f)' <=> Exists(f)
  BY <1>4, <1>5 DEF Exists
<1> QED BY <1>1, <1>4, <1>5, <1>6, <1>7, EndKeeps DEF At

LEMMA FailedKeeps ==
  ASSUME Inv, NEW c \in Calls, MarkUploadFailed(c)
  PROVE  Inv'
<1>1. /\ End(c) /\ UNCHANGED <<objects, url, alive>> /\ alive \subseteq Targets
      /\ req[c].op = "failed"
  BY DEF MarkUploadFailed, At, Inv, TypeOK
<1>2. /\ rows' \in [Files -> Row \union {None}]
      /\ \A f \in Files : rows'[f] = IF f \in req[c].files THEN None ELSE rows[f]
  BY DEF MarkUploadFailed, Inv, TypeOK
<1>3. /\ mishaps' \in [Files -> SUBSET Mishap]
      /\ \A f \in Files : /\ mishaps[f] \subseteq mishaps'[f]
                          /\ "late" \in mishaps'[f] <=> "late" \in mishaps[f]
                          /\ f \in req[c].files /\ objects[f] # None => "abandoned" \in mishaps'[f]
  BY DEF MarkUploadFailed, Inv, TypeOK, Mishap
<1> QED BY <1>1, <1>2, <1>3, EndKeeps DEF At, Exists

LEMMA DeleteObjectKeeps ==
  ASSUME Inv, NEW c \in Calls, DeleteObject(c)
  PROVE  Inv'
<1>1. /\ At(c, "delete", "loaded") /\ UNCHANGED <<rows, url, alive, req, got, mishaps>>
  BY DEF DeleteObject
<1>2. /\ pc' \in [Calls -> {"idle", "loaded", "extracted", "dropped"}] /\ pc'[c] = "dropped"
      /\ \A d \in Calls \ {c} : pc'[d] = pc[d]
  BY DEF DeleteObject, Inv, TypeOK
<1>3. /\ objects' \in [Files -> Texts \union Opaque \union {None}]
      /\ \A f \in Files : objects'[f] = IF f \in req[c].files THEN None ELSE objects[f]
  BY DEF DeleteObject, Inv, TypeOK
<1>4. TypeOK' /\ IdleInv'
  BY <1>1, <1>2, <1>3 DEF Inv, TypeOK, IdleInv, At
<1>5. ASSUME NEW f \in Files PROVE FileInv(f)'
  <2>1. Confirming(f)' <=> Confirming(f)
    BY <1>1 DEF Confirming
  <2>2. Dropping(f)' <=> (Dropping(f) \/ f \in req[c].files)
    BY <1>1, <1>2 DEF Dropping, At
  <2>3. CASE f \in req[c].files
    BY <2>3, <1>1, <1>3, <2>2
    DEF Inv, FileInv, Fresh, DownloadInv, OrphanInv, TextInv, Exists
  <2>4. CASE f \notin req[c].files
    BY <2>4, <1>1, <1>3, <2>1, <2>2
    DEF Inv, FileInv, Fresh, DownloadInv, OrphanInv, TextInv, Exists
  <2> QED BY <2>3, <2>4
<1> QED BY <1>4, <1>5 DEF Inv

LEMMA CommitDeleteKeeps ==
  ASSUME Inv, NEW c \in Calls, CommitDelete(c)
  PROVE  Inv'
<1>1. /\ End(c) /\ UNCHANGED <<objects, url, alive, mishaps>> /\ alive \subseteq Targets
      /\ At(c, "delete", "dropped") /\ mishaps \in [Files -> SUBSET Mishap]
  BY DEF CommitDelete, Inv, TypeOK
<1>2. /\ rows' \in [Files -> Row \union {None}]
      /\ \A f \in Files : rows'[f] = IF f \in req[c].files THEN None ELSE rows[f]
  BY DEF CommitDelete, Inv, TypeOK
<1>3. \A f \in Files : f \in req[c].files /\ objects[f] # None => "late" \in mishaps[f]
  BY <1>1 DEF Inv, FileInv, OrphanInv, Dropping
<1>4. req[c].files \subseteq Files
  BY DEF Inv, TypeOK, Req
<1> QED BY <1>1, <1>2, <1>3, <1>4, EndKeeps DEF Exists, At

\* The calls that only change links: rows stay, with their status and their text.
LEMMA RelinkedAt ==
  ASSUME Inv, NEW f \in Files, Exists(f), NEW k \in Kinds, NEW to \in Of[k] \union {None}
  PROVE  /\ Relinked(rows[f], k, to) \in Row /\ Relinked(rows[f], k, to) # None
         /\ Relinked(rows[f], k, to).text = rows[f].text
         /\ Relinked(rows[f], k, to).status = rows[f].status
         /\ \A j \in Kinds : Relinked(rows[f], k, to).link[j] = IF j = k THEN to ELSE rows[f].link[j]
<1>1. rows[f] \in Row
  BY DEF Exists, Inv, TypeOK
<1> QED BY <1>1, RelinkedRow, Distinct

LEMMA RelinkFacts ==
  ASSUME Inv, NEW c \in Calls, CommitRelink(c)
  PROVE  /\ End(c) /\ UNCHANGED <<objects, url, alive, mishaps>>
         /\ req[c].op = "relink" /\ req[c].kind \in Kinds
         /\ req[c].to \in Of[req[c].kind] \union {None}
         /\ rows' \in [Files -> Row \union {None}]
         /\ \A f \in Files :
              /\ Exists(f)' <=> Exists(f)
              /\ Exists(f) => rows'[f].text = rows[f].text /\ rows'[f].status = rows[f].status
              /\ Exists(f) => \A j \in Kinds :
                    rows'[f].link[j] = IF f \in req[c].files /\ j = req[c].kind THEN req[c].to
                                       ELSE rows[f].link[j]
<1>1. /\ End(c) /\ UNCHANGED <<objects, url, alive, mishaps>> /\ req[c].op = "relink"
      /\ req[c] \in Req
  BY DEF CommitRelink, At, Inv, TypeOK
<1>2. req[c].kind \in Kinds /\ req[c].files \in SUBSET Files
      /\ req[c].to \in Of[req[c].kind] \union {None}
  BY <1>1 DEF Req
<1>p. PICK k \in Kinds, some \in SUBSET Files : k = req[c].kind /\ some = req[c].files
  BY <1>2
<1>q. PICK to \in Of[k] \union {None} : to = req[c].to
  BY <1>2, <1>p
<1>3. /\ rows' = [f \in Files |-> rows'[f]]
      /\ \A f \in Files : rows'[f] = IF f \in some /\ Exists(f) THEN Relinked(rows[f], k, to)
                                     ELSE rows[f]
  BY <1>p, <1>q DEF CommitRelink
<1>4. k \in Kinds /\ to \in Of[k] \union {None}
  OBVIOUS
<1>5. ASSUME NEW f \in Files
      PROVE  /\ rows'[f] \in Row \union {None}
             /\ Exists(f)' <=> Exists(f)
             /\ Exists(f) => rows'[f].text = rows[f].text /\ rows'[f].status = rows[f].status
             /\ Exists(f) => \A j \in Kinds :
                   rows'[f].link[j] = IF f \in some /\ j = k THEN to ELSE rows[f].link[j]
  <2>1. CASE f \in some /\ Exists(f)
    <3>1. rows'[f] = Relinked(rows[f], k, to)
      BY <2>1, <1>3
    <3>2. /\ rows'[f] \in Row /\ rows'[f] # None
          /\ rows'[f].text = rows[f].text /\ rows'[f].status = rows[f].status
          /\ \A j \in Kinds : rows'[f].link[j] = IF j = k THEN to ELSE rows[f].link[j]
      BY <2>1, <3>1, <1>4, RelinkedAt
    <3> QED BY <2>1, <3>2 DEF Exists
  <2>2. CASE ~(f \in some /\ Exists(f))
    BY <2>2, <1>3 DEF Exists, Inv, TypeOK
  <2> QED BY <2>1, <2>2
<1>6. rows' \in [Files -> Row \union {None}]
  BY <1>3, <1>5
<1> QED BY <1>1, <1>2, <1>5, <1>6, <1>p, <1>q

LEMMA RelinkKeeps ==
  ASSUME Inv, NEW c \in Calls, CommitRelink(c)
  PROVE  Inv'
<1>1. mishaps \in [Files -> SUBSET Mishap] /\ alive \subseteq Targets
  BY DEF Inv, TypeOK
<1> QED BY <1>1, RelinkFacts, EndKeeps DEF At

LEMMA PlanFacts ==
  ASSUME Inv, NEW c \in Calls, NEW p \in Plans, CommitPlan(c, p)
  PROVE  /\ End(c) /\ UNCHANGED <<objects, url, mishaps>>
         /\ alive' = alive \union {p} /\ alive' \subseteq Targets
         /\ p \notin alive /\ req[c].op = "plan"
         /\ rows' \in [Files -> Row \union {None}]
         /\ \A f \in Files :
              /\ Exists(f)' <=> Exists(f)
              /\ Exists(f) => rows'[f].text = rows[f].text /\ rows'[f].status = rows[f].status
              /\ Exists(f) => \A j \in Kinds :
                    rows'[f].link[j] = IF f \in req[c].files /\ j = "plan" THEN p
                                       ELSE rows[f].link[j]
<1>1. /\ End(c) /\ UNCHANGED <<objects, url, mishaps>> /\ alive' = alive \union {p}
      /\ p \notin alive /\ req[c].op = "plan" /\ req[c].files \in SUBSET Files
      /\ \A f \in req[c].files : Exists(f)
      /\ alive' \subseteq Targets
  BY DEF CommitPlan, At, Inv, TypeOK, Req, Targets
<1>2. rows' = [f \in Files |-> IF f \in req[c].files THEN Relinked(rows[f], "plan", p) ELSE rows[f]]
  BY DEF CommitPlan
<1>3. rows' = [f \in Files |-> IF f \in req[c].files /\ Exists(f) THEN Relinked(rows[f], "plan", p)
                               ELSE rows[f]]
  BY <1>1, <1>2
<1>a. "plan" \in Kinds /\ p \in Of["plan"] \union {None}
  BY DEF Kinds, Of
<1>5. PICK k \in Kinds, some \in SUBSET Files : k = "plan" /\ some = req[c].files
  BY <1>1, <1>a
<1>6. /\ rows' = [f \in Files |-> rows'[f]]
      /\ \A f \in Files : rows'[f] = IF f \in some /\ Exists(f) THEN Relinked(rows[f], k, p)
                                     ELSE rows[f]
  BY <1>3, <1>5
<1>4. k \in Kinds /\ p \in Of[k] \union {None}
  BY <1>a, <1>5
<1>7. ASSUME NEW f \in Files
      PROVE  /\ rows'[f] \in Row \union {None}
             /\ Exists(f)' <=> Exists(f)
             /\ Exists(f) => rows'[f].text = rows[f].text /\ rows'[f].status = rows[f].status
             /\ Exists(f) => \A j \in Kinds :
                   rows'[f].link[j] = IF f \in some /\ j = k THEN p ELSE rows[f].link[j]
  <2>1. CASE f \in some /\ Exists(f)
    <3>1. rows'[f] = Relinked(rows[f], k, p)
      BY <2>1, <1>6
    <3>2. /\ rows'[f] \in Row /\ rows'[f] # None
          /\ rows'[f].text = rows[f].text /\ rows'[f].status = rows[f].status
          /\ \A j \in Kinds : rows'[f].link[j] = IF j = k THEN p ELSE rows[f].link[j]
      BY <2>1, <3>1, <1>4, RelinkedAt
    <3> QED BY <2>1, <3>2 DEF Exists
  <2>2. CASE ~(f \in some /\ Exists(f))
    BY <2>2, <1>6 DEF Exists, Inv, TypeOK
  <2> QED BY <2>1, <2>2
<1>8. rows' \in [Files -> Row \union {None}]
  BY <1>6, <1>7
<1> QED BY <1>1, <1>5, <1>7, <1>8

LEMMA PlanKeeps ==
  ASSUME Inv, NEW c \in Calls, NEW p \in Plans, CommitPlan(c, p)
  PROVE  Inv'
<1>1. mishaps \in [Files -> SUBSET Mishap]
  BY DEF Inv, TypeOK
<1> QED BY <1>1, PlanFacts, EndKeeps DEF At

LEMMA FailKeeps ==
  ASSUME Inv, NEW c \in Calls, Fail(c)
  PROVE  Inv'
<1>1. /\ End(c) /\ UNCHANGED <<rows, objects, url, alive>> /\ alive \subseteq Targets
      /\ rows \in [Files -> Row \union {None}]
  BY DEF Fail, Inv, TypeOK
<1>2. /\ mishaps' \in [Files -> SUBSET Mishap]
      /\ \A f \in Files : /\ mishaps[f] \subseteq mishaps'[f]
                          /\ "late" \in mishaps'[f] <=> "late" \in mishaps[f]
                          /\ f \in req[c].files /\ pc[c] = "dropped" => "cut" \in mishaps'[f]
  BY DEF Fail, Inv, TypeOK, Mishap
<1>3. req[c].files \subseteq Files
  BY DEF Inv, TypeOK, Req
<1> QED BY <1>1, <1>2, <1>3, EndKeeps DEF At, Exists

LEMMA TargetsFacts ==
  ASSUME Inv, DeleteTargets
  PROVE  /\ UNCHANGED <<objects, url, pc, req, got, mishaps>> /\ alive' \subseteq Targets
         /\ rows' \in [Files -> Row \union {None}]
         /\ \A f \in Files :
              /\ Exists(f)' <=> Exists(f)
              /\ Exists(f) => rows'[f].text = rows[f].text /\ rows'[f].status = rows[f].status
              /\ Exists(f) => \A k \in Kinds :
                    rows'[f].link[k] = rows[f].link[k] \/ rows[f].link[k] \notin alive' \union {None}
<1> DEFINE Effect(gone, heir) ==
             /\ alive' = alive \ gone
             /\ rows' = [f \in Files |-> IF Exists(f) THEN Unlinked(rows[f], gone, heir) ELSE None]
             /\ UNCHANGED <<objects, url, pc, req, got, mishaps>>
           Gone(t) == {{t} \union q : q \in IF t \in Classes THEN SUBSET (Plans \intersect alive)
                                            ELSE {{}}}
<1>a. \E t \in alive \ Plans : \E gone \in Gone(t), heir \in {None} \union ((Folders \intersect alive) \ {t}) :
        Effect(gone, heir)
  BY Zenon DEF DeleteTargets
<1> HIDE DEF Effect
<1>b. \A t \in alive \ Plans : \A gone \in Gone(t) : gone \subseteq alive
  OBVIOUS
<1> HIDE DEF Gone
<1>c. PICK t \in alive \ Plans : \E gone \in Gone(t), heir \in {None} \union ((Folders \intersect alive) \ {t}) :
        Effect(gone, heir)
  BY <1>a
<1>d. PICK gone \in Gone(t) : \E heir \in {None} \union ((Folders \intersect alive) \ {t}) :
        Effect(gone, heir)
  BY <1>c
<1>e. PICK heir \in {None} \union ((Folders \intersect alive) \ {t}) : Effect(gone, heir)
  BY <1>d
<1>1. /\ heir \in Folders \union {None} /\ gone \subseteq alive
      /\ alive' = alive \ gone
      /\ rows' = [f \in Files |-> IF Exists(f) THEN Unlinked(rows[f], gone, heir) ELSE None]
      /\ UNCHANGED <<objects, url, pc, req, got, mishaps>>
  BY <1>b, <1>d, <1>e DEF Effect
<1>g. None \notin gone
  BY <1>1, Distinct DEF Inv, TypeOK, Targets
<1>2. alive' \subseteq Targets
  BY <1>1 DEF Inv, TypeOK
<1>3. ASSUME NEW f \in Files, Exists(f)
      PROVE  /\ rows'[f] \in Row /\ rows'[f] # None
             /\ rows'[f].text = rows[f].text /\ rows'[f].status = rows[f].status
             /\ \A k \in Kinds : rows'[f].link[k] = rows[f].link[k] \/ rows[f].link[k] \in gone
  <2>1. rows[f] \in Row /\ rows'[f] = Unlinked(rows[f], gone, heir)
    BY <1>1, <1>3 DEF Exists, Inv, TypeOK
  <2> QED BY <2>1, UnlinkedRow, Distinct
<1>4. ASSUME NEW f \in Files, ~Exists(f) PROVE rows'[f] = None
  BY <1>1, <1>4
<1>5. rows' \in [Files -> Row \union {None}]
  BY <1>1, <1>3, <1>4
<1>6. \A f \in Files : Exists(f)' <=> Exists(f)
  BY <1>3, <1>4 DEF Exists
<1> QED BY <1>1, <1>g, <1>2, <1>3, <1>5, <1>6

LEMMA TargetsKeep ==
  ASSUME Inv, DeleteTargets
  PROVE  Inv'
<1>1. TypeOK' /\ IdleInv'
  BY TargetsFacts DEF Inv, TypeOK, IdleInv
<1>2. ASSUME NEW f \in Files PROVE FileInv(f)'
  BY TargetsFacts
  DEF Inv, FileInv, Fresh, DownloadInv, OrphanInv, TextInv, Dropping, Confirming, At
<1> QED BY <1>1, <1>2 DEF Inv

LEMMA InvNext == Inv /\ [Next]_vars => Inv'
<1> SUFFICES ASSUME Inv, [Next]_vars PROVE Inv'
  OBVIOUS
<1>1. ASSUME NEW f \in Files, CreateUploadUrl(f) \/ ExpireUrl(f) \/ Put(f) PROVE Inv'
  BY <1>1, CreateKeeps, ExpireKeeps, PutKeeps
<1>2. ASSUME NEW c \in Calls, CallStep(c) PROVE Inv'
  BY <1>2, BeginsKeep, ExtractKeeps, ConfirmKeeps, FailedKeeps, DeleteObjectKeeps,
     CommitDeleteKeeps, RelinkKeeps, PlanKeeps, FailKeeps DEF CallStep
<1>3. ASSUME DeleteTargets PROVE Inv'
  BY <1>3, TargetsKeep
<1>4. CASE UNCHANGED vars
  BY <1>4 DEF vars, Inv, TypeOK, IdleInv, FileInv, Fresh, DownloadInv, OrphanInv, TextInv,
              Exists, Dropping, Confirming, At
<1> QED BY <1>1, <1>2, <1>3, <1>4 DEF Next

LEMMA Invariance == Spec => []Inv
BY InvInit, InvNext, PTL DEF Spec

\* The type invariant of the files and of the calls about them.
THEOREM TypeCorrect == Spec => []TypeOK
<1>1. Inv => TypeOK
  BY DEF Inv
<1> QED BY <1>1, Invariance, PTL

\* Whatever the interleaving of confirmations and deletions, a listed file has its object
\* unless one of the named mishaps took it.  (files/route.py:154-213)
THEOREM DownloadsWork == Spec => []ListedHasObject
<1>1. Inv => ListedHasObject
  BY DEF Inv, FileInv, DownloadInv, ListedHasObject, Listed, Dropping, Download
<1> QED BY <1>1, Invariance, PTL

\* An object without a row was put late or abandoned by upload-failed.  (files/route.py:181-213)
THEOREM OrphansExplained == Spec => []OrphansAreExplained
<1>1. Inv => OrphansAreExplained
  BY DEF Inv, FileInv, OrphanInv, OrphansAreExplained
<1> QED BY <1>1, Invariance, PTL

\* The context of a plan is the text of the objects the store holds.  (util.py:629-660)
THEOREM ContextCurrent == Spec => []ContextIsCurrent
<1>1. Inv => ContextIsCurrent
  BY DEF Inv, FileInv, TextInv, ContextIsCurrent, Context, Listed
<1> QED BY <1>1, Invariance, PTL

\* A link only changes in a call that was asked to set it, or with its target: the columns a
\* call did not load to change keep what other calls wrote.  (files/route.py:169-273)
THEOREM LinksOnlyAsAsked == Spec => LinksStand
<1>1. ASSUME Inv, [Next]_vars, NEW f \in Files, NEW k \in Kinds,
             Exists(f), rows'[f] # None, rows'[f].link[k] # rows[f].link[k]
      PROVE  \/ rows[f].link[k] \notin alive' \union {None}
             \/ \E c \in Calls : /\ f \in req[c].files /\ k = req[c].kind /\ pc'[c] = "idle"
                                 /\ rows'[f].link[k] \in {req[c].to} \union (alive' \ alive)
  <2>1. ASSUME NEW g \in Files, CreateUploadUrl(g) PROVE FALSE
    <3>1. g # f
      BY <2>1, <1>1 DEF CreateUploadUrl, Inv, FileInv, Fresh
    <3> QED BY <3>1, <2>1, <1>1 DEF CreateUploadUrl, Inv, TypeOK
  <2>2. ASSUME NEW c \in Calls, CommitConfirm(c) PROVE FALSE
    <3>1. rows[f] \in Row /\ got[c] \in Texts \union {None}
      BY <1>1, <2>2 DEF Inv, TypeOK, Exists
    <3>2. rows'[f] \in {rows[f], Confirmed(rows[f], got[c])}
      BY <2>2 DEF CommitConfirm
    <3> QED BY <3>1, <3>2, <1>1, ConfirmedRow
  <2>3. ASSUME NEW c \in Calls, MarkUploadFailed(c) \/ CommitDelete(c) PROVE FALSE
    BY <2>3, <1>1 DEF MarkUploadFailed, CommitDelete
  <2>4. ASSUME NEW c \in Calls, CommitRelink(c)
        PROVE  f \in req[c].files /\ k = req[c].kind /\ pc'[c] = "idle" /\ rows'[f].link[k] = req[c].to
    BY <2>4, <1>1, RelinkFacts, EndFacts DEF Inv
  <2>5. ASSUME NEW c \in Calls, NEW p \in Plans, CommitPlan(c, p)
        PROVE  /\ f \in req[c].files /\ k = "plan" /\ pc'[c] = "idle"
               /\ rows'[f].link[k] = p /\ p \in alive' \ alive /\ req[c].op = "plan"
    BY <2>5, <1>1, PlanFacts, EndFacts DEF Inv
  <2>6. ASSUME DeleteTargets PROVE rows[f].link[k] \notin alive' \union {None}
    BY <2>6, <1>1, TargetsFacts
  <2>7. ASSUME NEW c \in Calls, NEW p \in Plans, CommitPlan(c, p) PROVE k = req[c].kind
    BY <1>1, <2>5, <2>7 DEF Inv, TypeOK, Req
  <2>8. rows' # rows
    BY <1>1
  <2>9. CASE \E c \in Calls : CallStep(c)
    <3> PICK c \in Calls : CallStep(c)
      BY <2>9
    <3>1. \/ \E g \in Files : BeginConfirm(c, g) \/ BeginFailed(c, g) \/ BeginDelete(c, g)
          \/ \E g \in Files, to \in Folders \union {None} : MoveFile(c, g, to)
          \/ \E g \in Files, to \in Classes \union {None} : UpdateFile(c, g, to)
          \/ \E given \in SUBSET Files, class \in Classes : BeginPlan(c, given, class)
          \/ ExtractText(c) \/ DeleteObject(c) \/ Fail(c)
          => UNCHANGED rows
      BY DEF BeginConfirm, BeginFailed, BeginDelete, MoveFile, UpdateFile, BeginRelink,
             BeginPlan, ExtractText, DeleteObject, Fail
    <3>2. CommitConfirm(c) \/ MarkUploadFailed(c) \/ CommitDelete(c) \/ CommitRelink(c)
          \/ \E p \in Plans : CommitPlan(c, p)
      BY <2>8, <3>1 DEF CallStep
    <3> QED BY <3>2, <2>2, <2>3, <2>4, <2>5, <2>7
  <2> QED BY <1>1, <2>1, <2>6, <2>8, <2>9 DEF Next, ExpireUrl, Put, vars
<1>2. Inv /\ [Next]_vars =>
        [\A f \in Files, k \in Kinds :
          Exists(f) /\ rows'[f] # None /\ rows'[f].link[k] # rows[f].link[k] =>
              \/ rows[f].link[k] \notin alive' \union {None}
              \/ \E c \in Calls : /\ f \in req[c].files /\ k = req[c].kind /\ pc'[c] = "idle"
                                  /\ rows'[f].link[k] \in {req[c].to} \union (alive' \ alive)]_vars
  BY <1>1
<1> QED BY <1>2, Invariance, PTL DEF Spec, LinksStand
=================================================================================
