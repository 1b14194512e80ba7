----------------------------- MODULE StoredFiles -----------------------------
(* The images and attachments of the club: rows of the database that name   *)
(* objects of a bucket (app/features/media, app/features/attachments), and  *)
(* the script that compresses stored images again (scripts/recompress_media *)
(* .py).  No transaction spans the two, any call to the bucket may fail,    *)
(* and any handler may die.                                                 *)
EXTENDS Integers, FiniteSets

CONSTANTS
  Image,        \* uploads with two objects: for the web and to download
  Attachment,   \* uploads with one object
  Request, Nil

FilesAssumption ==
  Image \cap Attachment = {} /\ Nil \notin Image \cup Attachment \cup {"png", "jpg"}

File == Image \cup Attachment

VARIABLES
  row,        \* what the row of a file names to download, Nil without a row
  objects,    \* the bucket: pairs of a file and a name
  used,       \* the files there have been: uploads draw a fresh uuid
  interrupted,  \* history: a step of their handling failed, or its handler died
  raced,      \* history: compressed again while a delete was at work
  req

vars == <<row, objects, used, interrupted, raced, req>>

(* The copy to download is a JPEG, or a PNG for what is a logo by then.     *)
Format == {"png", "jpg"}

Phase == {"idle", "web", "download", "insert", "objects", "delete",
          "put web", "put download", "drop", "update"}

(* `was` is the row as it was loaded, `format` that of the new copy.        *)
Idle == [phase |-> "idle", file |-> Nil, was |-> Nil, format |-> Nil]

Init ==
  /\ row = [f \in File |-> Nil] /\ objects = {} /\ used = {}
  /\ interrupted = {} /\ raced = {}
  /\ req = [r \in Request |-> Idle]

At(r, phase) == req[r].phase = phase

Go(r, phase) == req' = [req EXCEPT ![r].phase = phase]

Start(r, phase, f, was, format) ==
  req' = [req EXCEPT ![r] = [phase |-> phase, file |-> f, was |-> was, format |-> format]]

Leave(r) == req' = [req EXCEPT ![r] = Idle]

(* The objects a row names: webp_path and png_path, or path.                *)
Named(f, download) ==
  {<<f, download>>} \cup IF f \in Image THEN {<<f, "webp">>} ELSE {}

Put(f, name) == objects' = objects \cup {<<f, name>>}

-----------------------------------------------------------------------------
(* `create_media`, `create_attachment`.                                     *)
Upload(r, f, format) ==
  /\ At(r, "idle") /\ f \notin used
  /\ used' = used \cup {f}
  /\ Start(r, IF f \in Image THEN "web" ELSE "download", f, Nil, format)
  /\ UNCHANGED <<row, objects, interrupted, raced>>

(* Faulty form: the download copy is left for later.                        *)
PutWebOnly(r) ==
  /\ At(r, "web")
  /\ Put(req[r].file, "webp")
  /\ Go(r, "insert")
  /\ UNCHANGED <<row, used, interrupted, raced>>

PutWeb(r) ==
  /\ At(r, "web")
  /\ Put(req[r].file, "webp")
  /\ Go(r, "download")
  /\ UNCHANGED <<row, used, interrupted, raced>>

PutDownload(r) ==
  /\ At(r, "download")
  /\ Put(req[r].file, req[r].format)
  /\ Go(r, "insert")
  /\ UNCHANGED <<row, used, interrupted, raced>>

Insert(r) ==
  /\ At(r, "insert")
  /\ row' = [row EXCEPT ![req[r].file] = req[r].format]
  /\ Leave(r)
  /\ UNCHANGED <<objects, used, interrupted, raced>>

-----------------------------------------------------------------------------
Compressing(f) ==
  \E q \in Request : req[q].file = f /\ req[q].phase \in {"put web", "put download", "drop", "update"}

Deleting(f) == \E q \in Request : req[q].file = f /\ req[q].phase \in {"objects", "delete"}

(* `delete_media`, `delete_attachment`: 404 without a row.                  *)
LoadDelete(r, f) ==
  /\ At(r, "idle") /\ row[f] # Nil
  /\ Start(r, "objects", f, row[f], Nil)
  /\ raced' = IF Compressing(f) THEN raced \cup {f} ELSE raced
  /\ UNCHANGED <<row, objects, used, interrupted>>

(* Faulty form: the copy to download is forgotten.                          *)
DeleteWebObject(r) ==
  /\ At(r, "objects")
  /\ objects' = objects \ {<<req[r].file, "webp">>}
  /\ Go(r, "delete")
  /\ UNCHANGED <<row, used, interrupted, raced>>

(* `delete_objects` is best effort: some or all of them may stay.           *)
DeleteObjects(r) ==
  LET f == req[r].file  named == Named(f, req[r].was) IN
  /\ At(r, "objects")
  /\ \E gone \in SUBSET named :
       /\ objects' = objects \ gone
       /\ interrupted' = IF gone = named THEN interrupted ELSE interrupted \cup {f}
  /\ Go(r, "delete")
  /\ UNCHANGED <<row, used, raced>>

(* A row that another delete took is an error and changes nothing.          *)
DeleteRow(r) ==
  /\ At(r, "delete")
  /\ row' = [row EXCEPT ![req[r].file] = Nil]
  /\ Leave(r)
  /\ UNCHANGED <<objects, used, interrupted, raced>>

-----------------------------------------------------------------------------
(* scripts/recompress_media.py, of which there is one at a time: it fetches *)
(* the copy to download and leaves an image whose copy it cannot fetch.     *)
Fetch(r, f, format) ==
  /\ At(r, "idle") /\ f \in Image /\ \A g \in File : ~ Compressing(g)
  /\ row[f] # Nil /\ <<f, row[f]>> \in objects
  /\ Start(r, "put web", f, row[f], format)
  /\ raced' = IF Deleting(f) THEN raced \cup {f} ELSE raced
  /\ UNCHANGED <<row, objects, used, interrupted>>

PutWebAgain(r) ==
  /\ At(r, "put web")
  /\ Put(req[r].file, "webp")
  /\ Go(r, "put download")
  /\ UNCHANGED <<row, used, interrupted, raced>>

PutDownloadAgain(r) ==
  /\ At(r, "put download")
  /\ Put(req[r].file, req[r].format)
  /\ Go(r, IF req[r].format = req[r].was THEN "update" ELSE "drop")
  /\ UNCHANGED <<row, used, interrupted, raced>>

(* The old copy goes before the row stops naming it.                        *)
DropOld(r) ==
  LET f == req[r].file IN
  /\ At(r, "drop")
  /\ \/ objects' = objects \ {<<f, req[r].was>>} /\ UNCHANGED interrupted
     \/ interrupted' = interrupted \cup {f} /\ UNCHANGED objects
  /\ Go(r, "update")
  /\ UNCHANGED <<row, used, raced>>

(* An UPDATE of a row that is gone is an error.                             *)
UpdateRow(r) ==
  LET f == req[r].file IN
  /\ At(r, "update")
  /\ row' = [row EXCEPT ![f] = IF @ = Nil THEN Nil ELSE req[r].format]
  /\ Leave(r)
  /\ UNCHANGED <<objects, used, interrupted, raced>>

(* A call to the bucket fails (503), or the handler dies.                   *)
Fail(r) ==
  /\ ~ At(r, "idle")
  /\ interrupted' = interrupted \cup {req[r].file}
  /\ Leave(r)
  /\ UNCHANGED <<row, objects, used, raced>>

Next ==
  \E r \in Request :
    \/ \E f \in File, format \in Format : Upload(r, f, format) \/ Fetch(r, f, format)
    \/ \E f \in File : LoadDelete(r, f)
    \/ PutWeb(r) \/ PutDownload(r) \/ Insert(r) \/ DeleteObjects(r) \/ DeleteRow(r)
    \/ PutWebAgain(r) \/ PutDownloadAgain(r) \/ DropOld(r) \/ UpdateRow(r) \/ Fail(r)

Spec == Init /\ [][Next]_vars

-----------------------------------------------------------------------------
TypeOK ==
  /\ row \in [File -> Format \cup {Nil}]
  /\ objects \subseteq File \X (Format \cup {"webp"})
  /\ used \subseteq File /\ interrupted \subseteq used /\ raced \subseteq used
  /\ \A r \in Request : req[r].phase \in Phase /\ (At(r, "idle") <=> req[r].file = Nil)

Busy(f) == \E r \in Request : req[r].file = f

(* What a row names is in the bucket, whatever uploads, deletes and the     *)
(* script have done to it before: only a step that failed, or that is still *)
(* to come, leaves a picture that cannot be shown.                          *)
RowsAreBacked ==
  \A f \in File \ interrupted :
    row[f] # Nil /\ ~ Busy(f) => Named(f, row[f]) \subseteq objects

(* "so the bucket and DB never drift": nothing is left in the bucket that   *)
(* no row names, but for steps that failed and for an image that was        *)
(* compressed again while it was deleted.                                   *)
NoStrays ==
  \A o \in objects :
    \/ o[1] \in interrupted \cup raced
    \/ Busy(o[1])
    \/ row[o[1]] # Nil /\ o \in Named(o[1], row[o[1]])

============================================================================
