------------------------------- MODULE Pages --------------------------------
(* Documents and the pages made of them: app/features/documents/service.py  *)
(* and router.py, and the feed and the preview of pages in                  *)
(* app/features/website.  A document with a slug that is public is served   *)
(* under it; a document of type "Page" can be previewed, published or not.  *)
(* is_public only narrows the feed and is left out: every document is       *)
(* public.  A PATCH writes the attributes that differ from those it loaded. *)
EXTENDS Integers, FiniteSets

CONSTANTS
  Document, Slug, Request, Nil,
  Keep,         \* an attribute the body of a request does not name
  RESERVED,     \* RESERVED_SLUGS
  PATCHES       \* bound of the model

PagesAssumption ==
  /\ {Nil, Keep} \cap (Document \cup Slug \cup {"Page", "Note"}) = {}
  /\ Nil # Keep /\ RESERVED \subseteq Slug /\ PATCHES \in Nat

VARIABLES
  slug, type, archived,
  rows,         \* the documents there are
  retyped,      \* history: the type of a document with a slug, or of one that
                \* is being given a slug, was changed on its own
  patches,      \* history
  req

vars == <<slug, type, archived, rows, retyped, patches, req>>

Type == {"Page", "Note", Nil}

Idle == [phase |-> "idle", doc |-> Nil, slug |-> Keep, type |-> Keep]

Init ==
  /\ rows = {} /\ archived = {} /\ retyped = {}
  /\ slug = [d \in Document |-> Nil] /\ type = [d \in Document |-> Nil]
  /\ patches = 0
  /\ req = [r \in Request |-> Idle]

At(r, phase) == req[r].phase = phase

Leave(r) == req' = [req EXCEPT ![r] = Idle]

-----------------------------------------------------------------------------
(* Faulty form: only a contradiction is refused.                            *)
EnforceNothingMissing(data) ==
  IF data.slug \in Slug /\ data.type = "Note" THEN {} ELSE {data}

(* `_enforce_page_type`: a body that names a slug makes the document a      *)
(* Page, and is refused when it names another type.  A body without a slug  *)
(* passes as it is.                                                         *)
EnforcePageType(data) ==
  IF data.slug \notin Slug THEN {data}
  ELSE IF data.type = "Note" THEN {} ELSE {[data EXCEPT !.type = "Page"]}

(* `validate_slug` refuses the routes of the site.                          *)
Bodies ==
  UNION {EnforcePageType(data) : data \in
    [slug : (Slug \ RESERVED) \cup {Nil, Keep}, type : Type \cup {Keep}]}

Changed(new, old) == IF new = old THEN Keep ELSE new

(* PATCH of a document that is there, or POST of a new one: `db.get`, and   *)
(* the attributes that will be written.                                     *)
Arrive(r, d, data) ==
  /\ At(r, "idle")
  /\ d \in rows \/ \A q \in Request : req[q].doc # d
  /\ patches < PATCHES
  /\ patches' = patches + 1
  /\ req' = [req EXCEPT ![r] =
       [phase |-> IF data.slug \in Slug THEN "check" ELSE "commit", doc |-> d,
        slug |-> Changed(data.slug, slug[d]), type |-> Changed(data.type, type[d])]]
  /\ UNCHANGED <<slug, type, archived, rows, retyped>>

(* The SELECT of `validate_slug`; 422 when another document has the slug.   *)
CheckSlug(r) ==
  /\ At(r, "check")
  /\ IF \E d \in rows \ {req[r].doc} : slug[d] = req[r].slug
       THEN Leave(r)
       ELSE req' = [req EXCEPT ![r].phase = "commit"]
  /\ UNCHANGED <<slug, type, archived, rows, retyped, patches>>

Apply(old, change) == IF change = Keep THEN old ELSE change

(* Faulty form: an archived page gives up its slug.                         *)
SlugTakenLive(r) ==
  req[r].slug \in Slug /\ \E d \in rows \ (archived \cup {req[r].doc}) : slug[d] = req[r].slug

(* The unique index of document.slug.                                       *)
SlugTaken(r) ==
  req[r].slug \in Slug /\ \E d \in rows \ {req[r].doc} : slug[d] = req[r].slug

Slugging(d) == \E q \in Request : req[q].doc = d /\ req[q].slug \in Slug

Commit(r) ==
  LET d == req[r].doc IN
  /\ At(r, "commit")
  /\ ~ SlugTaken(r)
  /\ rows' = rows \cup {d}
  /\ slug' = [slug EXCEPT ![d] = Apply(@, req[r].slug)]
  /\ type' = [type EXCEPT ![d] = Apply(@, req[r].type)]
  /\ retyped' = IF req[r].type \notin {Keep, "Page"} /\ (slug[d] # Nil \/ Slugging(d))
                  THEN retyped \cup {d} ELSE retyped
  /\ Leave(r)
  /\ UNCHANGED <<archived, patches>>

(* The loser of a race for a slug: an IntegrityError; or the handler dies.  *)
Fail(r) ==
  /\ At(r, "check") \/ At(r, "commit")
  /\ Leave(r)
  /\ UNCHANGED <<slug, type, archived, rows, retyped, patches>>

-----------------------------------------------------------------------------
(* `archive_document` and `unarchive_document` write that attribute only.   *)
Archive(d) ==
  /\ d \in rows
  /\ archived' = archived \cup {d} \/ archived' = archived \ {d}
  /\ UNCHANGED <<slug, type, rows, retyped, patches, req>>

Next ==
  \/ \E r \in Request, d \in Document, data \in Bodies : Arrive(r, d, data)
  \/ \E r \in Request : CheckSlug(r) \/ Commit(r) \/ Fail(r)
  \/ \E d \in Document : Archive(d)

Spec == Init /\ [][Next]_vars

-----------------------------------------------------------------------------
TypeOK ==
  /\ rows \subseteq Document /\ archived \subseteq rows /\ retyped \subseteq Document
  /\ slug \in [Document -> Slug \cup {Nil}] /\ type \in [Document -> Type]
  /\ \A r \in Request : ~ At(r, "idle") <=> req[r].doc \in Document

(* `public_pages` and `public_page`, which take one row or none.            *)
Served(d) == d \in rows \ archived /\ slug[d] # Nil

(* `public_page_preview` and the link to it.                                *)
Previewable(d) == d \in rows \ archived /\ type[d] = "Page"

(* However requests race for a slug, and although archived pages come back, *)
(* an address leads to one page (`validate_slug`, the unique index).        *)
OnePagePerAddress ==
  \A d, e \in Document : Served(d) /\ Served(e) /\ slug[d] = slug[e] => d = e

(* A page that is served can be previewed, unless its type was changed on   *)
(* its own (`_enforce_page_type` looks at the body and not at the row).     *)
PreviewAgrees == \A d \in Document \ retyped : Served(d) => Previewable(d)

(* "so the page preview .. and the public .. feed .. can never disagree".   *)
PagePreviewable == \A d \in Document : Served(d) => Previewable(d)

============================================================================
