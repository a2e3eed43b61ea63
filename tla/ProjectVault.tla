---------------------------- MODULE ProjectVault ----------------------------
(***************************************************************************)
(* What a founder keeps and shows: documents in the object storage         *)
(* (app/documents), links to the sheet of the project (app/sharing), and   *)
(* the erasure of the account (app/gdpr), which has both to forget.  The   *)
(* bucket also holds the PDF of the report (app/diagnostics/handlers.py).  *)
(*                                                                         *)
(* A request reads its rows and answers or commits later; the calls to the *)
(* storage (app/core/storage.py) happen in between and can fail.           *)
(***************************************************************************)
EXTENDS Persistence, Naturals, FiniteSets

CONSTANTS
    Docs,        \* rows of documents, with the key of their object
    Shares,      \* rows of project_shares, with their token
    Requests,    \* the calls being served
    Pdf,         \* the key bilans/<report>.pdf
    MaxViews,    \* bound: the visits of a link
    Reliable     \* does the storage answer, and the process not crash?

ASSUME VaultAssumption ==
    /\ Pdf \notin Docs /\ Reliable \in BOOLEAN
    /\ IsFiniteSet(Requests) /\ MaxViews \in Nat
    /\ None \notin [is_active : BOOLEAN, expired : BOOLEAN, view_count : Nat]

VARIABLES
    owner,     \* is the account there? TRUE until the erasure commits
    report,    \* "none", "written" (the PDF is stored) or "ready"
    is_public, \* projects.is_public
    doc,       \* [Docs -> the status of the row]
    url,       \* the documents whose presigned PUT is valid
    bucket,    \* [the keys that are stored -> does the object respect the limits?]
    share,     \* [Shares -> a row of project_shares]
    request,   \* [Requests -> what a request has read]
    served,    \* history: [Shares -> the views that were committed]
    excused    \* history: the objects that the erasure could not know, or remove

vaultRows == <<owner, report, is_public, doc, share>>
vaultVars == <<vaultRows, url, bucket, request, served, excused>>

DocumentStatus == {"pending", "confirmed"}
DocumentRows == {d \in Docs : doc[d] \in DocumentStatus}
Stored == DOMAIN bucket
ProjectShare == [is_active : BOOLEAN, expired : BOOLEAN, view_count : 0..MaxViews]
NewShare == [is_active |-> TRUE, expired |-> FALSE, view_count |-> 0]
Asked(op, on, keys, views) == [op |-> op, on |-> on, keys |-> keys, views |-> views]
NoRequest == Asked("none", None, {}, 0)
VaultOperations == {"confirm", "confirm_checked", "delete", "delete_removed", "share", "fiche", "erase", "clean"}

\* The types of the rows and of the requests; a row needs its owner.
VaultTypeOK ==
    /\ owner \in BOOLEAN /\ is_public \in BOOLEAN /\ report \in {"none", "written", "ready"}
    /\ doc \in [Docs -> DocumentStatus \cup {"none", "deleted"}]
    /\ Stored \subseteq Docs \cup {Pdf} /\ url \subseteq Docs
    /\ share \in [Shares -> ProjectShare \cup {None}]
    /\ \A r \in Requests : request[r].op \in VaultOperations \cup {"none"} /\ request[r].keys \subseteq Docs
    /\ ~ owner => DocumentRows = {} /\ \A l \in Shares : share[l] = None

VaultInit ==
    /\ owner = TRUE /\ report = "none" /\ is_public = FALSE
    /\ doc = [d \in Docs |-> "none"]
    /\ url = {} /\ bucket = [k \in {} |-> TRUE]
    /\ share = [l \in Shares |-> None]
    /\ request = [r \in Requests |-> NoRequest]
    /\ served = [l \in Shares |-> 0]
    /\ excused = {}

Asks(r, op, on) ==
    /\ request[r] = NoRequest /\ owner
    /\ request' = [request EXCEPT ![r] = Asked(op, on, {}, 0)]
Goes(r, op) == request' = [request EXCEPT ![r].op = op]
Answered(r) == request' = [request EXCEPT ![r] = NoRequest]

\* bucket without, or with, an object.
Without(k) == [x \in Stored \ {k} |-> bucket[x]]
With(k, fits) == [x \in Stored \cup {k} |-> IF x = k THEN fits ELSE bucket[x]]

\* What aremove_object leaves: nothing, or the object when the storage fails.
Removed(k) == {Without(k)} \cup (IF Reliable THEN {} ELSE {bucket})

-----------------------------------------------------------------------------
(* Documents.                                                              *)

\* The row is committed with a URL that is valid for five minutes.
RequestUploadUrl(d) ==
    /\ owner /\ doc[d] = "none"
    /\ doc' = [doc EXCEPT ![d] = "pending"]
    /\ url' = url \cup {d}
    \* an erasure that has read its keys does not know this one
    /\ excused' = IF \E r \in Requests : request[r].op = "erase" THEN excused \cup {d} ELSE excused
    /\ UNCHANGED <<owner, report, is_public, share, bucket, request, served>>

\* The client sends the bytes to the storage; they respect the limits or not.
Put(d, fits) ==
    /\ d \in url
    /\ bucket' = With(d, fits)
    /\ excused' = IF owner THEN excused ELSE excused \cup {d}
    /\ UNCHANGED <<vaultRows, url, request, served>>

UrlExpires(d) ==
    /\ d \in url /\ url' = url \ {d}
    /\ UNCHANGED <<vaultRows, bucket, request, served, excused>>

OpenDocument(r, d, op) ==
    /\ op \in {"confirm", "delete"} /\ d \in DocumentRows
    /\ Asks(r, op, d)
    /\ UNCHANGED <<vaultRows, url, bucket, served, excused>>

\* astat_object: an object that is not there, or a storage that fails, is an error; one that
\* breaks the limits is removed, and the row stays.
CheckObject(r) ==
    LET d == request[r].on IN
    /\ request[r].op = "confirm"
    /\ \/ d \in Stored /\ bucket[d] /\ Goes(r, "confirm_checked") /\ UNCHANGED bucket
       \/ d \in Stored /\ ~ bucket[d] /\ Answered(r) /\ bucket' \in Removed(d)
       \/ (d \notin Stored \/ ~ Reliable) /\ Answered(r) /\ UNCHANGED bucket
    /\ UNCHANGED <<vaultRows, url, served, excused>>

\* A row that is gone is an error at the flush.
ConfirmUpload(r) ==
    LET d == request[r].on IN
    /\ request[r].op = "confirm_checked"
    /\ doc' = [doc EXCEPT ![d] = IF d \in DocumentRows THEN "confirmed" ELSE @]
    /\ Answered(r)
    /\ UNCHANGED <<owner, report, is_public, share, url, bucket, served, excused>>

\* The object first, whatever the storage answers, then the row.
RemoveObject(r) ==
    /\ request[r].op = "delete"
    /\ bucket' \in Removed(request[r].on)
    \* a URL that is still valid can bring the object back
    /\ excused' = IF request[r].on \in DOMAIN bucket' \cup url THEN excused \cup {request[r].on} ELSE excused
    /\ Goes(r, "delete_removed")
    /\ UNCHANGED <<vaultRows, url, served>>
DeleteDocument(r) ==
    LET d == request[r].on IN
    /\ request[r].op = "delete_removed"
    /\ doc' = [doc EXCEPT ![d] = IF d \in DocumentRows THEN "deleted" ELSE @]
    /\ Answered(r)
    /\ UNCHANGED <<owner, report, is_public, share, url, bucket, served, excused>>

-----------------------------------------------------------------------------
(* Sharing.                                                                *)

\* put_bytes of the worker, and then the commit of the report that is ready.
PutPdf ==
    /\ owner /\ report = "none"
    /\ report' = "written" /\ bucket' = With(Pdf, TRUE)
    /\ UNCHANGED <<owner, is_public, doc, share, url, request, served, excused>>
MarkReady ==
    /\ owner /\ report = "written" /\ report' = "ready"
    /\ UNCHANGED <<owner, is_public, doc, share, url, bucket, request, served, excused>>

SetVisibility(public) ==
    /\ owner /\ is_public' = public
    /\ UNCHANGED <<owner, report, doc, share, url, bucket, request, served, excused>>

\* With the consent of the owner, when a report is ready.
OpenShare(r, l) ==
    /\ report = "ready" /\ share[l] = None
    /\ Asks(r, "share", l)
    /\ UNCHANGED <<vaultRows, url, bucket, served, excused>>
CreateShare(r) ==
    LET l == request[r].on IN
    /\ request[r].op = "share"
    /\ share' = [share EXCEPT ![l] = IF owner /\ @ = None THEN NewShare ELSE @]
    /\ Answered(r)
    /\ UNCHANGED <<owner, report, is_public, doc, url, bucket, served, excused>>

\* One UPDATE of the links that are active.
Revoke ==
    /\ owner
    /\ share' = [l \in Shares |-> IF share[l] = None THEN None ELSE [share[l] EXCEPT !.is_active = FALSE]]
    /\ UNCHANGED <<owner, report, is_public, doc, url, bucket, request, served, excused>>

ShareExpires(l) ==
    /\ share[l] # None /\ ~ share[l].expired
    /\ share' = [share EXCEPT ![l].expired = TRUE]
    /\ UNCHANGED <<owner, report, is_public, doc, url, bucket, request, served, excused>>

\* get_active_by_hash
Shown(l) == share[l] # None /\ share[l].is_active /\ ~ share[l].expired /\ report = "ready"
OpenFiche(r, l) ==
    /\ Shown(l) /\ share[l].view_count + Cardinality({q \in Requests : request[q].op = "fiche"}) < MaxViews
    /\ request[r] = NoRequest
    /\ request' = [request EXCEPT ![r] = Asked("fiche", l, {}, share[l].view_count)]
    /\ UNCHANGED <<vaultRows, url, bucket, served, excused>>

\* Mutant: the count is read with the link and written back.
ViewedSinceRead(l, read) == read + 1
\* increment_view: SET view_count = view_count + 1.
Viewed(l, read) == share[l].view_count + 1

\* The view is counted, best-effort, and the sheet is sent.
GetFiche(r) ==
    LET l == request[r].on IN
    /\ request[r].op = "fiche"
    /\ \/ /\ share[l] # None
          /\ share' = [share EXCEPT ![l].view_count = Viewed(l, request[r].views)]
          /\ served' = [served EXCEPT ![l] = @ + 1]
       \/ (share[l] = None \/ ~ Reliable) /\ UNCHANGED <<share, served>>
    /\ Answered(r)
    /\ UNCHANGED <<owner, report, is_public, doc, url, bucket, excused>>

-----------------------------------------------------------------------------
(* Erasure.                                                                *)

\* Mutant: the keys are read when the rows are gone.
ObjectKeysTooLate == {}
\* The documents of the owner, before the rows are deleted.
ObjectKeys == DocumentRows

DeleteMe(r) ==
    /\ request[r] = NoRequest /\ owner
    /\ request' = [request EXCEPT ![r] = Asked("erase", None, ObjectKeys, 0)]
    /\ UNCHANGED <<vaultRows, url, bucket, served, excused>>

\* Mutant: the links of the account have no cascade.
EraseAccountLeavingShares(r) ==
    /\ request[r].op = "erase" /\ owner
    /\ owner' = FALSE /\ report' = "none"
    /\ doc' = [d \in Docs |-> IF d \in DocumentRows THEN "deleted" ELSE doc[d]]
    /\ Goes(r, "clean")
    /\ UNCHANGED <<share, is_public, url, bucket, served, excused>>
\* The account is deleted with its rows: ON DELETE CASCADE.
EraseAccount(r) ==
    /\ request[r].op = "erase"
    /\ IF owner
       THEN /\ owner' = FALSE /\ report' = "none"
            /\ doc' = [d \in Docs |-> IF d \in DocumentRows THEN "deleted" ELSE doc[d]]
            /\ share' = [l \in Shares |-> None]
            /\ Goes(r, "clean")
       ELSE Answered(r) /\ UNCHANGED <<owner, report, doc, share>>
    /\ UNCHANGED <<is_public, url, bucket, served, excused>>

\* The objects, one by one, best-effort.
CleanObject(r, d) ==
    /\ request[r].op = "clean" /\ d \in request[r].keys
    /\ bucket' \in Removed(d)
    /\ excused' = IF d \in DOMAIN bucket' THEN excused \cup {d} ELSE excused
    /\ request' = [request EXCEPT ![r].keys = @ \ {d}]
    /\ UNCHANGED <<vaultRows, url, served>>
FinishCleaning(r) ==
    /\ request[r].op = "clean" /\ request[r].keys = {}
    /\ Answered(r)
    /\ UNCHANGED <<vaultRows, url, bucket, served, excused>>

\* The process stops in the middle of a request.
CrashRequest(r) ==
    /\ ~ Reliable /\ request[r] # NoRequest
    /\ excused' = IF request[r].op = "clean" THEN excused \cup request[r].keys ELSE excused
    /\ Answered(r)
    /\ UNCHANGED <<vaultRows, url, bucket, served>>

VaultNext ==
    \/ \E d \in Docs : RequestUploadUrl(d) \/ (\E fits \in BOOLEAN : Put(d, fits)) \/ UrlExpires(d)
    \/ PutPdf \/ MarkReady \/ Revoke \/ (\E public \in BOOLEAN : SetVisibility(public))
    \/ \E l \in Shares : ShareExpires(l)
    \/ \E r \in Requests :
        \/ \E d \in Docs : CleanObject(r, d) \/ (\E op \in VaultOperations : OpenDocument(r, d, op))
        \/ \E l \in Shares : OpenShare(r, l) \/ OpenFiche(r, l)
        \/ CheckObject(r) \/ ConfirmUpload(r) \/ RemoveObject(r) \/ DeleteDocument(r)
        \/ CreateShare(r) \/ GetFiche(r)
        \/ DeleteMe(r) \/ EraseAccount(r) \/ FinishCleaning(r) \/ CrashRequest(r)
VaultSpec == VaultInit /\ [][VaultNext]_vaultVars
-----------------------------------------------------------------------------

\* No view of a link is lost, whatever visits overlap (increment_view).
EveryViewCounts == \A l \in Shares : share[l] # None => share[l].view_count = served[l]

Erasing == \E r \in Requests : request[r].op = "clean"

\* When an account was erased, its documents are erased from the bucket too, but for those that
\* the storage did not remove, or that were sent or announced after the keys were read (delete_me).
ErasureReachesDocuments == ~ owner /\ ~ Erasing => Stored \cap Docs \subseteq excused

\* What a founder publishes or deletes: a link counts its views, and an erasure reaches the files.
VaultIsSound == EveryViewCounts /\ ErasureReachesDocuments
=============================================================================
