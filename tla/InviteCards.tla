---------------------------- MODULE InviteCards -----------------------------
(***************************************************************************)
(* The invite card of an event, that of a copy of the event, and the       *)
(* uploaded pictures (internal/invite). A picture is a file; the card      *)
(* holds a URL whose last segment is its name. An upload removes the       *)
(* event's pictures and writes the new one; a save removes the file that   *)
(* the card's URL names if that URL is not the one to be saved, and then   *)
(* writes the row.                                                         *)
(***************************************************************************)
EXTENDS EventScope

CONSTANTS
    ImageTypes,   \* allowedImageTypes
    Payloads,     \* kinds of data that are uploaded
    NoCard,       \* an event without a card
    NoPicture,    \* a card without a picture
    BadLink       \* a background image that is no acceptable link

\* What is accepted, by its signature.
DetectImageType(data) == data \in ImageTypes

\* The name of a file: the event, the second, the type.
Pictures == [at : -1 .. MaxTime, ext : ImageTypes]

\* A relative or an absolute URL: two strings, and the same last segment.
Urls == [name : Pictures, form : {"path", "absolute"}]

ASSUME CardsAssumption ==
    /\ ImageTypes # {} /\ ImageTypes \subseteq Payloads
    /\ Payloads \cap (Urls \cup {NoPicture}) = {}
    /\ NoPicture \notin Urls /\ NoCard \notin Urls \cup {NoPicture}

\* sanitizeBackgroundURL: what is not acceptable is dropped.
SanitizeCustomData(link) == IF link = BadLink THEN NoPicture ELSE link

Cards == {"event", "copy"}

VARIABLES
    files,      \* uploaded pictures of the event
    card,       \* of the event and of its copy: the URL or NoPicture, or NoCard
    edited,     \* the card that goroutine p works on
    chosen,     \* what it stores: a type, or a URL
    doomed,     \* the files it is about to remove
    alone       \* history: saves of a picture that existed, overlapped by none, that do
                \* not merely write the card's URL in another form

cardVars == <<files, card, edited, chosen, doomed, alone>>

FirstPicture == [at |-> -1, ext |-> CHOOSE x \in ImageTypes : TRUE]

CardsInit ==
    /\ files = {FirstPicture}
    /\ card = [e \in Cards |-> IF e = "event" THEN [name |-> FirstPicture, form |-> "path"]
                                              ELSE NoCard]
    /\ edited = [p \in Procs |-> "event"] /\ chosen = [p \in Procs |-> NoPicture]
    /\ doomed = [p \in Procs |-> {}] /\ alone = {}

CardLabels == {"k_remove", "k_upload", "k_lookup", "k_update", "k_insert"}
Busy == {p \in Procs : pc[p] \in CardLabels}

\* Goroutine p works on card e, stores x and is about to remove ds.
Work(p, e, x, ds) ==
    /\ edited' = [edited EXCEPT ![p] = e]
    /\ chosen' = [chosen EXCEPT ![p] = x]
    /\ doomed' = [doomed EXCEPT ![p] = ds]

-----------------------------------------------------------------------------
(* handleUploadImage.                                                      *)

\* Variant: the old pictures stay.
CleanupEventImagesNever == {}

\* cleanupEventImages: the files listed.
CleanupEventImages == files

UploadList(p, data) ==
    /\ eventStatus # "deleted" /\ DetectImageType(data)
    /\ Admit(p, Organizer, "k_remove")
    /\ Work(p, "event", data, CleanupEventImages)
    /\ alone' = {}
    /\ UNCHANGED <<files, card>>

\* WriteFile, under the second it is called in.
UploadWrite(p) ==
    /\ pc[p] = "k_upload" /\ Goto(p, "idle")
    /\ files' = files \cup {[at |-> now, ext |-> chosen[p]]}
    /\ Work(p, "event", NoPicture, {})
    /\ UNCHANGED <<card, alone>>

-----------------------------------------------------------------------------
(* Service.Save.                                                           *)

\* Variant: the file goes, even if its URL is kept.
CleanupOldImageKept(e, new) == {url.name : url \in {card[e]} \ {NoCard, NoPicture}}

\* cleanupOldImage: the file that the card's URL names, if the new URL is another,
\* be it one of the same file.
CleanupOldImage(e, new) == {url.name : url \in {card[e]} \ {NoCard, NoPicture, new}}

\* The file is kept and its URL is not.
SameFile(e, new) ==
    /\ new # card[e] /\ {card[e], new} \cap {NoCard, NoPicture} = {}
    /\ card[e].name = new.name

\* handleSave: the event exists; the copy counts once it has its card.
CanSave(e) == IF e = "event" THEN eventStatus # "deleted" ELSE card[e] # NoCard

\* Save up to the removal of the old picture; an error there is passed over.
Save(p, e, link) ==
    LET new == SanitizeCustomData(link) IN
    /\ CanSave(e)
    /\ Admit(p, Organizer, "k_remove")
    /\ \E ds \in {CleanupOldImage(e, new), {}} : Work(p, e, new, ds)
    /\ alone' = IF Busy = {} /\ (new = NoPicture \/ new.name \in files) /\ ~SameFile(e, new)
                THEN {p} ELSE {}
    /\ UNCHANGED <<files, card>>

\* The files are removed; a save goes on with Upsert.
RemoveFiles(p) ==
    /\ pc[p] = "k_remove"
    /\ Goto(p, IF chosen[p] \in Payloads THEN "k_upload" ELSE "k_lookup")
    /\ files' = files \ doomed[p]
    /\ doomed' = [doomed EXCEPT ![p] = {}]
    /\ UNCHANGED <<card, edited, chosen, alone>>

\* Upsert looks for the row ...
UpsertFind(p) ==
    /\ pc[p] = "k_lookup"
    /\ Goto(p, IF card[edited[p]] = NoCard THEN "k_insert" ELSE "k_update")
    /\ UNCHANGED cardVars

\* ... and updates it, if it is still there, or inserts it, if it still is not and
\* the event is.
UpsertWrite(p) ==
    LET present_ == card[edited[p]] # NoCard IN
    /\ pc[p] \in {"k_update", "k_insert"} /\ Goto(p, "idle")
    /\ card' = IF \/ pc[p] = "k_update" /\ present_
                  \/ pc[p] = "k_insert" /\ ~present_ /\ (edited[p] = "copy" \/ eventStatus # "deleted")
               THEN [card EXCEPT ![edited[p]] = chosen[p]]
               ELSE card
    /\ Work(p, "event", NoPicture, {})
    /\ alone' = alone \ {p}
    /\ UNCHANGED files

-----------------------------------------------------------------------------
\* The onDuplicate callback saves the same custom data for the copy: the same name.
CopiedPicture == card["event"]

\* Duplicate, with its callback. One copy is enough; it has no card yet that could
\* lose a picture.
Duplicate(p) ==
    /\ eventStatus # "deleted"
    /\ card["event"] # NoCard /\ card["copy"] = NoCard
    /\ \A q \in Busy : edited[q] # "copy"
    /\ Admit(p, Organizer, "k_lookup")
    /\ Work(p, "copy", CopiedPicture, {})
    /\ alone' = {}
    /\ UNCHANGED <<files, card>>

\* The cleanup job removes the pictures of an event and its transaction fails.
SweepImages ==
    /\ eventStatus # "deleted" /\ files # {}
    /\ files' = {} /\ alone' = {}
    /\ UNCHANGED <<scopeVars, card, edited, chosen, doomed>>

\* ON DELETE CASCADE, after the pictures.
CardsLoseEvent ==
    /\ files' = {} /\ card' = [card EXCEPT !["event"] = NoCard] /\ alone' = {}
    /\ UNCHANGED <<edited, chosen, doomed>>

CardsForget(ps) ==
    /\ edited' = [p \in Procs |-> IF p \in ps THEN "event" ELSE edited[p]]
    /\ chosen' = [p \in Procs |-> IF p \in ps THEN NoPicture ELSE chosen[p]]
    /\ doomed' = [p \in Procs |-> IF p \in ps THEN {} ELSE doomed[p]]
    /\ alone' = alone \ ps
    /\ UNCHANGED <<files, card>>

\* What a request may carry: what the editor shows, the pictures there are, in either
\* form, and links that are not accepted.
Links == {u \in Urls : u.name \in files \/ \E e \in Cards : u = card[e]} \cup {NoPicture, BadLink}

CardsNext ==
    \/ \E p \in Procs :
          \/ \E data \in Payloads : UploadList(p, data)
          \/ \E e \in Cards, link \in Links : Save(p, e, link)
          \/ RemoveFiles(p) \/ UploadWrite(p) \/ UpsertFind(p) \/ UpsertWrite(p) \/ Duplicate(p)
    \/ SweepImages

-----------------------------------------------------------------------------
CardsTypeOK ==
    /\ files \subseteq Pictures
    /\ card \in [Cards -> Urls \cup {NoPicture, NoCard}]
    /\ edited \in [Procs -> Cards]
    /\ chosen \in [Procs -> Urls \cup {NoPicture} \cup ImageTypes]
    /\ doomed \in [Procs -> SUBSET Pictures]
    /\ alone \subseteq Busy

\* The picture whose URL a save is about to store is there until it is stored, if it was
\* there, no other request on the cards overlaps, and the card does not show the same
\* file by another URL already: then the save removes what it keeps. Of saves that
\* overlap nothing is said.
KeptPictureStays == \A p \in alone : chosen[p] = NoPicture \/ chosen[p].name \in files

\* However uploads overlap and fail, an event has at most one picture for every
\* request that the server handles at a time: the next upload finds all that
\* earlier ones left behind (the directory can be read and its files removed).
PicturesBounded == Cardinality(files) <= Cardinality(Procs)

\* A save on its own removes no picture that it keeps, and what is replaced does not
\* pile up.
PicturesKept == KeptPictureStays /\ PicturesBounded

=============================================================================
